------------------------------ MODULE Desktop ------------------------------
(***************************************************************************)
(* What the layers of libmemlayer promise: each window has a picture of    *)
(* its own that only its owner changes, and the screen shows, at every     *)
(* point, the picture of the frontmost window there, or the background.    *)
(***************************************************************************)
EXTENDS Integers, Sequences, SequencesExt

CONSTANTS ScreenPoints, Background

VARIABLES
  order,    \* the windows, front to rear
  place,    \* window -> the points of the screen plane it occupies
  picture,  \* window -> the colour of each of these points
  screen    \* the colour of each point of the screen

vars == <<order, place, picture, screen>>

Over(o, p, pt) == SelectSeq(o, LAMBDA w : pt \in p[w])

Composition(o, p, pic) ==
  [pt \in ScreenPoints |->
     IF Over(o, p, pt) = <<>> THEN Background
     ELSE LET w == Head(Over(o, p, pt)) IN pic[w][pt]]

Init ==
  /\ order = <<>> /\ place = <<>> /\ picture = <<>>
  /\ screen = [pt \in ScreenPoints |-> Background]

(* Windows may come, go, move with their picture, or change their order;   *)
(* one window's picture may be drawn upon: at most one picture changes     *)
(* other than by moving.                                                   *)
Shifted(f, g) ==
  \E dx, dy \in -9..9 :
    DOMAIN g = {<<pt[1] + dx, pt[2] + dy>> : pt \in DOMAIN f}
      /\ \A pt \in DOMAIN f : g[<<pt[1] + dx, pt[2] + dy>>] = f[pt]

Next ==
  /\ \E w \in DOMAIN picture \cup DOMAIN picture' :
       \A v \in (DOMAIN picture \cup DOMAIN picture') \ {w} :
         v \in DOMAIN picture /\ v \in DOMAIN picture' /\ picture'[v] = picture[v]
  /\ \A w \in DOMAIN picture \cap DOMAIN picture' :
       place'[w] = place[w] \/ Shifted(picture[w], picture'[w])
  /\ screen' = Composition(order', place', picture')

Spec == Init /\ [][Next]_vars
=============================================================================
