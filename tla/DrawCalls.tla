----------------------------- MODULE DrawCalls ------------------------------
(***************************************************************************)
(* Draws between small images of every format.                             *)
(***************************************************************************)
EXTENDS Calls, Memdraw

(* Drawing.  The pixels of an image are colours of a palette, chosen by     *)
(* position; colours are premultiplied by their alpha.                      *)
Elements(q) == {q[k] : k \in DOMAIN q}
Palette == <<[r |-> 15, g |-> 15, b |-> 15, a |-> 15], [r |-> 0, g |-> 0, b |-> 0, a |-> 0],
             [r |-> 3, g |-> 5, b |-> 0, a |-> 6], [r |-> 9, g |-> 2, b |-> 8, a |-> 9],
             [r |-> 1, g |-> 7, b |-> 12, a |-> 13]>>
Colour(p, seed) == Palette[1 + ((p[1] * p[1] + 2 * p[2] + seed) % 5)]

(* bit k, from the highest, of a byte of pixels *)
BitsOf(i, p, seed) ==
  LET left == <<p[1] - (p[1] % Bits), p[2]>>
  IN Little([k \in 1..Bits |-> 0]) + 8 * rgbatoimg(i, Colour(left, seed))
       + 4 * rgbatoimg(i, Colour(addpt(left, <<1, 0>>), seed))
       + 2 * rgbatoimg(i, Colour(addpt(left, <<2, 0>>), seed)) + rgbatoimg(i, Colour(addpt(left, <<3, 0>>), seed))
ByteAt(i, a, seed) ==
  LET p == CHOOSE p \in Points(Area(i)) : a - byteaddr(i, p) \in 0..(Larger(nb(i), 1) - 1)
  IN IF a \notin BytesOf(i) THEN 5
     ELSE IF depth(i) < Bits THEN BitsOf(i, p, seed)
     ELSE ByteOf(rgbatoimg(i, Colour(p, seed)), a - byteaddr(i, p))
Filled(i, seed) == [a \in 0..(i.width * Dy(i.r) + 1) |-> ByteAt(i, a, seed)]

Repl(i) == [i EXCEPT !.repl = TRUE, !.clipr = Rect(-9, -9, 9, 9)]
Chans == {GREY1, GREY8, RGB16, RGB24, RGBA32}
Dsts == {allocmemimaged("d", Rect(-2, 0, 5, 2), c) : c \in Chans}
Srcs == {allocmemimaged("s", Rect(1, 0, 6, 3), c) : c \in Chans}
          \cup {Repl(allocmemimaged("s", Rect(0, 0, n, 1), c)) : c \in Chans, n \in 1..2}
Masks == {allocmemimaged("m", Rect(0, 0, 7, 2), c) : c \in {GREY1, GREY8, RGBA32}}
           \cup {Repl(allocmemimaged("m", Rect(0, 0, 1, 1), c)) : c \in {GREY1, RGBA32}}

(* alphadraw expands the pixels of a source with an alpha channel *)
Expands(d, s) == Falpha(s) /\ (s.repl \/ Fgrey(d))

(* memory before a draw; the one pixel of a replicated image of size one is *)
(* white, and stale is what earlier draws left in alphadraw's buffer        *)
Before(d, s, m, stale) ==
  [d |-> Filled(d, 0), s |-> Filled(s, 1), m |-> Filled(m, 5), drawbuf |-> [a \in {0} |-> stale]]
(* the draws for which the leftovers matter *)
Stale(d, s) == IF Expands(d, s) THEN {0, 11} ELSE {0}
Drawing(mem, d, r, s, p0, m, p1, op) ==
  /\ call' = [f |-> "draw", mem |-> mem, dst |-> d, r |-> r, src |-> s, p0 |-> p0, mask |-> m, p1 |-> p1, op |-> op]
  /\ result' = memimagedraw(mem, d, r, s, p0, m, p1, op)

Draw ==
  \E d \in Dsts, s \in Srcs, m \in Masks : \E mem \in {Before(d, s, m, v) : v \in Stale(d, s)} :
    \E a \in {<<Rect(0, 0, 3, 2), <<1, 0>>, <<1, 0>>>>, <<Rect(-3, 0, 4, 1), <<3, 1>>, <<-2, 0>>>>},
       op \in {0, DoutS, SoutD, DatopS, DoverS, SinD, S, SoverD} :
      Drawing(mem, d, a[1], s, a[2], m, a[3], op)

(* the source is the destination: a scroll *)
Scroll ==
  \E d \in Dsts, op \in {S, SoverD, SinD} :
    \E mem \in {Before(d, d, Repl(allocmemimaged("m", Rect(0, 0, 1, 1), GREY1)), 0)},
       p \in {<<-1, 0>>, <<1, 0>>, <<0, 1>>, <<2, 1>>} :
      Drawing(mem, d, Rect(0, 0, 4, 2), d, p, Repl(allocmemimaged("m", Rect(0, 0, 1, 1), GREY1)), p, op)

(* lines of pixels copied from an image to another of the same format *)
Transfer ==
  \E i \in Dsts, r \in {Rect(x0, 0, x1, y) : x0 \in -2..1, x1 \in 1..5, y \in 1..2} :
    \E mem \in {[d |-> Filled(i, 0), s |-> Filled(i, 2)]} : \E data \in {unloadmemimage(mem, [i EXCEPT !.data = "s"], r)} :
      call' = [f |-> "load", mem |-> mem, i |-> i, r |-> r] /\ result' = loadmemimage(mem, i, r, data)
Clear ==
  \E i \in Dsts, c \in Elements(Palette) \cup {DNofill} : \E mem \in {[d |-> Filled(i, 0)]} :
    call' = [f |-> "fill", mem |-> mem, i |-> i, c |-> c] /\ result' = memfillcolor(mem, i, c)

ParamsOf(c) == Params(c.mem, c.dst, c.r, c.src, c.p0, c.mask, c.p1, c.op)

(* The 1-bit path of memoptdraw does not look at the operator. *)
IgnoresOp(par) == par.op # SoverD /\ CanBitCopy(par)

(* The general path reads an expanded source with alpha from wrong places  *)
(* (alphadraw.c:1127), although the comment over alphadraw says that the   *)
(* channels are expanded and a grey destination gets the NTSC grey; only   *)
(* clearing (op 0) does not look at the source.                            *)
MisreadsAlpha(par) == Expands(par.dst, par.src) /\ par.op # 0 /\ ~NoEffect(par) /\ ~CanFill(par)

DrawnAs(par, c, new) ==
  ~IgnoresOp(par) => Kept(c, new) /\ (MisreadsAlpha(par) \/ Composed(c, new))

(* Whichever path memimagedraw takes - fill, memmove, bits, characters,     *)
(* boolean copy or composition, for any formats, clips and replications -   *)
(* each covered pixel is the composition the operator defines, but for an   *)
(* expanded source with alpha, and every other bit of memory is as it was,  *)
(* for that one too (draw.c:22, alphadraw.c:240).                           *)
(* Loading writes the pixels of the rectangle and no other (transfer.c:7),  *)
(* and memfillcolor writes every pixel, or none for DNofill (color.c:110).  *)
DrawExact ==
  /\ call.f = "draw" => DrawnAs(ParamsOf(call), call, result)
  /\ call.f = "load" => Loaded(call.mem, result, call.i, [call.i EXCEPT !.data = "s"], call.r)
  /\ call.f = "fill" => IF call.c = DNofill THEN result = call.mem
                        ELSE \A p \in Points(call.i.r) : PixelAt(result, call.i, p) = rgbatoimg(call.i, call.c)

=============================================================================
