------------------------------- MODULE Layers -------------------------------
(***************************************************************************)
(* Overlapping windows on one screen image (src/kernel/Libmemlayer).  What *)
(* is visible of a layer is on the screen image; what is not is in its     *)
(* save image, or drawn again by its refresh function.  A state s is a     *)
(* record:                                                                 *)
(*   img    the pixels of the screen image                                 *)
(*   order  the layers, from frontmost to rearmost                         *)
(*   lay    layer -> [screenr, delta, save, clear], where save holds the   *)
(*          pixels in the layer's own coordinates, NoSave when the layer   *)
(*          has a refresh function                                         *)
(* A rectangle is [x0, y0, x1, y1], without its last column and line.      *)
(***************************************************************************)
EXTENDS Geometry, SequencesExt, FiniteSetsExt

CONSTANTS
  Windows,    \* the windows
  Shadow,     \* the window memlorigin makes at the old position
  ScreenRect, \* clipr and r of the screen image
  Places,     \* rectangles for new windows
  Origins,    \* where memlorigin moves windows, [log, scr]
  Spots,      \* rectangles, relative to a window, that are drawn upon
  Colors,     \* colours that are drawn
  Background, \* the colour of the screen's fill image
  MaxOps      \* bound: operations

VARIABLES
  s,     \* the layers
  want,  \* window -> its pixels as its owner drew them, from its corner
  ops    \* operations done

vars == <<s, want, ops>>

NoSave == <<>>
InFrontOf(t, i) == SelectSeq(t.order, LAMBDA j : \E a, b \in DOMAIN t.order :
                           a < b /\ t.order[a] = j /\ t.order[b] = i)
(* Pixels moved by d. *)
Shift(pixels, d) == [p \in {addpt(q, d) : q \in DOMAIN pixels} |-> pixels[subpt(p, d)]]
Position(t, i) == CHOOSE k \in DOMAIN t.order : t.order[k] = i

(***************************************************************************)
(* _layerop: the parts of r, each on the screen or under a window in       *)
(* front.  A part is <<rectangle, insave>>.                                *)
(***************************************************************************)
RECURSIVE layerop(_, _, _, _)
layerop(t, i, r, fronts) ==
  IF fronts = <<>> THEN <<<<r, FALSE>>>>
  ELSE LET fr == t.lay[Head(fronts)].screenr
           top == Larger(r.y0, fr.y0)  bottom == Smaller(r.y1, fr.y1)
           left == Larger(r.x0, fr.x0)  right == Smaller(r.x1, fr.x1)
           Recur(q) == IF q.x0 < q.x1 /\ q.y0 < q.y1
                       THEN layerop(t, i, q, Tail(fronts)) ELSE <<>>
       IN IF ~rectXrect(r, fr) THEN layerop(t, i, r, Tail(fronts))
          ELSE Recur(Rect(r.x0, bottom, r.x1, r.y1)) \o Recur(Rect(r.x0, r.y0, r.x1, top))
                 \o Recur(Rect(right, top, r.x1, bottom)) \o Recur(Rect(r.x0, top, left, bottom))
                 \o <<<<Rect(left, top, right, bottom), TRUE>>>>

(* the parts off the screen: above, below, left and right of it *)
Offscreen(r) ==
  LET top == Larger(r.y0, ScreenRect.y0)  bottom == Smaller(r.y1, ScreenRect.y1)
      parts == << Rect(r.x0, r.y0, r.x1, ScreenRect.y0), Rect(r.x0, ScreenRect.y1, r.x1, r.y1),
                  Rect(r.x0, top, ScreenRect.x0, bottom), Rect(ScreenRect.x1, top, r.x1, bottom) >>
  IN IF rectinrect(r, ScreenRect) THEN <<>>
     ELSE IF ~rectXrect(r, ScreenRect) THEN << <<r, TRUE>> >>
     ELSE SelectSeq([k \in 1..4 |-> <<parts[k], TRUE>>],
                    LAMBDA q : q[1].x0 < q[1].x1 /\ q[1].y0 < q[1].y1)

memlayerop(t, i, screenr) ==
  LET r == rectclip(screenr, t.lay[i].screenr)
  IN IF ~rectXrect(screenr, t.lay[i].screenr) THEN <<>>
     ELSE IF t.lay[i].clear THEN << <<r, FALSE>> >>
     ELSE (IF rectXrect(r, ScreenRect)
           THEN layerop(t, i, rectclip(r, ScreenRect), InFrontOf(t, i)) ELSE <<>>)
          \o Offscreen(r)

(***************************************************************************)
(* Drawing: brush gives the new colour of each point of the layer, in      *)
(* screen coordinates.  ldrawop and llineop do the same on one part.       *)
(***************************************************************************)
Onto(pixels, brush, d) ==
  [p \in DOMAIN pixels |-> IF addpt(p, d) \in DOMAIN brush THEN brush[addpt(p, d)] ELSE pixels[p]]

Restrict2(f, pts) == [p \in DOMAIN f \cap pts |-> f[p]]

ldrawop(t, i, part, brush) ==
  IF part[2]
  THEN [t EXCEPT !.lay[i].save = Onto(@, Restrict2(brush, Points(part[1])), t.lay[i].delta)]
  ELSE [t EXCEPT !.img = Onto(@, Restrict2(brush, Points(part[1])), <<0, 0>>)]

drawlayer(t, i, r, brush) ==
  FoldLeft(LAMBDA u, part : ldrawop(u, i, part, brush), t, memlayerop(t, i, r))

(* lhideop: what is on the screen is copied to the save area. *)
memlhide(t, i, r) ==
  LET Hide(u, part) ==
        IF part[2] THEN u
        ELSE [u EXCEPT !.lay[i].save = Onto(@, Restrict2(t.img, Points(part[1])), t.lay[i].delta)]
  IN IF t.lay[i].save = NoSave \/ ~rectXrect(r, ScreenRect) THEN t
     ELSE FoldLeft(Hide, t, memlayerop(t, i, rectclip(r, ScreenRect)))

(* lexposeop: the save area, or the refresh function, paints the screen.   *)
(* The refresh function of a window draws what its owner wants, once its   *)
(* refreshptr is set; that of the shadow is memlnorefresh.                 *)
memlexpose(t, i, r) ==
  LET l == t.lay[i]
      source == IF l.save # NoSave THEN Shift(l.save, l.delta)
                ELSE IF i \in DOMAIN want THEN Shift(want[i], MinPt(l.screenr)) ELSE <<>>
      Expose(u, part) ==
        IF part[2] THEN u
        ELSE [u EXCEPT !.img = Onto(@, Restrict2(source, Points(part[1])), <<0, 0>>)]
  IN IF ~rectXrect(r, ScreenRect) THEN t
     ELSE FoldLeft(Expose, t, memlayerop(t, i, rectclip(r, ScreenRect)))

memlsetclear(t) ==
  [t EXCEPT !.lay = [i \in DOMAIN @ |->
     [@[i] EXCEPT !.clear =
        /\ rectinrect(t.lay[i].screenr, ScreenRect)
        /\ \A k \in DOMAIN InFrontOf(t, i) : ~rectXrect(t.lay[i].screenr, t.lay[InFrontOf(t, i)[k]].screenr)]]]

(***************************************************************************)
(* ltofront.c, ltorear.c: a layer passes its neighbours one by one.        *)
(***************************************************************************)
SwapAt(o, k) == [o EXCEPT ![k] = o[k + 1], ![k + 1] = o[k]]

(* i passes in front of f, which is just before it at position k; f is     *)
(* hidden while the order still shows it.                                  *)
(* Mutation of PassFront: f is hidden after the order has changed. *)
PassFrontLate(t, i, k, fill) ==
  LET f == t.order[k]
      overlap == rectXrect(t.lay[i].screenr, t.lay[f].screenr)
      x == rectclip(t.lay[i].screenr, t.lay[f].screenr)
      Swapped(u) == [u EXCEPT !.order = SwapAt(@, k)]
      Hidden(u) == IF overlap THEN [memlhide(u, f, x) EXCEPT !.lay[f].clear = FALSE] ELSE u
      Shown(u) == IF overlap /\ fill THEN memlexpose(u, i, x) ELSE u
  IN Shown(Hidden(Swapped(t)))

PassFront(t, i, k, fill) ==
  LET f == t.order[k]
      overlap == rectXrect(t.lay[i].screenr, t.lay[f].screenr)
      x == rectclip(t.lay[i].screenr, t.lay[f].screenr)
      Hidden(u) == IF overlap THEN [memlhide(u, f, x) EXCEPT !.lay[f].clear = FALSE] ELSE u
      Swapped(u) == [u EXCEPT !.order = SwapAt(@, k)]
      Shown(u) == IF overlap /\ fill THEN memlexpose(u, i, x) ELSE u
  IN Shown(Swapped(Hidden(t)))

(* _memltofront, until only n layers are in front of i *)
RECURSIVE ToFrontOf(_, _, _, _)
ToFrontOf(t, i, n, fill) ==
  IF Position(t, i) <= n + 1 THEN t
  ELSE ToFrontOf(PassFront(t, i, Position(t, i) - 1, fill), i, n, fill)

PassRear(t, i, k) ==
  LET r == t.order[k + 1]
      overlap == rectXrect(t.lay[i].screenr, t.lay[r].screenr)
      x == rectclip(t.lay[i].screenr, t.lay[r].screenr)
      Hidden(u) == IF overlap THEN [memlhide(u, i, x) EXCEPT !.lay[i].clear = FALSE] ELSE u
      Swapped(u) == [u EXCEPT !.order = SwapAt(@, k)]
      Shown(u) == IF overlap THEN memlexpose(u, r, x) ELSE u
  IN Shown(Swapped(Hidden(t)))

RECURSIVE ToRearOf(_, _, _)
ToRearOf(t, i, n) ==
  IF Position(t, i) >= Len(t.order) - n THEN t
  ELSE ToRearOf(PassRear(t, i, Position(t, i)), i, n)

memltofrontfill(t, i, fill) == memlsetclear(ToFrontOf(t, i, 0, fill))
memltofront(t, i) == memltofrontfill(t, i, TRUE)
memltorear(t, i) == memlsetclear(ToRearOf(t, i, 0))

(* memltofrontn, memltorearn *)
memltofrontn(t, is) ==
  memlsetclear(FoldLeft(LAMBDA u, k : ToFrontOf(u, is[k], k - 1, TRUE), t, [k \in DOMAIN is |-> k]))
memltorearn(t, is) ==
  memlsetclear(FoldLeft(LAMBDA u, k : ToRearOf(u, is[k], k - 1), t, [k \in DOMAIN is |-> k]))

(***************************************************************************)
(* memlalloc, memldelete.                                                  *)
(***************************************************************************)
WithLayer(t, i, r, save) ==
  [t EXCEPT !.order = Append(@, i),
            !.lay = [j \in DOMAIN @ \cup {i} |->
                       IF j = i THEN [screenr |-> r, delta |-> <<0, 0>>, save |-> save, clear |-> FALSE]
                       ELSE @[j]]]

(* with a colour, the save area and then the window are painted *)
memlalloc(t, i, r, backed, color) ==
  LET solid == [p \in Points(r) |-> color]
  IN drawlayer(memltofrontfill(WithLayer(t, i, r, IF backed THEN solid ELSE NoSave), i, TRUE),
               i, r, solid)

(* Mutation of memldelete: the fill image is not drawn. *)
memldeleteNoFill(t, i) ==
  LET Removed(u) == [u EXCEPT !.order = SelectSeq(@, LAMBDA j : j # i),
                              !.lay = [j \in DOMAIN @ \ {i} |-> @[j]]]
  IN Removed(memltorear([t EXCEPT !.lay[i].save = NoSave], i))

memldelete(t, i) ==
  LET Painted(u) == drawlayer(u, i, u.lay[i].screenr,
                              [p \in Points(u.lay[i].screenr) |-> Background])
      Removed(u) == [u EXCEPT !.order = SelectSeq(@, LAMBDA j : j # i),
                              !.lay = [j \in DOMAIN @ \ {i} |-> @[j]]]
  IN Removed(Painted(memltorear([t EXCEPT !.lay[i].save = NoSave], i)))

(***************************************************************************)
(* memlorigin: the window comes to the front, its coordinates change, and  *)
(* a shadow window holds its old position while it moves.                  *)
(***************************************************************************)
Relocate(t, i, log) ==
  LET l == t.lay[i]  d == subpt(log, subpt(MinPt(l.screenr), l.delta))
  IN [t EXCEPT !.lay[i].delta = subpt(@, d),
               !.lay[i].save = Shift(@, d)]

(* the shadow is just behind i, with nothing painted *)
ShadowBehind(t, i, oldr) ==
  LET u == memltofrontfill(WithLayer(t, Shadow, oldr, NoSave), Shadow, FALSE)
  IN [u EXCEPT !.order = <<i, Shadow>> \o Tail(Tail(@)), !.lay[Shadow].clear = FALSE]

HideUnder(t, newr, is) ==
  FoldLeft(LAMBDA u, j : IF rectXrect(newr, u.lay[j].screenr)
                         THEN [memlhide(u, j, rectclip(newr, u.lay[j].screenr)) EXCEPT !.lay[j].clear = FALSE]
                         ELSE u, t, is)

Moved(t, i, newr, log) ==
  [t EXCEPT !.lay[i] = [@ EXCEPT !.screenr = newr, !.delta = subpt(MinPt(newr), log),
                                 !.clear = rectinrect(newr, ScreenRect)]]

(* memdraw(s->image, newr, s->image, oldr.min) *)
CopyScreen(t, newr, oldr) ==
  LET d == subpt(MinPt(newr), MinPt(oldr))
      brush == [p \in {q \in Points(newr) : subpt(q, d) \in DOMAIN t.img} |-> t.img[subpt(p, d)]]
  IN [t EXCEPT !.img = Onto(@, brush, <<0, 0>>)]

memlorigin(t, i, log, scr) ==
  LET oldr == t.lay[i].screenr
      newr == rectaddpt(oldr, subpt(scr, MinPt(oldr)))
      Copy(u, wasclear) ==
        IF wasclear THEN CopyScreen(u, newr, oldr) ELSE memlexpose(u, i, newr)
      Move(u, wasclear) ==
        memldelete(Copy(Moved(HideUnder(u, newr, Tail(Tail(u.order))), i, newr, log), wasclear), Shadow)
      Placed(u) == IF scr = MinPt(oldr) THEN Relocate(u, i, log)
                   ELSE Move(ShadowBehind(Relocate(u, i, log), i, oldr), u.lay[i].clear)
  IN IF scr = MinPt(oldr) /\ log = subpt(MinPt(oldr), t.lay[i].delta) THEN t
     ELSE Placed(memltofront(t, i))

(***************************************************************************)
(* memdraw, when the destination is the layer i: with a colour, with       *)
(* another layer j as the source, or with i itself.  r and p0 are in the   *)
(* layers' own coordinates; r has been clipped.                            *)
(***************************************************************************)
Fill(r, color) == [p \in Points(r) |-> color]

(* the pixels of the source, as a brush over r in screen coordinates *)
BrushFrom(pixels, r, p0) ==
  LET d == subpt(MinPt(r), p0)
  IN [p \in {q \in Points(r) : subpt(q, d) \in DOMAIN pixels} |-> pixels[subpt(p, d)]]

(* p0s is the source point in screen coordinates, r is on the screen too *)
DrawFromLayer(t, i, r, j, p0) ==
  LET delta == t.lay[j].delta
      From(u) == drawlayer(u, i, r, BrushFrom(u.lay[j].save, r, p0))
      srcr == rectaddpt(rectsubpt(r, MinPt(r)), addpt(p0, delta))
  IN IF t.lay[j].clear THEN drawlayer(t, i, r, BrushFrom(t.img, r, addpt(p0, delta)))
     ELSE IF t.lay[j].save = NoSave THEN t
     ELSE From(memlhide(t, j, srcr))

DrawInSave(t, i, r, p0) ==
  LET delta == t.lay[i].delta
      srcr == rectaddpt(rectsubpt(r, MinPt(r)), addpt(p0, delta))
      hull == Rect(Smaller(r.x0, srcr.x0), Smaller(r.y0, srcr.y0),
                   Larger(r.x1, srcr.x1), Larger(r.y1, srcr.y1))
      Hidden == IF rectXrect(r, srcr) THEN memlhide(t, i, hull)
                ELSE memlhide(memlhide(t, i, r), i, srcr)
      Saved(u) == [u EXCEPT !.lay[i].save = Onto(@, BrushFrom(@, rectsubpt(r, delta), p0), <<0, 0>>)]
  IN IF t.lay[i].save = NoSave THEN t ELSE memlexpose(Saved(Hidden), i, r)

DrawFromSelf(t, i, r, p0) ==
  IF t.lay[i].clear THEN drawlayer(t, i, r, BrushFrom(t.img, r, addpt(p0, t.lay[i].delta)))
  ELSE DrawInSave(t, i, r, p0)

(* memline on a layer, whose pixels `line' its bounding box r covers: on the *)
(* screen image when the layer is clear, else part by part                  *)
memline(t, i, r, line, color) ==
  LET brush == [p \in line |-> color]
  IN IF t.lay[i].clear THEN [t EXCEPT !.img = Onto(@, brush, <<0, 0>>)]
     ELSE drawlayer(t, i, r, brush)

(* memload: straight into the save area when it is there, and expose *)
memload(t, i, r, color) ==
  LET d == t.lay[i].delta
      Loaded(u) == [u EXCEPT !.lay[i].save = Onto(@, Fill(rectsubpt(r, d), color), <<0, 0>>)]
  IN IF t.lay[i].clear \/ t.lay[i].save = NoSave THEN drawlayer(t, i, r, Fill(r, color))
     ELSE memlexpose(Loaded(t), i, r)

(* memunload: hide, and read the save area *)
(* Mutation of memunload: what is on the screen is not hidden first. *)
memunloadStale(t, i, r) ==
  [t |-> t, data |-> Restrict2(t.lay[i].save, Points(rectsubpt(r, t.lay[i].delta)))]

memunload(t, i, r) ==
  LET Read(u) == [t |-> u, data |-> Restrict2(u.lay[i].save, Points(rectsubpt(r, u.lay[i].delta)))]
      d == t.lay[i].delta
  IN IF t.lay[i].clear
     THEN [t |-> t, data |-> [p \in Points(rectsubpt(r, d)) |-> t.img[addpt(p, d)]]]
     ELSE Read(memlhide(t, i, r))

(* memlsetrefresh on a window that has a save area frees it; otherwise the *)
(* refresh function paints the whole window, and so its save area.         *)
memlsetrefresh(t, i) ==
  LET l == t.lay[i]
      Backed == [t EXCEPT !.lay[i].save = Fill(rectsubpt(l.screenr, l.delta), Background)]
  IN IF l.save # NoSave THEN [t EXCEPT !.lay[i].save = NoSave]
     ELSE drawlayer(Backed, i, l.screenr, Shift(want[i], MinPt(l.screenr)))

(***************************************************************************)
(* The owners of the windows.                                              *)
(***************************************************************************)
Step == ops < MaxOps /\ ops' = ops + 1
Open == DOMAIN want

Alloc(w, r, backed, c) ==
  /\ Step /\ w \notin Open
  /\ s' = memlalloc(s, w, r, backed, c)
  /\ want' = [v \in Open \cup {w} |-> IF v = w THEN Fill(rectsubpt(r, MinPt(r)), c) ELSE want[v]]

Delete(w) ==
  /\ Step /\ s' = memldelete(s, w)
  /\ want' = [v \in Open \ {w} |-> want[v]]

Restack(w) ==
  /\ Step /\ UNCHANGED want
  /\ \/ s' = memltofront(s, w) \/ s' = memltorear(s, w)
     \/ \E v \in Open \ {w} : s' = memltofrontn(s, <<w, v>>) \/ s' = memltorearn(s, <<w, v>>)

Origin(w, log, scr) ==
  /\ Step
  /\ s' = memlorigin(s, w, log, scr)
  /\ UNCHANGED want

(* a rectangle of the window, in screen coordinates *)
Spot(w, q) == rectclip(rectaddpt(q, MinPt(s.lay[w].screenr)), s.lay[w].screenr)
Painted(w, r, brush) ==
  [want EXCEPT ![w] = Onto(@, Restrict2(brush, Points(r)), MinPt(s.lay[w].screenr))]

Draw(w, q, c) ==
  /\ Step
  /\ LET r == Spot(w, q)
     IN /\ s' = drawlayer(s, w, r, Fill(r, c))
        /\ want' = Painted(w, r, Fill(r, c))

(* a diagonal from the corner of the window *)
Line(w, c) ==
  /\ Step
  /\ LET r == s.lay[w].screenr
         line == {p \in Points(r) : p[1] - r.x0 = p[2] - r.y0}
     IN /\ s' = memline(s, w, r, line, c)
        /\ want' = Painted(w, r, [p \in line |-> c])

Load(w, q, c) ==
  /\ Step
  /\ LET r == Spot(w, q)
     IN /\ s' = memload(s, w, r, c)
        /\ want' = Painted(w, r, Fill(r, c))

(* copy within a window by one column, or from the corner of another one; *)
(* the source is inside its window *)
Scroll(w, q, k) ==
  /\ Step /\ s.lay[w].save # NoSave
  /\ LET r == Spot(w, q)  from == rectaddpt(r, <<k, 0>>)
     IN /\ rectinrect(from, s.lay[w].screenr)
        /\ s' = DrawFromSelf(s, w, r, subpt(MinPt(from), s.lay[w].delta))
        /\ want' = Painted(w, r, BrushFrom(Shift(want[w], MinPt(s.lay[w].screenr)), r, MinPt(from)))

CopyFrom(w, q, v) ==
  /\ Step /\ v # w /\ s.lay[v].save # NoSave
  /\ LET r == Spot(w, q)  corner == MinPt(s.lay[v].screenr)
         from == rectaddpt(rectsubpt(r, MinPt(r)), corner)
     IN /\ rectinrect(from, s.lay[v].screenr)
        /\ s' = DrawFromLayer(s, w, r, v, subpt(corner, s.lay[v].delta))
        /\ want' = Painted(w, r, BrushFrom(Shift(want[v], corner), r, corner))

SetRefresh(w) ==
  /\ Step /\ s' = memlsetrefresh(s, w) /\ UNCHANGED want

Init ==
  /\ s = [img |-> [p \in Points(ScreenRect) |-> Background], order |-> <<>>, lay |-> <<>>]
  /\ want = <<>> /\ ops = 0

Next ==
  \/ \E w \in Windows, r \in Places, backed \in BOOLEAN, c \in Colors : Alloc(w, r, backed, c)
  \/ \E w \in Open :
       \/ Delete(w)
       \/ Restack(w)
       \/ \E o \in Origins : Origin(w, o.log, o.scr)
       \/ SetRefresh(w)
       \/ \E c \in Colors : Line(w, c)
       \/ \E q \in Spots :
            \/ \E c \in Colors : Draw(w, q, c) \/ Load(w, q, c)
            \/ \E k \in {-1, 1} : Scroll(w, q, k)
            \/ \E v \in Open : CopyFrom(w, q, v)

Spec == Init /\ [][Next]_vars

-----------------------------------------------------------------------------
(***************************************************************************)
(* Properties                                                              *)
(***************************************************************************)
Visible(i, p) ==
  /\ p \in Points(ScreenRect)
  /\ \A k \in DOMAIN InFrontOf(s, i) : p \notin Points(s.lay[InFrontOf(s, i)[k]].screenr)

(* Every pixel of a window that has a save area is where the window's      *)
(* structures say: on the screen where nothing covers it, in the save area *)
(* where something does or where the screen ends; and it is what the owner *)
(* drew, so that memunload returns it.                                     *)
PixelsKept ==
  \A w \in Open : \A q \in DOMAIN want[w] :
    LET l == s.lay[w]  p == addpt(q, MinPt(l.screenr)) IN
    IF Visible(w, p) THEN s.img[p] = want[w][q]
    ELSE l.save # NoSave => l.save[subpt(p, l.delta)] = want[w][q]

(* memunload reads a window that has a save area as its owner drew it,     *)
(* part from the screen and part from the save area (unload.c), after any  *)
(* sequence of moves, hides and draws that left the window covered.        *)
Unloadable ==
  \A w \in Open :
    LET l == s.lay[w] IN
    l.save # NoSave =>
      memunload(s, w, l.screenr).data = Shift(want[w], subpt(MinPt(l.screenr), l.delta))

D == INSTANCE Desktop WITH
       ScreenPoints <- Points(ScreenRect),
       order <- s.order,
       place <- [w \in Open |-> Points(s.lay[w].screenr)],
       picture <- [w \in Open |-> Shift(want[w], MinPt(s.lay[w].screenr))],
       screen <- s.img

(* The layers implement the desktop: after each operation of memlayer the  *)
(* screen shows, at every point, the picture of the front window there or  *)
(* the background, although windows are moved by copying what is visible   *)
(* and saving what is not (ldelete.c, lorigin.c, ltofront.c, ltorear.c).   *)
ImplementsDesktop == D!Spec
=============================================================================
