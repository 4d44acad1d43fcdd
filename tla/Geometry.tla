------------------------------ MODULE Geometry ------------------------------
(***************************************************************************)
(* Points and rectangles (src/kernel/Libgeometry).  A point is <<x, y>>; a *)
(* rectangle is [x0, y0, x1, y1], without its last column and line.        *)
(***************************************************************************)
EXTENDS Integers, Sequences

Rect(a, b, c, d) == [x0 |-> a, y0 |-> b, x1 |-> c, y1 |-> d]
Dx(r) == r.x1 - r.x0
Dy(r) == r.y1 - r.y0
MinPt(r) == <<r.x0, r.y0>>
Points(r) == (r.x0..(r.x1 - 1)) \X (r.y0..(r.y1 - 1))

addpt(p, q) == <<p[1] + q[1], p[2] + q[2]>>
subpt(p, q) == <<p[1] - q[1], p[2] - q[2]>>
rectaddpt(r, p) == Rect(r.x0 + p[1], r.y0 + p[2], r.x1 + p[1], r.y1 + p[2])
rectsubpt(r, p) == Rect(r.x0 - p[1], r.y0 - p[2], r.x1 - p[1], r.y1 - p[2])
rectXrect(r, q) == r.x0 < q.x1 /\ q.x0 < r.x1 /\ r.y0 < q.y1 /\ q.y0 < r.y1
rectinrect(r, q) == q.x0 <= r.x0 /\ r.x1 <= q.x1 /\ q.y0 <= r.y0 /\ r.y1 <= q.y1
ptinrect(p, r) == p[1] >= r.x0 /\ p[1] < r.x1 /\ p[2] >= r.y0 /\ p[2] < r.y1

Larger(a, b) == IF a > b THEN a ELSE b
Smaller(a, b) == IF a < b THEN a ELSE b

(* what rectclip makes of r when r and q overlap *)
rectclip(r, q) ==
  Rect(Larger(r.x0, q.x0), Larger(r.y0, q.y0), Smaller(r.x1, q.x1), Smaller(r.y1, q.y1))

drawreplxy(min, max, x) == min + ((x - min) % (max - min))
drawrepl(r, p) == <<drawreplxy(r.x0, r.x1, p[1]), drawreplxy(r.y0, r.y1, p[2])>>

Ceil(n, d) == -((-n) \div d)

(* units of `bits' bits in a line of pixels of d bits; x may be negative *)
unitsperline(r, d, bits) == Ceil(r.x1 * d, bits) - (r.x0 * d) \div bits
=============================================================================
