------------------------------- MODULE Raster -------------------------------
(***************************************************************************)
(* Polygons, ellipses, arcs and lines (src/kernel/Libmemdraw: fillpoly.c,  *)
(* ellipse.c, arc.c, line.c, poly.c) and the integer sines they use        *)
(* (src/kernel/Libgeometry).  A figure is the set of the pixels that       *)
(* memdraw is asked to paint, opaquely; a pixel takes the colour of the    *)
(* source at the same offset.  `clip' is the clipping rectangle of the     *)
(* destination.  Coordinates with a fraction have 2^f steps in a pixel.    *)
(***************************************************************************)
EXTENDS Geometry, FiniteSets

ICOSSCALE == 1024

Half(f) == 2^f \div 2
Pixel(z, f) == (z + Half(f)) \div 2^f            \* (z + onehalf) >> fixshift
Trunc(n, d) == IF n < 0 THEN -((-n) \div d) ELSE n \div d      \* n/d in C, d > 0

(* Stable sort by key, first index 1. *)
Ranked(q, key) ==
  [n \in DOMAIN q |-> q[CHOOSE i \in DOMAIN q :
     n = Cardinality({j \in DOMAIN q : key[j] < key[i] \/ (key[j] = key[i] /\ j <= i)})]]

(***************************************************************************)
(* fillpoly.c.  xscan follows the edges line by line, yscan column by      *)
(* column; s is the coordinate along the scan, z the one across.           *)
(***************************************************************************)
(* smuldivmod: the quotient is truncated, the remainder is not *)
smuldivmod(x, y, z) == [q |-> Trunc(x * y, z), mod |-> (x * y) % z]

Edge(s0, z0, s1, z1, d, f) ==
  LET num == z1 - z0  den == s1 - s0  rem == (num % den) * 2^f
  IN [s0 |-> s0, z0 |-> z0, s1 |-> s1, num |-> num, den |-> den, d |-> d,
      dz |-> (num \div den) * 2^f + rem \div den, dzrem |-> rem % den, z |-> z0, zerr |-> 0]
Oriented(s0, z0, s1, z1, f) ==
  LET down == s0 < s1
  IN Edge(IF down THEN s0 ELSE s1, IF down THEN z0 ELSE z1, IF down THEN s1 ELSE s0, IF down THEN z1 ELSE z0,
          IF down THEN 1 ELSE -1, f)

(* the edges of a closed polygon that are not parallel to the scan, in the *)
(* order in which the scan meets them; k is 2 to scan lines, 1 columns     *)
Kept(vert, k) ==
  SelectSeq([i \in DOMAIN vert |-> <<vert[IF i = 1 THEN Len(vert) ELSE i - 1], vert[i]>>],
            LAMBDA e : e[1][k] # e[2][k])
Directed(kept, k, f) ==
  [i \in DOMAIN kept |-> Oriented(kept[i][1][k], kept[i][1][3 - k], kept[i][2][k], kept[i][2][3 - k], f)]
Ssorted(es) == Ranked(es, [i \in DOMAIN es |-> es[i].s0])
Edges(vert, k, f) == Ssorted(Directed(Kept(vert, k), k, f))

(* Mutation of Advance: the accumulated remainder is not carried. *)
AdvanceNoCarry(e) == [e EXCEPT !.z = @ + e.dz]

Advance(e) ==
  LET zerr == e.zerr + e.dzrem
  IN IF zerr >= e.den THEN [e EXCEPT !.z = @ + e.dz + 1, !.zerr = zerr - e.den]
                      ELSE [e EXCEPT !.z = @ + e.dz, !.zerr = zerr]
Enter(e, s) ==
  LET m == smuldivmod(s - e.s0, e.num, e.den) IN [e EXCEPT !.z = e.z0 + m.q, !.zerr = m.mod]

(* One line: edges that end before s leave, the others advance, and those  *)
(* that begin before s enter.                                              *)
NextLine(a, s) ==
  LET stay == SelectSeq(a.in, LAMBDA e : e.s1 >= s)
      come == SelectSeq(a.wait, LAMBDA e : e.s0 < s /\ e.s1 >= s)
  IN [in |-> [i \in DOMAIN stay |-> Advance(stay[i])] \o [i \in DOMAIN come |-> Enter(come[i], s)],
      wait |-> SelectSeq(a.wait, LAMBDA e : e.s0 >= s)]

Zsorted(a) == Ranked(a, [i \in DOMAIN a |-> a[i].z])

(* the edges i..j of a line sum up to a winding number outside: (cnt & w)=0 *)
Turns(a, i, j) ==
  LET T[k \in (i - 1)..j] == IF k = i - 1 THEN 0 ELSE T[k - 1] + a[k].d IN T[j]
Outside(cnt, w) == IF w = 1 THEN cnt % 2 = 0 ELSE cnt = 0
Closings(a, i, w) == {j \in (i + 1)..Len(a) : Outside(Turns(a, i, j), w)}

(* Pairs <<i, j>> of edges between which a line is inside; j is 0 when the *)
(* line would be filled to infinity.                                       *)
Insides(a, w) ==
  LET First(i) == IF Closings(a, i, w) = {} THEN 0
                  ELSE CHOOSE j \in Closings(a, i, w) : \A m \in Closings(a, i, w) : j <= m
      From[i \in 1..(Len(a) + 1)] ==
        IF i = Len(a) + 1 THEN {}
        ELSE LET j == First(i) IN {<<i, j>>} \cup (IF j = 0 THEN {} ELSE From[j + 1])
  IN From[1]

(* The pixels of one interval, lo <= z < hi on the screen.  With detail an *)
(* interval too narrow for a pixel gets the one nearest to its middle.     *)
Span(a, b, f, lo, hi, detail) ==
  LET ix == Larger(Pixel(a.z, f), lo)  ix2 == Smaller(Pixel(b.z, f), hi)
      x == IF a.zerr * b.den + b.zerr * a.den > b.den * a.den THEN a.z + 1 ELSE a.z
  IN IF Pixel(a.z, f) >= hi \/ Pixel(b.z, f) <= lo THEN {}
     ELSE IF ix = ix2 THEN IF detail THEN {(x + b.z) \div 2^(f + 1)} ELSE {}
     ELSE ix..(ix2 - 1)
(* yscan paints only the intervals too narrow for a pixel *)
Dot(a, b, f, lo, hi) ==
  IF Larger(Pixel(a.z, f), lo) = Smaller(Pixel(b.z, f), hi) THEN Span(a, b, f, lo, hi, TRUE) ELSE {}

(* The intervals inside, between two edges; the second may be missing. *)
Infinity == <<>>
Lined(a, w) == {<<a[p[1]], IF p[2] = 0 THEN Infinity ELSE a[p[2]]>> : p \in Insides(a, w)}

(* The lines from the first edge, or the top of clip, to its bottom, with   *)
(* the edges that cross each.  The lines without an edge are passed one at  *)
(* a time, and paint nothing.                                               *)
Scan(es, f, lo, hi) ==
  LET first == Pixel(Larger(es[1].s0, lo * 2^f), f)
      At[i \in (first - 1)..(hi - 1)] ==
        IF i = first - 1 THEN [in |-> <<>>, wait |-> es]
        ELSE NextLine([At[i - 1] EXCEPT !.in = Zsorted(@)], i * 2^f + Half(f))
  IN IF es = <<>> THEN {} ELSE {<<i, Zsorted(At[i].in)>> : i \in first..(hi - 1)}

(* all the intervals, <<line, edge, edge>> *)
Intervals(lines, w) == UNION {{<<l[1]>> \o p : p \in Lined(l[2], w)} : l \in lines}

xscan(clip, vert, w, detail, f) ==
  UNION {IF p[3] = Infinity THEN {Infinity}
         ELSE {<<x, p[1]>> : x \in Span(p[2], p[3], f, clip.x0, clip.x1, detail)} :
           p \in Intervals(Scan(Edges(vert, 2, f), f, clip.y0, clip.y1), w)}
yscan(clip, vert, w, f) ==
  UNION {IF p[3] = Infinity THEN {Infinity}
         ELSE {<<p[1], y>> : y \in Dot(p[2], p[3], f, clip.y0, clip.y1)} :
           p \in Intervals(Scan(Edges(vert, 1, f), f, clip.x0, clip.x1), w)}

(* _memfillpolysc; memdraw clips what is painted *)
Clipped(pixels, clip) == {p \in pixels : p = Infinity \/ ptinrect(p, clip)}
memfillpolysc(clip, vert, w, detail, f) ==
  Clipped(xscan(clip, vert, w, detail, f) \cup (IF detail THEN yscan(clip, vert, w, f) ELSE {}), clip)
(* memfillpoly: with fixshift 0 the coordinates are doubled, and f is 1 *)
memfillpoly(clip, vert, w) ==
  memfillpolysc(clip, [i \in DOMAIN vert |-> <<2 * vert[i][1], 2 * vert[i][2]>>], w, FALSE, 1)

(***************************************************************************)
(* ellipse.c.                                                              *)
(***************************************************************************)
newstate(a, b) ==
  [x |-> 0, a |-> a, a2 |-> a * a, b2 |-> b * b, b2x |-> 0, a2y |-> a * a * b,
   c1 |-> -((a * a) \div 4 + (a % 2) + b * b), c2 |-> -((b * b) \div 4 + (b % 2)),
   ee |-> -(a * a * b), dxe |-> 0, dye |-> -2 * a * a * b]

Rightward(s) ==
  [s EXCEPT !.dxe = @ + 2 * s.b2, !.ee = @ + s.dxe + 2 * s.b2, !.b2x = @ + s.b2, !.x = @ + 1]
Downward(s) == [s EXCEPT !.dye = @ + 2 * s.a2, !.ee = @ + s.dye + 2 * s.a2, !.a2y = @ - s.a2]

(* the x of the rightmost pixel of the next scan line, and the new state *)
RECURSIVE step(_)
step(s) ==
  IF s.x >= s.a THEN [x |-> s.x, s |-> s]
  ELSE IF s.ee + s.b2x <= s.c1 \/ s.ee + s.a2y <= s.c2 THEN step(Rightward(s))
  ELSE LET d == Downward(s)
       IN [x |-> s.x, s |-> IF d.ee - d.a2y <= d.c2 THEN Rightward(d) ELSE d]

(* the rightmost pixels of the lines b, b-1, ..., 0 *)
Outline(a, b) ==
  LET S[y \in 0..b] == IF y = b THEN step(newstate(a, b)) ELSE step(S[y + 1].s)
  IN [y \in 0..b |-> S[y].x]

(* erect: a closed rectangle around the centre *)
erect(x0, y0, x1, y1) == (x0..x1) \X (y0..y1)
Mirrored(y, x0, x1) == erect(x0, y, x1, y) \cup erect(x0, -y, x1, -y)

(* the line y of a band between two ellipses *)
Band(y, out, inb, in, t) ==
  LET prev == IF y + 1 \in DOMAIN out /\ y < inb THEN out[y + 1] + 1 ELSE 0
      inx == IF t > 0 THEN IF y = inb THEN 0 ELSE in[y] ELSE Smaller(prev, out[y])
  IN IF y > inb THEN Mirrored(y, -out[y], out[y])
     ELSE Mirrored(y, inx, out[y]) \cup Mirrored(y, -out[y], -inx)
ThinEllipse(a, b, t) ==
  LET w == Larger(t, 0)  inb == IF t < 0 THEN -1 ELSE b - t
      Rows(out, in) == UNION {Band(y, out, inb, in, t) : y \in 0..(b + w)}
  IN Rows(Outline(a + w, b + w), IF t > 0 /\ inb >= 0 THEN Outline(a - t, inb) ELSE <<>>)

(* a disc, and eline: two discs with the rectangle between them *)
Disc(t) == ThinEllipse(t, t, -1)
epoint(x, y, disc) == {addpt(p, <<x, y>>) : p \in disc}
eline(x0, y0, x1, y1, t, disc) ==
  (IF x1 > x0 + 1 THEN erect(x0 + 1, y0 - t, x1 - 1, y1 + t)
   ELSE IF y1 > y0 + 1 THEN erect(x0 - t, y0 + 1, x1 + t, y1 - 1) ELSE {})
    \cup UNION {epoint(p[1], p[2], disc) : p \in {<<x0, y0>>, <<x1, y1>>}}

(* bellipse: runs of lines with the same x, brushed on the four sides.  The *)
(* run of x from line oy down ends above the first line with another x.     *)
Below(out, x, oy) ==
  LET ends == {y \in 0..(oy - 1) : out[y] # x} IN CHOOSE y \in {-1} \cup ends : \A z \in ends : z <= y
FourSides(ox, x, oy, y, t, disc) ==
  UNION {eline(h[1], v[1], h[2], v[2], t, disc) : h \in {<<-x, -ox>>, <<ox, x>>}, v \in {<<-oy, -y>>, <<y, oy>>}}
RECURSIVE Brushed(_, _, _, _, _, _, _)
Brushed(out, ox, x, oy, below, t, disc) ==
  FourSides(ox, x, oy, below + 1, t, disc)
    \cup (IF below > 0 THEN Brushed(out, x + 1, out[below], below, Below(out, out[below], below), t, disc) ELSE {})
bellipse(out, b, t) == Brushed(out, 0, out[b], b, Below(out, out[b], b), t, Disc(t))

Abs(n) == IF n < 0 THEN -n ELSE n
VeryThick(a, b, t) == (b < a /\ 2 * t * (a - b) > b * b) \/ (a < b /\ 2 * t * (b - a) > a * a)
EllipseShape(a, b, t) == IF VeryThick(a, b, t) THEN bellipse(Outline(a, b), b, t) ELSE ThinEllipse(a, b, t)
memellipse(clip, c, a, b, t) ==
  Clipped({addpt(p, c) : p \in EllipseShape(Abs(a), Abs(b), t)}, clip)

(***************************************************************************)
(* icossin.c, icossin2.c.                                                  *)
(***************************************************************************)
sinus ==
  <<0, 18, 36, 54, 71, 89, 107, 125, 143, 160, 178, 195, 213, 230, 248, 265, 282, 299, 316, 333, 350, 367,
    384, 400, 416, 433, 449, 465, 481, 496, 512, 527, 543, 558, 573, 587, 602, 616, 630, 644, 658, 672,
    685, 698, 711, 724, 737, 749, 761, 773, 784, 796, 807, 818, 828, 839, 849, 859, 868, 878, 887, 896,
    904, 912, 920, 928, 935, 943, 949, 956, 962, 968, 974, 979, 984, 989, 994, 998, 1002, 1005, 1008, 1011,
    1014, 1016, 1018, 1020, 1022, 1023, 1023, 1024, 1024>>
Sine(deg) == sinus[deg + 1]
icossin(deg) ==
  LET d == deg % 360  e == d % 180  sign == IF d >= 180 THEN -1 ELSE 1
  IN IF e < 90 THEN <<sign * Sine(90 - e), sign * Sine(e)>>
               ELSE <<-sign * Sine(90 - (180 - e)), sign * Sine(180 - e)>>

(* sine and cosine of the arctangent of n/100 *)
sinustan ==
  <<0, 10, 20, 31, 41, 51, 61, 72, 82, 92, 102, 112, 122, 132, 142, 152, 162, 172, 181, 191, 201, 210, 220,
    230, 239, 248, 258, 267, 276, 285, 294, 303, 312, 321, 330, 338, 347, 355, 364, 372, 380, 388, 397,
    405, 412, 420, 428, 436, 443, 451, 458, 465, 472, 480, 487, 493, 500, 507, 514, 520, 527, 533, 540,
    546, 552, 558, 564, 570, 576, 582, 587, 593, 598, 604, 609, 614, 620, 625, 630, 635, 640, 645, 649,
    654, 659, 663, 668, 672, 676, 681, 685, 689, 693, 697, 701, 705, 709, 713, 717, 720, 724, 728>>
cosinustan ==
  <<1024, 1024, 1024, 1024, 1023, 1023, 1022, 1022, 1021, 1020, 1019, 1018, 1017, 1015, 1014, 1013, 1011,
    1010, 1008, 1006, 1004, 1002, 1000, 998, 996, 993, 991, 989, 986, 983, 981, 978, 975, 972, 969, 967,
    963, 960, 957, 954, 951, 947, 944, 941, 937, 934, 930, 927, 923, 920, 916, 912, 909, 905, 901, 897,
    893, 890, 886, 882, 878, 874, 870, 866, 862, 859, 855, 851, 847, 843, 839, 835, 831, 827, 823, 819,
    815, 811, 807, 804, 800, 796, 792, 788, 784, 780, 776, 773, 769, 765, 761, 757, 754, 750, 746, 742,
    739, 735, 731, 728, 724, 720>>
Interpolated(table, tan) ==
  LET k == tan \div 10 IN table[k + 1] + Trunc((table[k + 2] - table[k + 1]) * (tan % 10), 10)
icossin2(x, y) ==
  LET tan == IF Abs(y) > Abs(x) THEN (1000 * Abs(x)) \div Abs(y) ELSE (1000 * Abs(y)) \div Abs(x)
      small == Interpolated(sinustan, tan)  large == Interpolated(cosinustan, tan)
      Signed(n, v) == IF n < 0 THEN -v ELSE v
  IN IF x = 0 THEN <<0, Signed(y, ICOSSCALE)>>
     ELSE IF Abs(y) > Abs(x) THEN <<Signed(x, small), Signed(y, large)>>
     ELSE <<Signed(x, large), Signed(y, small)>>

(***************************************************************************)
(* arc.c: the ellipse seen through a wedge.                                *)
(***************************************************************************)
mulpt(p, n) == <<p[1] * n, p[2] * n>>
corners == << <<1, 1>>, <<-1, 1>>, <<-1, -1>>, <<1, -1>> >>

(* the corners of the square from the one of alpha to the one of beta *)
RECURSIVE Corners(_, _, _)
Corners(c1, c2, phi) ==
  <<corners[c1 + 1]>> \o (IF c1 = c2 /\ phi < 180 THEN <<>> ELSE Corners((c1 + 1) % 4, c2, phi - 90))

(* the wedge from alpha to beta, angles clockwise, in a square of half side m *)
Wedge(alpha, beta, m) ==
  LET m1 == (m + ICOSSCALE - 1) \div 1024
      cs == Corners((alpha \div 90) % 4, (beta \div 90) % 4, beta - alpha)
  IN << <<0, 0>>, mulpt(icossin(alpha), m1) >> \o [i \in DOMAIN cs |-> mulpt(cs[i], m1 * 1024)]
       \o << mulpt(icossin(beta), m1) >>

memarc(clip, c, a, b, t, alpha, phi) ==
  LET w == Larger(t, 0)
      rect == Rect(-Abs(a) - w, -Abs(b) - w, Abs(a) + w + 1, Abs(b) + w + 1)
      from == Smaller(-alpha, -alpha - phi)
      figure == memellipse(rect, <<0, 0>>, a, b, t)
      mask == figure \cap memfillpoly(rect, Wedge(from, from + Abs(phi), Larger(rect.x1, rect.y1)), -1)
  IN IF Abs(phi) >= 360 THEN memellipse(clip, c, a, b, t)
     ELSE Clipped({addpt(p, c) : p \in mask}, clip)

(***************************************************************************)
(* line.c, poly.c.  An end is [k, x1, x2, x3], the x's for an arrow only.  *)
(***************************************************************************)
Endsquare == [k |-> "square", x1 |-> 0, x2 |-> 0, x3 |-> 0]
Enddisc == [k |-> "disc", x1 |-> 0, x2 |-> 0, x3 |-> 0]
Arrow(x1, x2, x3) == [k |-> "arrow", x1 |-> x1, x2 |-> x2, x3 |-> x3]
Endarrow == Arrow(8, 10, 3)

discend(p, radius) == {addpt(q, p) : q \in Disc(radius)}

(* the head: shaft, barb, tip, barb, shaft *)
arrowend(tip, e, sin, cos, radius) ==
  LET H(n, v) == Trunc(n * v, 2)  shaft == 2 * radius + 1  barb == 2 * radius + 2 * e.x3 + 1
  IN << <<tip[1] + H(shaft, sin) - e.x1 * cos, tip[2] - H(shaft, cos) - e.x1 * sin>>,
        <<tip[1] + H(barb, sin) - e.x2 * cos, tip[2] - H(barb, cos) - e.x2 * sin>>,
        tip,
        <<tip[1] + H(-barb, sin) - e.x2 * cos, tip[2] - H(-barb, cos) - e.x2 * sin>>,
        <<tip[1] + H(-shaft, sin) - e.x1 * cos, tip[2] + H(shaft, cos) - e.x1 * sin>> >>

(* the end of a line at p: what is painted there, and its two corners *)
LineEnd(clip, p, e, cos, sin, radius) ==
  LET q == <<ICOSSCALE * p[1] + ICOSSCALE \div 2 + Trunc(cos, 2), ICOSSCALE * p[2] + ICOSSCALE \div 2 + Trunc(sin, 2)>>
      dx == Trunc(sin * (2 * radius + 1), 2)  dy == Trunc(cos * (2 * radius + 1), 2)
      ArrowHead(pts) == [pixels |-> memfillpolysc(clip, pts, -1, TRUE, 10), pts |-> <<pts[1], pts[5]>>]
  IN IF e.k = "arrow" THEN ArrowHead(arrowend(q, e, sin, cos, radius))
     ELSE [pixels |-> IF e.k = "disc" THEN Clipped(discend(p, radius), clip) ELSE {},
           pts |-> << <<q[1] + dx, q[2] - dy>>, <<q[1] - dx, q[2] + dy>> >>]

Joined(clip, end0, end1) ==
  end0.pixels \cup end1.pixels \cup memfillpolysc(clip, end0.pts \o end1.pts, -1, FALSE, 10)
Slanted(clip, p, q, e0, e1, radius, cs) ==
  Joined(clip, LineEnd(clip, p, e0, -cs[1], -cs[2], radius), LineEnd(clip, q, e1, cs[1], cs[2], radius))

(* the line from p to q, with q right of p or below it *)
Shaft(clip, p, q, e0, e1, radius) ==
  LET r == IF p[1] = q[1] THEN Rect(p[1] - radius, p[2], q[1] + radius + 1, q[2])
                          ELSE Rect(p[1], p[2] - radius, q[1], q[2] + radius + 1)
  IN IF (p[1] = q[1] \/ p[2] = q[2]) /\ e0.k = "square" /\ e1.k = "square"
     THEN Clipped(Points(r), clip)
     ELSE Slanted(clip, p, q, e0, e1, radius, icossin2(q[1] - p[1], q[2] - p[2]))

memimageline(clip, p0, p1, end0, end1, radius) ==
  LET d == subpt(p1, p0)  hor == Abs(d[1]) > Abs(d[2])
      swap == (hor /\ d[1] < 0) \/ (~hor /\ d[2] < 0)
  IN IF radius < 0 THEN {}
     ELSE Shaft(clip, IF swap THEN p1 ELSE p0, IF swap THEN p0 ELSE p1,
                IF swap THEN end1 ELSE end0, IF swap THEN end0 ELSE end1, radius)

(* the test of the end's six low bits reads the low bit of x1 too *)
memlineendsize(e) == IF e.k = "arrow" /\ e.x1 % 2 = 0 THEN e.x3 ELSE 0
memlinebbox(p0, p1, end0, end1, radius) ==
  LET k == radius + Larger(memlineendsize(end0), memlineendsize(end1))
  IN Rect(Smaller(p0[1], p1[1]) - k, Smaller(p0[2], p1[2]) - k,
          Larger(p0[1], p1[1]) + k + 1, Larger(p0[2], p1[2]) + k + 1)

mempoly(clip, vert, end0, end1, radius) ==
  UNION {memimageline(clip, vert[i - 1], vert[i], IF i = 2 THEN end0 ELSE Enddisc,
                      IF i = Len(vert) THEN end1 ELSE Enddisc, radius) : i \in 2..Len(vert)}
-----------------------------------------------------------------------------
(***************************************************************************)
(* What the figures must be.  Doubled coordinates make the centre of pixel *)
(* <<x, y>> the point <<2 x + 1, 2 y + 1>>.                                *)
(***************************************************************************)
(* the edge from p to q crosses the line of a centre c; its side is the sign *)
(* of Side, and it passes within half a pixel of c when Side is small        *)
Crosses(p, q, c) == Smaller(p[2], q[2]) < c[2] /\ c[2] <= Larger(p[2], q[2])
Side(p, q, c) == (IF p[2] < q[2] THEN 1 ELSE -1) * ((c[1] - p[1]) * (q[2] - p[2]) - (q[1] - p[1]) * (c[2] - p[2]))
Near(p, q, c) == Crosses(p, q, c) /\ Abs(Side(p, q, c)) <= Abs(q[2] - p[2])
DoubledEdges(vert) ==
  LET D(p) == <<2 * p[1], 2 * p[2]>>
  IN {<<i, D(vert[IF i = 1 THEN Len(vert) ELSE i - 1]), D(vert[i])>> : i \in DOMAIN vert}
Winding(es, c) ==
  Cardinality({e \in es : Crosses(e[2], e[3], c) /\ Side(e[2], e[3], c) > 0 /\ e[2][2] < e[3][2]})
    - Cardinality({e \in es : Crosses(e[2], e[3], c) /\ Side(e[2], e[3], c) > 0 /\ e[2][2] > e[3][2]})
PolygonExact(pixels, clip, vert, w) ==
  LET es == DoubledEdges(vert)
  IN \A p \in Points(clip) : LET c == <<2 * p[1] + 1, 2 * p[2] + 1>> IN
       (p \in pixels <=> ~Outside(Winding(es, c), w)) \/ (\E e \in es : Near(e[2], e[3], c))

InEllipse(a, b, x, y) == b * b * x * x + a * a * y * y <= a * a * b * b
(* the pixels reached from the centre without crossing the figure *)
RECURSIVE Flood(_, _, _)
Flood(seen, new, walls) ==
  LET next == {addpt(p, d) : p \in new, d \in {<<1, 0>>, <<-1, 0>>, <<0, 1>>, <<0, -1>>}} \ (seen \cup walls)
  IN IF new = {} THEN seen ELSE Flood(seen \cup next, next, walls)
Frame == {p \in erect(-12, -12, 12, 12) : Abs(p[1]) = 12 \/ Abs(p[2]) = 12}
EllipseExact(pixels, a, b, t) ==
  LET w == Larger(t, 0)
      hole == IF <<0, 0>> \in pixels THEN {} ELSE Flood({<<0, 0>>}, {<<0, 0>>}, pixels \cup Frame)
  IN /\ \A p \in pixels : /\ Abs(p[1]) <= a + w /\ Abs(p[2]) <= b + w
                          /\ t < 0 => InEllipse(a, b, Larger(0, Abs(p[1]) - 1), Larger(0, Abs(p[2]) - 1))
     /\ <<0, b + w>> \in pixels /\ (<<a + w, 0>> \in pixels \/ VeryThick(a, b, t))
     /\ t < 0 => \A p \in erect(-a, -b, a, b) : InEllipse(a, b, p[1], p[2]) => p \in pixels
     /\ \A p \in hole : InEllipse(a, b, p[1], p[2])

(* an arc is the part of the ellipse between its rays; the pixels within    *)
(* two of a ray, on its line, are left open                                 *)
Cross(u, p) == u[1] * p[2] - u[2] * p[1]
ArcExact(pixels, ellipse, alpha, phi) ==
  LET from == Smaller(-alpha, -alpha - phi)
      u == icossin(from)  v == icossin(from + Abs(phi))
      Between(p) == IF Abs(phi) <= 180 THEN Cross(u, p) >= 0 /\ Cross(p, v) >= 0
                                       ELSE ~(Cross(v, p) > 0 /\ Cross(p, u) > 0)
      Clear(p) == Abs(Cross(u, p)) > 2 * ICOSSCALE /\ Abs(Cross(v, p)) > 2 * ICOSSCALE
  IN /\ pixels \subseteq ellipse
     /\ \A p \in ellipse : Clear(p) /\ Abs(phi) < 360 => (p \in pixels <=> Between(p))

(* Whoever calls a line's first end the second one, and in whichever pieces  *)
(* a layer has it drawn, the pixels are the same, and memlinebbox covers     *)
(* them.  Arrows are left out of the pieces: where an edge leans to the left *)
(* smuldivmod rounds differently on the line where a piece begins.  An arrow *)
(* of odd x1, or longer than its line, is not covered by the box.            *)
Boxed(p0, p1, e) == e.k = "arrow" => e.x1 % 2 = 0 /\ e.x2 <= Larger(Abs(p1[1] - p0[1]), Abs(p1[2] - p0[2]))
LineExact(pixels, clip, p0, p1, e0, e1, radius) ==
  /\ p0 # p1 => pixels = memimageline(clip, p1, p0, e1, e0, radius)
  /\ Boxed(p0, p1, e0) /\ Boxed(p0, p1, e1) => pixels \subseteq Points(memlinebbox(p0, p1, e0, e1, radius))
  /\ e0.k # "arrow" /\ e1.k # "arrow" =>
       \A y \in {1, 2} : \A r \in {Rect(clip.x0, clip.y0, clip.x1, y), Rect(clip.x0, y, clip.x1, clip.y1)} :
         memimageline(r, p0, p1, e0, e1, radius) = pixels \cap Points(r)
=============================================================================
