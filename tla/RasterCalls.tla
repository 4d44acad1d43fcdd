---------------------------- MODULE RasterCalls -----------------------------
(***************************************************************************)
(* Small polygons, ellipses, arcs and lines.                               *)
(***************************************************************************)
EXTENDS Calls

RA == INSTANCE Raster

Board == RA!Rect(-12, -12, 13, 13)
Corner == (0..3) \X (0..3)
Triangles == {<<a, b, c>> : a \in {<<1, 0>>, <<4, 1>>}, b, c \in Corner}
Stars == {<< <<0, 0>>, <<4, 3>>, <<0, 3>>, <<4, 0>>, <<2, k>> >> : k \in 0..5}

(* filled by winding number or by parity, whole and clipped *)
Polygon ==
  \E v \in Triangles \cup Stars, w \in {1, -1}, clip \in {RA!Rect(-2, -2, 7, 7), RA!Rect(1, 1, 4, 3)} :
    /\ call' = [f |-> "polygon", v |-> v, w |-> w, clip |-> clip]
    /\ result' = RA!memfillpoly(clip, v, w)

(* triangles on the two sides of an edge, p and q on its left and right *)
Sides == {<<a, b, p, q>> : a \in {<<2, 0>>}, b \in {<<1, 5>>, <<3, 4>>, <<2, 3>>}, p \in {<<0, 0>>, <<0, 3>>, <<-1, 2>>},
                           q \in {<<5, 1>>, <<4, 5>>, <<6, 3>>}}
Tile ==
  \E t \in Sides :
    /\ call' = [f |-> "tile", t |-> t]
    /\ result' = << RA!memfillpoly(Board, <<t[1], t[2], t[3]>>, -1), RA!memfillpoly(Board, <<t[1], t[2], t[4]>>, -1),
                    RA!memfillpoly(Board, <<t[1], t[4], t[2], t[3]>>, -1) >>

Ellipse ==
  \E a, b \in -1..6, t \in -1..2 :
    /\ call' = [f |-> "ellipse", a |-> RA!Abs(a), b |-> RA!Abs(b), t |-> t]
    /\ result' = RA!memellipse(Board, <<0, 0>>, a, b, t)
Arc ==
  \E alpha \in {-400, -91, 0, 30, 89, 90, 200, 315}, phi \in {-360, -350, -181, -90, -10, 0, 45, 89, 180, 270, 359, 361}, t \in {-1, 1} :
    \E e \in {RA!memellipse(Board, <<0, 0>>, 6, 5, t)} :
      /\ call' = [f |-> "arc", e |-> e, alpha |-> alpha, phi |-> phi]
      /\ result' = RA!memarc(Board, <<0, 0>>, 6, 5, t, alpha, phi)

Ends == {RA!Endsquare, RA!Enddisc, RA!Arrow(2, 3, 1)}
Line ==
  \E q \in {<<0, 0>>, <<0, 3>>, <<-3, 0>>, <<3, 1>>, <<-3, 2>>, <<1, 3>>, <<-2, 3>>, <<3, 3>>, <<-2, -2>>},
     e0, e1 \in Ends, radius \in -1..1 :
    /\ call' = [f |-> "line", q |-> q, e0 |-> e0, e1 |-> e1, radius |-> radius]
    /\ result' = RA!memimageline(Board, <<0, 0>>, q, e0, e1, radius)
PolyLine ==
  \E v \in {<<a, b, c>> : a \in {<<0, 0>>}, b \in {<<3, 1>>, <<-2, 2>>}, c \in {<<0, 3>>, <<4, -1>>}}, e \in Ends :
    /\ call' = [f |-> "poly", v |-> v, e |-> e]
    /\ result' = RA!mempoly(Board, v, RA!Endsquare, e, 1)

(* Figures cover the pixels they should (fillpoly.c:157, ellipse.c:80,      *)
(* arc.c:34, line.c:84): a polygon those with their centre inside, but for  *)
(* centres within half a pixel of an edge, never to infinity, and polygons  *)
(* that share an edge neither overlap nor leave a gap; an ellipse those     *)
(* inside, and its outline has no hole; an arc those between its rays, from *)
(* at most eight corners; a line the same ones from either end and in       *)
(* pieces, within its bounding box, and joined lines too from either end.   *)
RasterExact ==
  /\ call.f = "polygon" => RA!Infinity \notin result /\ RA!PolygonExact(result, call.clip, call.v, call.w)
  /\ call.f = "tile" => result[1] \cap result[2] = {} /\ result[1] \cup result[2] = result[3]
  /\ call.f = "ellipse" => RA!EllipseExact(result, call.a, call.b, call.t)
  /\ call.f = "arc" =>
       /\ RA!ArcExact(result, call.e, call.alpha, call.phi)
       /\ \A d \in 0..89 : RA!Abs(call.phi) < 360 => Len(RA!Wedge(call.alpha + d, call.alpha + d + RA!Abs(call.phi), 7)) <= 8
  /\ call.f = "line" => RA!LineExact(result, Board, <<0, 0>>, call.q, call.e0, call.e1, call.radius)
  /\ call.f = "poly" =>
       result = RA!mempoly(Board, [i \in 1..Len(call.v) |-> call.v[Len(call.v) + 1 - i]], call.e, RA!Endsquare, 1)
=============================================================================
