---------------------------- MODULE MCAlgorithms ----------------------------
(***************************************************************************)
(* The pure algorithms of the kernel's libraries, called with every        *)
(* argument of small sets.  A step makes one call from the idle state; the *)
(* invariants compare what the call computed with its definition.          *)
(***************************************************************************)
EXTENDS ArithmeticCalls, DrawCalls, RasterCalls, ValueCalls, TextCalls

Next ==
  \/ call = Idle("arithmetic") /\ (Arithmetic \/ FromDouble \/ Tagged)
  \/ call = Idle("draw") /\ Draw
  \/ call = Idle("scroll") /\ (Scroll \/ Transfer \/ Clear)
  \/ call = Idle("raster") /\ (Polygon \/ Tile \/ Ellipse \/ Arc \/ Line \/ PolyLine)
  \/ call = Idle("values") /\ (Marshal \/ MarshalTree \/ MarshalSingle \/ CompareValues)
  \/ call = Idle("text") /\ (Decode \/ Encode \/ Parse \/ Sort \/ PrintInteger \/ Format \/ Quote)
Spec == Init /\ [][Next]_<<call, result>>
=============================================================================
