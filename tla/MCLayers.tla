------------------------------ MODULE MCLayers ------------------------------
(* A small screen for model checking Layers. *)
EXTENDS Layers

MCScreen == Rect(0, 0, 3, 2)
MCPlaces == {Rect(0, 0, 2, 1), Rect(1, 0, 3, 2), Rect(1, 1, 4, 2)}
(* moves on the screen, with and without a change of coordinates, and one  *)
(* partly off the screen *)
MCOrigins == {[log |-> <<0, 0>>, scr |-> <<1, 0>>], [log |-> <<5, 5>>, scr |-> <<0, 0>>],
              [log |-> <<0, 0>>, scr |-> <<2, 1>>]}
MCSpots == {Rect(0, 0, 1, 1), Rect(0, 0, 2, 2)}
=============================================================================
