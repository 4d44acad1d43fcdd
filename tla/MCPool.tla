------------------------------- MODULE MCPool -------------------------------
(* A small pool for model checking Pool. *)
EXTENDS Pool

MCAlignments == {[align |-> 8, offset |-> 0, span |-> 0], [align |-> 2, offset |-> 1, span |-> 8]}
=============================================================================
