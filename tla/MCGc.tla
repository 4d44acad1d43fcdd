-------------------------------- MODULE MCGc --------------------------------
(* Small heaps for model checking Gc. *)
EXTENDS Gc

(* one chunk, and a second one below or above it *)
MCFirst == [start |-> 11, size |-> 9]
MCBelow == [start |-> 2, size |-> 5]
MCAbove == [start |-> 30, size |-> 5]
MCEither == {<<MCBelow>>, <<MCAbove>>}
MCOnlyBelow == {<<MCBelow>>}
=============================================================================
