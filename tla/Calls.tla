------------------------------- MODULE Calls --------------------------------
(***************************************************************************)
(* A call of a pure function: the function with its arguments, and what it *)
(* computed.  The modules that extend this one give the calls to make.     *)
(***************************************************************************)
EXTENDS Integers, Sequences, FiniteSets, TLC

VARIABLES
  call,     \* the function called and its arguments
  result    \* what it computed

Families == {"arithmetic", "values", "text", "raster", "draw", "scroll"}
Idle(k) == [f |-> "idle", of |-> k]
Init == call \in {Idle(k) : k \in Families} /\ result = <<>>
=============================================================================
