----------------------------- MODULE TopoBuild -----------------------------
(***************************************************************************)
(* What a parallel build promises, whatever its traversal and scheduling:  *)
(* nodes are made once, in an order compatible with the dependency graph,  *)
(* and nothing a node depends on changes from the moment work on the node  *)
(* starts.  MkBuild implements this specification.                         *)
(***************************************************************************)
CONSTANTS Node, Dest(_)   \* the nodes, and what each is made from

VARIABLE state

Settled(S) == \A n \in S : \A m \in Dest(n) : state[m] = "Made"

Move(S, from, to) ==
  /\ S # {}
  /\ \A n \in S : state[n] = from
  /\ state' = [n \in Node |-> IF n \in S THEN to ELSE state[n]]

(* A recipe is asked for, with all the targets it makes. *)
Begin(S) == Settled(S) /\ Move(S, "NotMade", "BeingMade")
(* It ends. *)
End(S) == Move(S, "BeingMade", "Made")
(* A source, or a node found up to date. *)
Accept(S) == Settled(S) /\ Move(S, "NotMade", "Made")

Init == state = [n \in Node |-> "NotMade"]
Moved == {n \in Node : state'[n] # state[n]}
Next == Begin(Moved) \/ End(Moved) \/ Accept(Moved)
Spec == Init /\ [][Next]_state
=============================================================================
