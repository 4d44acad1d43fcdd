---------------------------- MODULE Rendezvous ----------------------------
(***************************************************************************)
(* What synchronous channels promise, whatever the locks, queues and       *)
(* wake-ups behind them: a call returns because of one of its events, and  *)
(* a communication completes one send and one receive on the same channel, *)
(* of two different threads, at the same instant.  Event implements it.    *)
(***************************************************************************)
EXTENDS Integers, Sequences

CONSTANTS Thread, NoData

VARIABLES
  program,   \* the calls of each thread, in order
  results    \* for each thread, the event chosen in each call, and its data

(* 0 stands for a call of poll that found nothing. *)
Outcome(e, d) == [ev |-> e, data |-> d]

Busy(t) == Len(results[t]) < Len(program[t])
Current(t) == program[t][Len(results[t]) + 1]

Init == results = [t \in Thread |-> <<>>]

Always(t) ==
  /\ Busy(t)
  /\ \E e \in DOMAIN Current(t).evs :
       /\ Current(t).evs[e].op = "always"
       /\ results' = [results EXCEPT ![t] = Append(@, Outcome(e, NoData))]

Nothing(t) ==
  /\ Busy(t) /\ ~Current(t).blocking
  /\ results' = [results EXCEPT ![t] = Append(@, Outcome(0, NoData))]

Meeting(s, r) ==
  /\ s # r /\ Busy(s) /\ Busy(r)
  /\ Current(s).blocking \/ Current(r).blocking
  /\ \E i \in DOMAIN Current(s).evs, j \in DOMAIN Current(r).evs :
       LET send == Current(s).evs[i]  receive == Current(r).evs[j]
       IN /\ send.op = "send" /\ receive.op = "receive" /\ send.ch = receive.ch
          /\ results' = [results EXCEPT ![s] = Append(@, Outcome(i, NoData)),
                                        ![r] = Append(@, Outcome(j, send.val))]

Next ==
  /\ \/ \E t \in Thread : Always(t) \/ Nothing(t)
     \/ \E s, r \in Thread : Meeting(s, r)
  /\ UNCHANGED program

Spec == Init /\ [][Next]_<<program, results>>
=============================================================================
