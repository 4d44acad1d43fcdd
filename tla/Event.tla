------------------------------- MODULE Event -------------------------------
(***************************************************************************)
(* The user-level threads of src/lib_core/threads and the synchronous      *)
(* channels built on them: Event.sync and Event.poll (event.ml) over       *)
(* Mutex (mutex.ml), Condition (condition.ml), Thread (thread.ml) and the  *)
(* scheduler of the bytecode interpreter (kernel/Byterun/scheduler.c).     *)
(*                                                                         *)
(* One thread is current.  It is replaced when it sleeps or ends, and,     *)
(* when the handler `preempt' is installed, between any two steps that are *)
(* not in a critical section.  A step is the code between two function     *)
(* applications at which a signal may be noticed and that other threads    *)
(* could observe.                                                          *)
(***************************************************************************)
EXTENDS Integers, Sequences, FiniteSets, Functions

CONSTANTS
  Thread,        \* the threads
  Ring,          \* the circular list of threads, as a sequence
  Chan,          \* the channels
  Val,           \* the values sent
  NoData,        \* None in the field `data' of a communication
  NoOffer,       \* no communication to signal
  Programs,      \* what the threads do: a sequence of calls for each
  PreemptModes   \* is the handler `preempt' installed?

(* The basic events of one call after flatten_event, and whether it blocks. *)
BasicEvent == [op : {"send", "receive", "always"}, ch : Chan, val : Val]
CallOf == [blocking : BOOLEAN, evs : Seq(BasicEvent) \ {<<>>}]

(* A communication in a queue: the thread, its call and the event in it. *)
OfferType == [th : Thread, call : Nat \ {0}, ev : Nat \ {0}]

ASSUME EventConstants ==
  /\ Ring \in Seq(Thread) \ {<<>>} /\ Range(Ring) = Thread
  /\ \A i, j \in DOMAIN Ring : Ring[i] = Ring[j] => i = j
  /\ NoData \notin Val
  /\ Programs \subseteq [Thread -> Seq(CallOf)]
  /\ PreemptModes \subseteq BOOLEAN
  /\ NoOffer \notin OfferType

VARIABLES
  program, preemptive,   \* fixed when the program starts
  curr,       \* curr_thread
  status,     \* the field status of each thread
  critical,   \* Thread.critical_section
  error,      \* the exception that ended the program, or "none"
  pc,         \* where each thread stands in basic_sync or basic_poll
  calls,      \* what each call of basic_sync or basic_poll has allocated
  pos,        \* the event that poll_events looks at
  partner,    \* the communication whose condition is about to be signalled
  towake,     \* the threads that Mutex.unlock has still to wake up
  locked, waiting,  \* masterlock
  conds,      \* <<t, k>> : thread t waits on the condition of its call k
  writes, reads     \* writes_pending and reads_pending of each channel

schedVars == <<curr, status, critical, error>>
lockVars  == <<locked, waiting, towake>>
chanVars  == <<writes, reads>>
vars == <<program, preemptive, schedVars, pc, calls, pos, partner, lockVars, conds, chanVars>>

(* scramble_array: any permutation of the events *)
Scramblings(n) == {p \in [1..n -> 1..n] : IsInjective(p)}

(* The call a thread is in, and its k-th call's e-th event after scrambling *)
Now(t) == Len(calls[t])
EventOf(t, k, e) == program[t][k].evs[calls[t][k].order[e]]
NumEvents(t) == Len(program[t][Now(t)].evs)

Init ==
  /\ program \in Programs /\ preemptive \in PreemptModes
  /\ curr = Ring[1] /\ status = [t \in Thread |-> "RUNNABLE"]
  /\ critical = FALSE /\ error = "none"
  /\ pc = [t \in Thread |-> "idle"]
  /\ calls = [t \in Thread |-> <<>>] /\ pos = [t \in Thread |-> 1]
  /\ partner = [t \in Thread |-> NoOffer]
  /\ towake = [t \in Thread |-> <<>>]
  /\ locked = FALSE /\ waiting = <<>> /\ conds = {}
  /\ writes = [c \in Chan |-> <<>>] /\ reads = [c \in Chan |-> <<>>]

Running(t, at) == error = "none" /\ curr = t /\ pc[t] = at
Goto(t, at) == pc' = [pc EXCEPT ![t] = at]

(***************************************************************************)
(* scheduler.c: schedule_thread takes the first RUNNABLE thread after the  *)
(* current one in the list; without one the program ends.                  *)
(***************************************************************************)
IndexOf(t) == CHOOSE i \in DOMAIN Ring : Ring[i] = t
After(t, d) == Ring[((IndexOf(t) + d - 1) % Len(Ring)) + 1]

schedule_thread(st) ==
  \/ /\ \A t \in Thread : st[t] # "RUNNABLE"
     /\ error' = IF \E t \in Thread : st[t] = "SUSPENDED" THEN "deadlock" ELSE "none"
     /\ UNCHANGED curr
  \/ \E d \in 1..Len(Ring) :
       /\ st[After(curr, d)] = "RUNNABLE"
       /\ \A c \in 1..(d - 1) : st[After(curr, c)] # "RUNNABLE"
       /\ curr' = After(curr, d) /\ UNCHANGED error

(* thread.ml: sleep, after scheduler.c: thread_sleep *)
sleep(t) ==
  /\ critical' = FALSE
  /\ status' = [status EXCEPT ![t] = "SUSPENDED"]
  /\ schedule_thread(status')

(* scheduler.c: thread_wakeup raises Failure unless the thread is suspended *)
wakeup(t) ==
  \/ /\ status[t] = "SUSPENDED"
     /\ status' = [status EXCEPT ![t] = "RUNNABLE"]
     /\ UNCHANGED error
  \/ /\ status[t] # "SUSPENDED"
     /\ error' = "wakeup"
     /\ UNCHANGED status

(* thread.ml: preempt, on a tick of the timer *)
Preempt ==
  /\ error = "none" /\ preemptive /\ ~critical
  /\ status[curr] = "RUNNABLE"
  /\ schedule_thread(status)
  /\ UNCHANGED <<program, preemptive, status, critical, pc, calls, pos, partner,
                 lockVars, conds, chanVars>>

(***************************************************************************)
(* event.ml: sync and poll allocate the references of the call.            *)
(***************************************************************************)
Begin(t) ==
  /\ Running(t, "idle") /\ Now(t) < Len(program[t])
  /\ \E p \in Scramblings(Len(program[t][Now(t) + 1].evs)) :
       calls' = [calls EXCEPT ![t] =
         Append(@, [order |-> p, performed |-> 0, data |-> [e \in DOMAIN p |-> NoData]])]
  /\ pos' = [pos EXCEPT ![t] = 1]
  /\ Goto(t, "lock")
  /\ UNCHANGED <<program, preemptive, schedVars, partner, lockVars, conds, chanVars>>

(***************************************************************************)
(* mutex.ml: lock.  The test is atomic with what follows it.               *)
(***************************************************************************)
LockFree(t) ==
  /\ \/ Running(t, "lock") /\ Goto(t, "poll")
     \/ Running(t, "relock") /\ Goto(t, "unlock")
  /\ ~locked
  /\ locked' = TRUE
  /\ UNCHANGED <<program, preemptive, schedVars, calls, pos, partner, waiting, towake,
                 conds, chanVars>>

LockBusy(t) ==
  /\ \/ Running(t, "lock") /\ Goto(t, "locksleep")
     \/ Running(t, "relock") /\ Goto(t, "relocksleep")
  /\ locked
  /\ critical' = TRUE /\ waiting' = <<t>> \o waiting
  /\ UNCHANGED <<program, preemptive, curr, status, error, calls, pos, partner, locked,
                 towake, conds, chanVars>>

LockSleep(t) ==
  /\ \/ Running(t, "locksleep") /\ Goto(t, "lock")
     \/ Running(t, "relocksleep") /\ Goto(t, "relock")
  /\ sleep(t)
  /\ UNCHANGED <<program, preemptive, calls, pos, partner, lockVars, conds, chanVars>>

(***************************************************************************)
(* event.ml: poll_events.                                                  *)
(***************************************************************************)
Performed(o) == calls[o.th][o.call].performed
(* Mutations of Live: a stale offer is taken for a live one; an offer behind *)
(* a stale one is not seen.                                                  *)
LiveStale(queue) == DOMAIN queue
LiveHead(queue) == {i \in DOMAIN queue : i = 1 /\ Performed(queue[i]) = 0}

Live(queue) == {i \in DOMAIN queue : Performed(queue[i]) = 0}

(* Queue.take until an offer that is not yet performed; all of them if none *)
FirstLive(queue) ==
  IF Live(queue) = {} THEN Len(queue)
  ELSE CHOOSE i \in Live(queue) : \A j \in Live(queue) : i <= j
Taken(queue) == SubSeq(queue, FirstLive(queue) + 1, Len(queue))

Polling(t) == Running(t, "poll") /\ pos[t] <= NumEvents(t)
Ev(t) == EventOf(t, Now(t), pos[t])

PollAlways(t) ==
  /\ Polling(t) /\ Ev(t).op = "always"
  /\ calls' = [calls EXCEPT ![t][Now(t)].performed = pos[t]]
  /\ Goto(t, "unlock")
  /\ UNCHANGED <<program, preemptive, schedVars, pos, partner, lockVars, conds, chanVars>>

(* The rendez-vous: the receiver gets the sender's data, both are marked as *)
(* performed, and the thread that had made the offer o will be woken up.    *)
Meet(t, o, reader, val) ==
  /\ calls' = [calls EXCEPT ![reader.th][reader.call].data[reader.ev] = val,
                            ![t][Now(t)].performed = pos[t],
                            ![o.th][o.call].performed = o.ev]
  /\ partner' = [partner EXCEPT ![t] = o]
  /\ Goto(t, "signal")
  /\ UNCHANGED pos

(* Mutation of Miss: poll_events i instead of poll_events (i+1). *)
MissAgain(t) == UNCHANGED <<pc, calls, partner, pos>>

Miss(t) ==
  /\ pos' = [pos EXCEPT ![t] = @ + 1]
  /\ UNCHANGED <<pc, calls, partner>>

Offer(t, e) == [th |-> t, call |-> Now(t), ev |-> e]

PollSend(t) ==
  /\ Polling(t) /\ Ev(t).op = "send"
  /\ LET queue == reads[Ev(t).ch]  o == queue[FirstLive(queue)]
     IN /\ reads' = [reads EXCEPT ![Ev(t).ch] = Taken(queue)]
        /\ \/ Live(queue) # {} /\ Meet(t, o, o, Ev(t).val)
           \/ Live(queue) = {} /\ Miss(t)
  /\ UNCHANGED <<program, preemptive, schedVars, lockVars, conds, writes>>

PollReceive(t) ==
  /\ Polling(t) /\ Ev(t).op = "receive"
  /\ LET queue == writes[Ev(t).ch]  me == Offer(t, pos[t])  o == queue[FirstLive(queue)]
     IN /\ writes' = [writes EXCEPT ![Ev(t).ch] = Taken(queue)]
        /\ \/ Live(queue) # {} /\ Meet(t, o, me, EventOf(o.th, o.call, o.ev).val)
           \/ Live(queue) = {} /\ Miss(t)
  /\ UNCHANGED <<program, preemptive, schedVars, lockVars, conds, reads>>

(* condition.ml: signal wakes up the thread waiting on the condition, if any *)
Signal(t) ==
  /\ Running(t, "signal")
  /\ LET o == partner[t]  c == <<o.th, o.call>>
     IN /\ conds' = conds \ {c}
        /\ IF c \in conds THEN wakeup(o.th) ELSE UNCHANGED <<status, error>>
  /\ partner' = [partner EXCEPT ![t] = NoOffer]
  /\ Goto(t, "unlock")
  /\ UNCHANGED <<program, preemptive, curr, critical, calls, pos, lockVars, chanVars>>

(* No event could be performed: basic_poll cancels its offers (performed   *)
(* becomes an event number, so that they are stale; -1 records that the    *)
(* answer is None whatever that number) ...                                *)
PollFails(t) ==
  /\ Running(t, "poll") /\ pos[t] > NumEvents(t) /\ ~program[t][Now(t)].blocking
  /\ calls' = [calls EXCEPT ![t][Now(t)].performed = -1]
  /\ Goto(t, "unlock")
  /\ UNCHANGED <<program, preemptive, schedVars, pos, partner, lockVars, conds, chanVars>>

(* ... and basic_sync offers all its communications. *)
(* Those with the operation op on the channel c, in the order of the events *)
Matching(t, op, c) ==
  {e \in 1..NumEvents(t) : EventOf(t, Now(t), e).op = op /\ EventOf(t, Now(t), e).ch = c}
Nth(S, i) == CHOOSE e \in S : Cardinality({x \in S : x <= e}) = i
Offers(t, op, c) ==
  [i \in 1..Cardinality(Matching(t, op, c)) |-> Offer(t, Nth(Matching(t, op, c), i))]

Suspend(t) ==
  /\ Running(t, "poll") /\ pos[t] > NumEvents(t) /\ program[t][Now(t)].blocking
  /\ writes' = [c \in Chan |-> writes[c] \o Offers(t, "send", c)]
  /\ reads' = [c \in Chan |-> reads[c] \o Offers(t, "receive", c)]
  /\ Goto(t, "wait")
  /\ UNCHANGED <<program, preemptive, schedVars, calls, pos, partner, lockVars, conds>>

(***************************************************************************)
(* condition.ml: wait.  From here to sleep the section is critical.        *)
(* mutex.ml: unlock takes the list of waiting threads, frees the mutex and *)
(* wakes them up one by one.                                               *)
(***************************************************************************)
(* Mutation of Wait: the section is not critical. *)
WaitPreemptible(t) ==
  /\ Running(t, "wait")
  /\ towake' = [towake EXCEPT ![t] = waiting]
  /\ waiting' = <<>> /\ locked' = FALSE
  /\ Goto(t, "waitwake")
  /\ UNCHANGED <<program, preemptive, schedVars, calls, pos, partner, conds, chanVars>>

Wait(t) ==
  /\ Running(t, "wait")
  /\ critical' = TRUE
  /\ towake' = [towake EXCEPT ![t] = waiting]
  /\ waiting' = <<>> /\ locked' = FALSE
  /\ Goto(t, "waitwake")
  /\ UNCHANGED <<program, preemptive, curr, status, error, calls, pos, partner, conds,
                 chanVars>>

Unlock(t) ==
  /\ Running(t, "unlock")
  /\ towake' = [towake EXCEPT ![t] = waiting]
  /\ waiting' = <<>> /\ locked' = FALSE
  /\ Goto(t, "wake")
  /\ UNCHANGED <<program, preemptive, schedVars, calls, pos, partner, conds, chanVars>>

Wake(t) ==
  /\ Running(t, "wake") \/ Running(t, "waitwake")
  /\ towake[t] # <<>>
  /\ wakeup(Head(towake[t]))
  /\ towake' = [towake EXCEPT ![t] = Tail(@)]
  /\ UNCHANGED <<program, preemptive, curr, critical, pc, calls, pos, partner, locked,
                 waiting, conds, chanVars>>

WaitSleep(t) ==
  /\ Running(t, "waitwake") /\ towake[t] = <<>>
  /\ conds' = conds \cup {<<t, Now(t)>>}
  /\ sleep(t)
  /\ Goto(t, "relock")
  /\ UNCHANGED <<program, preemptive, calls, pos, partner, lockVars, chanVars>>

(* bev.(!performed).result(): receive fails if it has got no data *)
Result(t) ==
  /\ Running(t, "wake") /\ towake[t] = <<>>
  /\ LET e == calls[t][Now(t)].performed
     IN error' = IF e = 0 \/ (e > 0 /\ EventOf(t, Now(t), e).op = "receive"
                                    /\ calls[t][Now(t)].data[e] = NoData)
                 THEN "result" ELSE "none"
  /\ Goto(t, "idle")
  /\ UNCHANGED <<program, preemptive, curr, status, critical, calls, pos, partner,
                 lockVars, conds, chanVars>>

(* thread.ml: exit, after scheduler.c: thread_kill *)
Exit(t) ==
  /\ Running(t, "idle") /\ Now(t) = Len(program[t]) /\ status[t] # "KILLED"
  /\ status' = [status EXCEPT ![t] = "KILLED"]
  /\ schedule_thread(status')
  /\ UNCHANGED <<program, preemptive, critical, pc, calls, pos, partner, lockVars, conds,
                 chanVars>>

Ended == error # "none" \/ \A t \in Thread : status[t] = "KILLED"
Stopped == Ended /\ UNCHANGED vars

Step(t) ==
  \/ Begin(t) \/ LockFree(t) \/ LockBusy(t) \/ LockSleep(t)
  \/ PollAlways(t) \/ PollSend(t) \/ PollReceive(t) \/ Signal(t) \/ PollFails(t)
  \/ Suspend(t) \/ Wait(t) \/ Unlock(t) \/ Wake(t) \/ WaitSleep(t) \/ Result(t) \/ Exit(t)

Next == (\E t \in Thread : Step(t)) \/ Preempt \/ Stopped

Spec == Init /\ [][Next]_vars
(* Between two ticks of the timer the current thread makes progress, and   *)
(* the list of threads is circular: a thread that stays runnable is run.   *)
FairSpec == Spec /\ \A t \in Thread : SF_vars(Step(t))

-----------------------------------------------------------------------------
(***************************************************************************)
(* Properties                                                              *)
(***************************************************************************)
CallRecord == [order : Seq(Nat), performed : Int, data : Seq(Val \cup {NoData})]
Pcs == {"idle", "lock", "locksleep", "poll", "signal", "unlock", "wait", "waitwake", "wake",
        "relock", "relocksleep"}

ValidOffer(o) ==
  o.call \in 1..Now(o.th) /\ o.ev \in 1..Len(program[o.th][o.call].evs)

(* Every variable holds a value of the type its counterpart has; a call's  *)
(* references have one entry per event, and the offers in the queues name  *)
(* existing calls and events.                                              *)
TypeOK ==
  /\ program \in Programs /\ preemptive \in PreemptModes
  /\ curr \in Thread /\ critical \in BOOLEAN /\ locked \in BOOLEAN
  /\ status \in [Thread -> {"RUNNABLE", "SUSPENDED", "KILLED"}]
  /\ error \in {"none", "deadlock", "wakeup", "result"}
  /\ pc \in [Thread -> Pcs]
  /\ calls \in [Thread -> Seq(CallRecord)]
  /\ \A t \in Thread : \A k \in 1..Now(t) :
       /\ k <= Len(program[t])
       /\ calls[t][k].order \in Scramblings(Len(program[t][k].evs))
       /\ calls[t][k].performed \in -1..Len(program[t][k].evs)
       /\ Len(calls[t][k].data) = Len(program[t][k].evs)
  /\ pos \in [Thread -> Nat \ {0}]
  /\ partner \in [Thread -> OfferType \cup {NoOffer}]
  /\ waiting \in Seq(Thread) /\ towake \in [Thread -> Seq(Thread)]
  /\ conds \subseteq Thread \X Nat
  /\ writes \in [Chan -> Seq(OfferType)] /\ reads \in [Chan -> Seq(OfferType)]
  /\ \A c \in Chan : /\ \A i \in 1..Len(writes[c]) : ValidOffer(writes[c][i])
                     /\ \A i \in 1..Len(reads[c]) : ValidOffer(reads[c][i])

Holders == {t \in Thread : pc[t] \in {"poll", "signal", "wait", "unlock"}}

(* A thread that has published its offers and that nobody has matched yet. *)
Offering(t) ==
  /\ pc[t] \in {"wait", "waitwake", "relock", "relocksleep"}
  /\ calls[t][Now(t)].performed = 0

CanMeet(s, r) ==
  \E i \in 1..NumEvents(s), j \in 1..NumEvents(r) :
    LET send == EventOf(s, Now(s), i)  receive == EventOf(r, Now(r), j)
    IN send.op = "send" /\ receive.op = "receive" /\ send.ch = receive.ch

(* Two threads never wait for each other: of two calls that could meet,    *)
(* the one that gets masterlock last finds the other one's offer, however  *)
(* many stale offers of earlier calls come before it in the queue.  So the *)
(* scheduler reports a deadlock only when every thread left waits for a    *)
(* communication that no other offers.                                     *)
NoMissedRendezvous ==
  /\ \A s, r \in Thread : s # r /\ Offering(s) /\ Offering(r) => ~CanMeet(s, r)
  /\ error = "deadlock" => \A t \in Thread : status[t] = "SUSPENDED" => Offering(t)

(* A suspended thread is known to somebody who will wake it up: the holder *)
(* of the mutex, a thread in the middle of Mutex.unlock, or the thread     *)
(* that matched its offer and is about to signal its condition.  The mutex *)
(* has one holder although a thread may be preempted in the middle, and    *)
(* neither Failure "thread not suspended" of thread_wakeup nor             *)
(* Invalid_argument "Event.receive" is ever raised.                        *)
NoLostWakeup ==
  /\ error = "none" => \A t \in Thread : status[t] = "SUSPENDED" =>
       \/ locked /\ t \in Range(waiting)
       \/ \E u \in Thread : t \in Range(towake[u])
       \/ /\ <<t, Now(t)>> \in conds
          /\ \/ Offering(t)
             \/ \E u \in Holders : partner[u] # NoOffer /\ partner[u].th = t
  /\ Cardinality(Holders) = IF locked THEN 1 ELSE 0
  /\ error \notin {"wakeup", "result"}

Outcomes(t) ==
  LET n == IF Now(t) > 0 /\ calls[t][Now(t)].performed = 0 THEN Now(t) - 1 ELSE Now(t)
      outcome(c) == IF c.performed = -1 THEN [ev |-> 0, data |-> NoData]
                    ELSE [ev |-> c.order[c.performed], data |-> c.data[c.performed]]
  IN [k \in 1..n |-> outcome(calls[t][k])]

Abstract == INSTANCE Rendezvous WITH results <- [t \in Thread |-> Outcomes(t)]

(* sync and poll are synchronous channels: every rendez-vous completes one *)
(* send and one receive, with the sender's data, and each call returns     *)
(* because of one of its own events, once.                                 *)
ImplementsRendezvous == Abstract!Spec

(* Every program that makes finitely many calls ends, or reaches a state   *)
(* where the scheduler rightly reports a deadlock.                         *)
Terminates == <>Ended
=============================================================================
