-------------------------- MODULE RendezvousProofs --------------------------
(***************************************************************************)
(* Proofs about the rendez-vous of Event: none is missed, and the channels *)
(* implement the abstract ones of Rendezvous.  They use the invariant that *)
(* EventProofs establishes.                                                *)
(***************************************************************************)
EXTENDS EventProofs

(* What a thread has offered, and what it has found so far. *)
Published(t) ==
  \A e \in 1..NumEvents(t) :
    LET ev == EventOf(t, Now(t), e)
    IN /\ ev.op = "send" => InSeq(Offer(t, e), writes[ev.ch])
       /\ ev.op = "receive" => InSeq(Offer(t, e), reads[ev.ch])
NoneBefore(t, n) ==
  \A e \in 1..NumEvents(t) : e < n =>
    LET ev == EventOf(t, Now(t), e)
    IN /\ ev.op = "send" => Live(reads[ev.ch]) = {}
       /\ ev.op = "receive" => Live(writes[ev.ch]) = {}
OfferInv ==
  \A t \in Thread :
    /\ Offering(t) => Published(t)
    /\ pc[t] \in {"lock", "locksleep"} => pos[t] = 1
    /\ pc[t] = "poll" => NoneBefore(t, pos[t])
(* Of two calls that could meet, one has found the other's offer. *)
MeetInv == \A s, r \in Thread : s # r /\ Offering(s) /\ Offering(r) => ~CanMeet(s, r)
DeadInv == error = "deadlock" => \A t \in Thread : status[t] # "RUNNABLE"

LEMMA OfferInit == Init => OfferInv /\ MeetInv /\ DeadInv
BY DEF Init, OfferInv, MeetInv, DeadInv, Offering

(* What stays in a queue when an offer is taken. *)
LEMMA OfferTaken ==
  ASSUME NEW q \in Seq(OfferType), NEW o, InSeq(o, q), Performed(o) = 0
  PROVE  /\ Live(q) # {}
         /\ InSeq(o, Taken(q)) \/ o = q[FirstLive(q)]
<1>1. PICK j \in 1..Len(q) : q[j] = o
  BY DEF InSeq
<1>2. Len(q) \in Nat /\ DOMAIN q = 1..Len(q)
  BY LenProperties
<1>3. j \in Live(q)
  BY <1>1, <1>2 DEF Live
<1>4. FirstLive(q) \in 1..Len(q) /\ \A i \in 1..FirstLive(q) : Performed(q[i]) = 0 => i = FirstLive(q)
  BY <1>3, TakeProperties
<1>5. CASE j > FirstLive(q)
  BY <1>1, <1>3, <1>5, TakeProperties
<1>6. CASE ~(j > FirstLive(q))
  BY <1>1, <1>2, <1>3, <1>4, <1>6
<1> QED
  BY <1>5, <1>6

(* A call that is performed stays performed. *)
LEMMA PerformedKept ==
  ASSUME TypeInv, NEW t \in Thread, Step(t), NEW u \in Thread, NEW k \in 1..Now(u),
         calls[u][k].performed # 0
  PROVE  calls'[u][k].performed # 0
<1>1. CASE Begin(t)
  <2>1. PICK p : CallAdded(calls, calls', t, NewCall(p))
    BY <1>1, BeginEffect
  <2> QED
    BY <2>1 DEF CallAdded, Now
<1>2. CASE PollAlways(t) \/ PollFails(t)
  <2>1. PICK v : PerformedSet(calls, calls', t, Now(t), v) /\ v # 0
    BY <1>2, PerformEffect
  <2> QED
    BY <2>1 DEF PerformedSet, Now
<1>3. CASE (PollSend(t) \/ PollReceive(t)) /\ Matched(t)
  <2>1. /\ First(t) \in OfferType /\ MetCalls(t, First(t), Reader(t), Sent(t))
        /\ pos[t] \in 1..NumEvents(t)
    BY <1>3, PollStep DEF Matched
  <2>2. First(t).ev # 0 /\ pos[t] # 0
    BY <2>1 DEF OfferType
  <2>3. calls'[u][k].performed =
          IF u = First(t).th /\ k = First(t).call THEN First(t).ev
          ELSE IF u = t /\ k = Now(t) THEN pos[t] ELSE calls[u][k].performed
    BY <2>1 DEF MetCalls
  <2> QED
    BY <2>2, <2>3
<1>4. CASE UNCHANGED calls
  BY <1>4
<1> QED
  BY <1>1, <1>2, <1>3, <1>4, CallsUnchanged, PollStep DEF Missed, Miss

(* A queue without live offers gets none by what is taken from it. *)
LEMMA LiveGone ==
  ASSUME TypeInv, NEW t \in Thread, Step(t), NEW q, QueueOK(q), NEW r, Shrunk(q, r),
         Live(q) = {}
  PROVE  Live(r)' = {}
<1>1. q \in Seq(OfferType) /\ r \in Seq(OfferType) /\ DOMAIN q = 1..Len(q) /\ DOMAIN r = 1..Len(r)
  BY LenProperties DEF QueueOK, Shrunk
<1>2. ASSUME NEW i \in 1..Len(r) PROVE Performed(r[i])' # 0
  <2>1. PICK j \in 1..Len(q) : r[i] = q[j]
    BY DEF Shrunk
  <2>2. Performed(q[j]) # 0 /\ ValidOffer(q[j]) /\ q[j] \in OfferType
    BY <1>1, ElementOfSeq DEF Live, QueueOK
  <2>3. q[j].th \in Thread /\ q[j].call \in 1..Now(q[j].th)
    BY <2>2 DEF OfferType, ValidOffer
  <2>4. calls'[q[j].th][q[j].call].performed # 0
    BY <2>2, <2>3, PerformedKept DEF Performed
  <2> QED
    BY <2>1, <2>4 DEF Performed
<1> QED
  BY <1>1, <1>2 DEF Live

(* A thread starts to offer its communications when it suspends itself. *)
OfferPc == {"wait", "waitwake", "relock", "relocksleep"}

LEMMA OfferingBefore ==
  ASSUME TypeInv, NEW t \in Thread, Step(t), NEW u \in Thread, Offering(u)'
  PROVE  /\ Offering(u) \/ (u = t /\ Suspend(t))
         /\ Now(u)' = Now(u) /\ Now(u) \in 1..Now(u)
<1>1. TypeOK /\ pc \in [Thread -> Pcs] /\ \A v \in Thread : Now(v) \in Nat
  BY NowType DEF TypeInv, TypeOK
<1>2. pc'[u] \in OfferPc /\ calls'[u][Now(u)'].performed = 0
  BY DEF Offering, OfferPc
<1>3. u = t => pc[t] \in OfferPc \/ Suspend(t)
  <2>1. PollSend(t) \/ PollReceive(t) => pc'[t] \in {"poll", "signal"}
    <3>1. PollSend(t) \/ PollReceive(t) =>
            pc[t] = "poll" /\ (UNCHANGED pc \/ Goto(t, "signal"))
      BY PollStep DEF Missed, Miss, Matched, PollSend, PollReceive, Polling, Running
    <3> QED
      BY <1>1, <3>1 DEF Goto
  <2> QED
    BY <1>1, <1>2, <2>1
       DEF Step, Begin, LockFree, LockBusy, LockSleep, PollAlways, Signal, PollFails, Wait,
           Unlock, Wake, WaitSleep, Result, Exit, Running, Goto, OfferPc
<1>4. u # t => pc[u] \in OfferPc
  BY <1>1, <1>2, OthersStay
<1>5. ~(u = t /\ Begin(t))
  BY <1>1, <1>2 DEF Begin, Goto, OfferPc
<1>6. Now(u)' = Now(u)
  BY <1>5, CallsGrowStep DEF CallsGrow
<1>7. pc[u] # "idle"
  BY <1>3, <1>4 DEF OfferPc, Suspend, Running
<1>8. Now(u) \in 1..Now(u)
  BY <1>1, <1>7 DEF TypeInv, InCall
<1>9. calls[u][Now(u)].performed = 0
  BY <1>2, <1>6, <1>8, PerformedKept
<1> QED
  BY <1>3, <1>4, <1>6, <1>8, <1>9 DEF Offering, OfferPc

(* A live offer that stays live stays in its queue. *)
LEMMA OfferKept ==
  ASSUME TypeInv, NEW t \in Thread, Step(t), NEW o \in OfferType, ValidOffer(o),
         Performed(o)' = 0, NEW c \in Chan
  PROVE  /\ InSeq(o, writes[c]) => InSeq(o, writes'[c])
         /\ InSeq(o, reads[c]) => InSeq(o, reads'[c])
<1>1. TypeOK /\ writes \in [Chan -> Seq(OfferType)] /\ reads \in [Chan -> Seq(OfferType)]
  BY DEF TypeInv, TypeOK
<1>2. Performed(o) = 0
  <2>1. o.th \in Thread /\ o.call \in 1..Now(o.th)
    BY DEF OfferType, ValidOffer
  <2> QED
    BY <2>1, PerformedKept DEF Performed
<1>3. CASE UNCHANGED chanVars
  BY <1>3 DEF chanVars
<1>4. CASE PollSend(t) \/ PollReceive(t)
  <2>1. Peers(t) \in Seq(OfferType) /\ Ev(t).ch \in Chan
    BY <1>4, PollStep
  <2>2. InSeq(o, Peers(t)) => InSeq(o, Taken(Peers(t)))
    <3> SUFFICES ASSUME InSeq(o, Peers(t)), o = First(t) PROVE FALSE
      BY <1>2, <2>1, OfferTaken DEF First
    <3>1. Live(Peers(t)) # {}
      BY <1>2, <2>1, OfferTaken
    <3>2. MetCalls(t, o, Reader(t), Sent(t))
      BY <1>4, <3>1, PollStep DEF Missed, Matched
    <3>3. o.th \in Thread /\ o.call \in 1..Now(o.th) /\ o.ev # 0
      BY DEF OfferType, ValidOffer
    <3>4. calls'[o.th][o.call].performed = o.ev
      BY <3>2, <3>3 DEF MetCalls
    <3> QED
      BY <3>3, <3>4 DEF Performed
  <2>3. CASE PollSend(t)
    <3>1. Peers(t) = reads[Ev(t).ch]
      BY <2>3 DEF PollSend, Peers
    <3>2. reads' = [reads EXCEPT ![Ev(t).ch] = Taken(Peers(t))] /\ writes' = writes
      BY <2>3, <3>1 DEF PollSend
    <3> QED
      BY <1>1, <2>1, <2>2, <3>1, <3>2
  <2>4. CASE PollReceive(t)
    <3>1. Peers(t) = writes[Ev(t).ch]
      BY <2>4 DEF PollReceive, Peers
    <3>2. writes' = [writes EXCEPT ![Ev(t).ch] = Taken(Peers(t))] /\ reads' = reads
      BY <2>4, <3>1 DEF PollReceive
    <3> QED
      BY <1>1, <2>1, <2>2, <3>1, <3>2
  <2> QED
    BY <1>4, <2>3, <2>4
<1>5. CASE Suspend(t)
  <2>1. Now(t) > 0
    BY <1>5 DEF TypeInv, InCall, Suspend, Running
  <2>2. /\ writes'[c] = writes[c] \o Offers(t, "send", c)
        /\ reads'[c] = reads[c] \o Offers(t, "receive", c)
    BY <1>5 DEF Suspend
  <2>3. \A op : Offers(t, op, c) \in Seq(OfferType)
    BY <1>1, <2>1, OffersProperties
  <2> QED
    BY <1>1, <2>2, <2>3, InConcat
<1>6. UNCHANGED chanVars \/ PollSend(t) \/ PollReceive(t) \/ Suspend(t)
  BY DEF Step, Begin, LockFree, LockBusy, LockSleep, PollAlways, Signal, PollFails, Wait, Unlock,
         Wake, WaitSleep, Result, Exit
<1> QED
  BY <1>3, <1>4, <1>5, <1>6

(* An offer of a thread that is offering is live. *)
LEMMA OfferLive ==
  ASSUME TypeInv, NEW u \in Thread, Now(u) \in 1..Now(u), NEW e \in 1..NumEvents(u)
  PROVE  /\ Offer(u, e) \in OfferType /\ ValidOffer(Offer(u, e))
         /\ Performed(Offer(u, e)) = calls[u][Now(u)].performed
         /\ EventOf(u, Now(u), e).ch \in Chan
         /\ EventOf(u, Now(u), e).op \in {"send", "receive", "always"}
<1>1. TypeOK /\ Now(u) \in Nat /\ NumEvents(u) \in Nat
  BY NowType DEF TypeInv
<1>2. Offer(u, e) \in OfferType /\ ValidOffer(Offer(u, e))
  BY <1>1 DEF Offer, OfferType, ValidOffer, NumEvents
<1>3. Performed(Offer(u, e)) = calls[u][Now(u)].performed
  BY DEF Offer, Performed
<1>4. /\ EventOf(u, Now(u), e).ch \in Chan
      /\ EventOf(u, Now(u), e).op \in {"send", "receive", "always"}
  BY <1>1, EventType DEF NumEvents
<1> QED
  BY <1>2, <1>3, <1>4

(* The events of a thread that stays in its call. *)
LEMMA SameCall ==
  ASSUME TypeInv, NEW t \in Thread, Step(t), NEW u \in Thread, Now(u)' = Now(u),
         Now(u) \in 1..Now(u)
  PROVE  /\ NumEvents(u)' = NumEvents(u)
         /\ \A e : /\ EventOf(u, Now(u), e)' = EventOf(u, Now(u), e)
                   /\ Offer(u, e)' = Offer(u, e)
<1>1. program' = program /\ calls'[u][Now(u)].order = calls[u][Now(u)].order
  BY CallsUnchanged, CallsGrowStep DEF CallsGrow
<1> QED
  BY <1>1 DEF NumEvents, EventOf, Offer

LEMMA PublishedStep ==
  ASSUME TypeInv, OfferInv, NEW t \in Thread, Step(t), NEW u \in Thread, Offering(u)'
  PROVE  Published(u)'
<1>1. /\ Offering(u) \/ (u = t /\ Suspend(t))
      /\ Now(u)' = Now(u) /\ Now(u) \in 1..Now(u)
  BY OfferingBefore
<1>2. /\ NumEvents(u)' = NumEvents(u)
      /\ \A e : /\ EventOf(u, Now(u), e)' = EventOf(u, Now(u), e)
                /\ Offer(u, e)' = Offer(u, e)
  BY <1>1, SameCall
<1>3. SUFFICES ASSUME NEW e \in 1..NumEvents(u), NEW c, c = EventOf(u, Now(u), e).ch,
                      NEW o, o = Offer(u, e)
               PROVE  /\ EventOf(u, Now(u), e).op = "send" => InSeq(o, writes'[c])
                      /\ EventOf(u, Now(u), e).op = "receive" => InSeq(o, reads'[c])
  BY <1>2 DEF Published
<1>4. o \in OfferType /\ ValidOffer(o) /\ c \in Chan
  BY <1>1, <1>3, OfferLive
<1>5. CASE Offering(u)
  <2>1. Performed(o)' = 0
    BY <1>1, <1>2, <1>3 DEF Offering, Performed, Offer
  <2>2. /\ EventOf(u, Now(u), e).op = "send" => InSeq(o, writes[c])
        /\ EventOf(u, Now(u), e).op = "receive" => InSeq(o, reads[c])
    BY <1>3, <1>5 DEF OfferInv, Published
  <2> QED
    BY <1>4, <2>1, <2>2, OfferKept
<1>6. CASE u = t /\ Suspend(t)
  <2>1. /\ TypeOK /\ Now(t) > 0 /\ writes[c] \in Seq(OfferType) /\ reads[c] \in Seq(OfferType)
    <3>1. TypeOK /\ Now(t) \in Nat
      BY NowType DEF TypeInv
    <3>2. writes \in [Chan -> Seq(OfferType)] /\ reads \in [Chan -> Seq(OfferType)]
      BY <3>1 DEF TypeOK
    <3>3. Now(t) > 0
      BY <1>1, <1>6, <3>1
    <3> QED
      BY <1>4, <3>1, <3>2, <3>3
  <2>2. /\ writes'[c] = writes[c] \o Offers(t, "send", c)
        /\ reads'[c] = reads[c] \o Offers(t, "receive", c)
    BY <1>4, <1>6 DEF Suspend
  <2>3. ASSUME NEW op, EventOf(u, Now(u), e).op = op PROVE InSeq(o, Offers(t, op, c))
    <3>1. e \in Matching(t, op, c)
      BY <1>3, <1>6, <2>3 DEF Matching
    <3> QED
      BY <1>3, <1>6, <2>1, <3>1, OffersProperties
  <2>4. \A op : Offers(t, op, c) \in Seq(OfferType)
    BY <2>1, OffersProperties
  <2> QED
    BY <2>1, <2>2, <2>3, <2>4, InConcat
<1> QED
  BY <1>1, <1>5, <1>6

(* The state of the queues while a thread polls. *)
LEMMA NoneBeforeStep ==
  ASSUME TypeInv, LockInv, OfferInv, NEW t \in Thread, Step(t), NEW u \in Thread,
         pc'[u] = "poll"
  PROVE  NoneBefore(u, pos[u])'
<1>1. /\ TypeOK /\ pc \in [Thread -> Pcs] /\ QueuesOK /\ pos \in [Thread -> Nat \ {0}]
      /\ \A v \in Thread : u # t => pc'[u] = pc[u]
      /\ \A v \in Thread : Now(v) \in Nat
  BY TypeParts, OthersStay, NowType DEF TypeInv, TypeOK
<1>2. ~Suspend(t) \/ u # t
  BY <1>1 DEF Suspend, Goto
<1>3. u # t => pc[u] = "poll" /\ pc[t] \notin HolderPc
  BY <1>1 DEF LockInv, HolderPc
<1>4. ~(u = t /\ Begin(t)) /\ pc[u] # "idle"
  <2>1. Begin(t) /\ u = t => pc'[u] = "lock"
    BY <1>1 DEF Begin, Goto
  <2>2. pc[t] = "idle" => Begin(t) \/ Exit(t)
    BY DEF Step, LockFree, LockBusy, LockSleep, PollAlways, PollSend, PollReceive, Signal,
           PollFails, Suspend, Wait, Unlock, Wake, WaitSleep, Result, Polling, Running
  <2>3. Exit(t) /\ pc[t] = "idle" => pc'[t] = "idle"
    BY DEF Exit
  <2> QED
    BY <1>3, <2>1, <2>2, <2>3
<1>5. Now(u)' = Now(u) /\ Now(u) \in 1..Now(u)
  BY <1>1, <1>4, CallsGrowStep DEF CallsGrow, TypeInv, InCall
<1>6. /\ NumEvents(u)' = NumEvents(u) /\ NumEvents(u) \in Nat
      /\ \A e : EventOf(u, Now(u), e)' = EventOf(u, Now(u), e)
  BY <1>1, <1>5, SameCall, NowType
<1>7. \A c \in Chan : Shrunk(writes[c], writes'[c]) /\ Shrunk(reads[c], reads'[c])
  <2>1. CASE PollSend(t) \/ PollReceive(t)
    BY <2>1, PollStep
  <2>2. CASE UNCHANGED chanVars
    BY <1>1, <2>2 DEF chanVars, Shrunk, QueuesOK
  <2>3. UNCHANGED chanVars \/ PollSend(t) \/ PollReceive(t)
    <3>1. ~Suspend(t)
      BY <1>2, <1>3 DEF Suspend, Running, HolderPc
    <3> QED
      BY <3>1 DEF Step, Begin, LockFree, LockBusy, LockSleep, PollAlways, Signal, PollFails,
                  Wait, Unlock, Wake, WaitSleep, Result, Exit
  <2> QED
    BY <2>1, <2>2, <2>3
<1>8. \A c \in Chan : /\ Live(writes[c]) = {} => Live(writes[c])' = {}
                      /\ Live(reads[c]) = {} => Live(reads[c])' = {}
  BY <1>1, <1>7, LiveGone DEF QueuesOK
<1>9. \A e \in 1..NumEvents(u) : EventOf(u, Now(u), e).ch \in Chan
  BY <1>5, OfferLive
<1>10. ASSUME NEW n \in Nat, NoneBefore(u, n), pos'[u] = n PROVE NoneBefore(u, pos[u])'
  BY <1>5, <1>6, <1>8, <1>9, <1>10 DEF NoneBefore
<1>11. CASE u # t
  <2>1. pos'[u] = pos[u]
    <3>1. UNCHANGED pos \/ \E v : pos' = [pos EXCEPT ![t] = v]
      <4>1. PollSend(t) \/ PollReceive(t) => UNCHANGED pos \/ \E v : pos' = [pos EXCEPT ![t] = v]
        BY PollStep DEF Missed, Miss, Matched
      <4> QED
        BY <4>1 DEF Step, Begin, LockFree, LockBusy, LockSleep, PollAlways, Signal, PollFails,
                  Suspend, Wait, Unlock, Wake, WaitSleep, Result, Exit
    <3> QED
      BY <1>1, <1>11, <3>1
  <2> QED
    BY <1>1, <1>3, <1>10, <1>11, <2>1 DEF OfferInv
<1>12. CASE u = t /\ LockFree(t)
  <2>1. pos'[t] = 1
    BY <1>1, <1>12 DEF LockFree, Running, Goto, OfferInv
  <2>2. NoneBefore(u, 1)
    <3>1. \A e \in 1..NumEvents(u) : ~(e < 1)
      BY <1>6
    <3> QED
      BY <3>1 DEF NoneBefore
  <2> QED
    BY <1>10, <1>12, <2>1, <2>2
<1>13. CASE u = t /\ (PollSend(t) \/ PollReceive(t)) /\ Missed(t)
  <2>1. /\ pc[t] = "poll" /\ pos'[t] = pos[t] + 1 /\ Live(Peers(t)) = {}
        /\ Ev(t).op = "send" \/ Ev(t).op = "receive"
    BY <1>1, <1>13 DEF PollSend, PollReceive, Polling, Running, Missed, Miss
  <2>2. NoneBefore(t, pos[t])
    BY <2>1 DEF OfferInv
  <2>3. NoneBefore(t, pos[t] + 1)
    <3> SUFFICES ASSUME NEW e \in 1..NumEvents(t), e < pos[t] + 1
                 PROVE  LET ev == EventOf(t, Now(t), e)
                        IN /\ ev.op = "send" => Live(reads[ev.ch]) = {}
                           /\ ev.op = "receive" => Live(writes[ev.ch]) = {}
      BY DEF NoneBefore
    <3>1. CASE e < pos[t]
      BY <2>2, <3>1 DEF NoneBefore
    <3>2. CASE e = pos[t]
      BY <2>1, <3>2 DEF Peers, Ev
    <3>3. e < pos[t] \/ e = pos[t]
      BY <1>1, <1>6, <1>13
    <3> QED
      BY <3>1, <3>2, <3>3
  <2>4. pos[t] + 1 \in Nat
    BY <1>1
  <2> QED
    BY <1>10, <1>13, <2>1, <2>3, <2>4
<1>14. u = t => LockFree(t) \/ ((PollSend(t) \/ PollReceive(t)) /\ Missed(t))
  <2>1. PollSend(t) \/ PollReceive(t) => Missed(t) \/ pc'[t] = "signal"
    BY <1>1, PollStep DEF Matched, Goto
  <2> QED
    BY <1>1, <2>1 DEF Step, Begin, LockBusy, LockSleep, PollAlways, Signal, PollFails, Suspend,
             Wait, Unlock, Wake, WaitSleep, Result, Exit, Running, Goto
<1> QED
  BY <1>11, <1>12, <1>13, <1>14

LEMMA OfferStep ==
  ASSUME TypeInv, LockInv, OfferInv, [Next]_vars
  PROVE  OfferInv'
<1>1. TypeOK /\ pc \in [Thread -> Pcs] /\ pos \in [Thread -> Nat \ {0}]
  BY DEF TypeInv, TypeOK
<1>2. ASSUME NEW t \in Thread, Step(t) PROVE OfferInv'
  <2>1. ASSUME NEW u \in Thread, pc'[u] \in {"lock", "locksleep"} PROVE pos'[u] = 1
    <3>1. CASE u # t
      <4>1. pc'[u] = pc[u]
        BY <1>1, <1>2, <3>1, OthersStay
      <4>2. UNCHANGED pos \/ \E v : pos' = [pos EXCEPT ![t] = v]
        <5>1. PollSend(t) \/ PollReceive(t) =>
                UNCHANGED pos \/ \E v : pos' = [pos EXCEPT ![t] = v]
          BY PollStep DEF Missed, Miss, Matched
        <5> QED
          BY <1>2, <5>1 DEF Step, Begin, LockFree, LockBusy, LockSleep, PollAlways, Signal,
                  PollFails, Suspend, Wait, Unlock, Wake, WaitSleep, Result, Exit
      <4> QED
        BY <1>1, <2>1, <3>1, <4>1, <4>2 DEF OfferInv
    <3>2. CASE u = t
      <4>1. PollSend(t) \/ PollReceive(t) => pc'[t] \in {"poll", "signal"}
        <5>1. PollSend(t) \/ PollReceive(t) =>
                pc[t] = "poll" /\ (UNCHANGED pc \/ Goto(t, "signal"))
          BY PollStep DEF Missed, Miss, Matched, PollSend, PollReceive, Polling, Running
        <5> QED
          BY <1>1, <5>1 DEF Goto
      <4>2. Begin(t) => pos'[t] = 1
        BY <1>1 DEF Begin
      <4>3. \/ Begin(t)
            \/ UNCHANGED pos /\ pc[t] \in {"lock", "locksleep"}
        BY <1>1, <1>2, <2>1, <3>2, <4>1
           DEF Step, LockFree, LockBusy, LockSleep, PollAlways, Signal, PollFails, Suspend,
               Wait, Unlock, Wake, WaitSleep, Result, Exit, Running, Goto
      <4> QED
        BY <3>2, <4>2, <4>3 DEF OfferInv
    <3> QED
      BY <3>1, <3>2
  <2> QED
    BY <1>2, <2>1, PublishedStep, NoneBeforeStep DEF OfferInv
<1>3. CASE UNCHANGED <<program, calls, pc, pos, writes, reads>>
  <2>1. /\ \A u \in Thread : /\ Offering(u)' = Offering(u) /\ Published(u)' = Published(u)
                             /\ NoneBefore(u, pos[u])' = NoneBefore(u, pos[u])
    BY <1>3 DEF Offering, Published, NoneBefore, NumEvents, EventOf, Offer, Live, Performed, Now
  <2> QED
    BY <1>3, <2>1 DEF OfferInv
<1>4. Preempt \/ UNCHANGED vars => UNCHANGED <<program, calls, pc, pos, writes, reads>>
  BY DEF Preempt, vars, chanVars
<1> QED
  BY <1>2, <1>3, <1>4 DEF Next, Stopped

(* Two threads that offer, one of which has just polled: they cannot meet. *)
LEMMA PolledAll ==
  ASSUME TypeInv, OfferInv, NEW t \in Thread, Suspend(t), NEW u \in Thread, Offering(u),
         Now(u) \in 1..Now(u)
  PROVE  ~CanMeet(t, u) /\ ~CanMeet(u, t)
<1>1. /\ pc[t] = "poll" /\ pos[t] > NumEvents(t) /\ NoneBefore(t, pos[t]) /\ Now(t) \in 1..Now(t)
      /\ NumEvents(t) \in Nat /\ pos[t] \in Nat
  BY NowType DEF Suspend, Running, OfferInv, TypeInv, InCall, TypeOK
<1>2. Published(u) /\ calls[u][Now(u)].performed = 0
  BY DEF OfferInv, Offering
<1>3. \A e \in 1..NumEvents(t) : e < pos[t]
  BY <1>1
<1>4. writes \in [Chan -> Seq(OfferType)] /\ reads \in [Chan -> Seq(OfferType)]
  BY DEF TypeInv, TypeOK
<1>5. ASSUME NEW i \in 1..NumEvents(t), NEW j \in 1..NumEvents(u),
             EventOf(t, Now(t), i).ch = EventOf(u, Now(u), j).ch
      PROVE  /\ ~(EventOf(t, Now(t), i).op = "send" /\ EventOf(u, Now(u), j).op = "receive")
             /\ ~(EventOf(t, Now(t), i).op = "receive" /\ EventOf(u, Now(u), j).op = "send")
  <2> PICK c, o : c = EventOf(u, Now(u), j).ch /\ o = Offer(u, j)
    OBVIOUS
  <2>1. c \in Chan /\ Performed(o) = 0
    BY <1>2, OfferLive
  <2>2. ASSUME EventOf(t, Now(t), i).op = "send", EventOf(u, Now(u), j).op = "receive"
        PROVE  FALSE
    <3>1. Live(reads[c]) = {}
      BY <1>1, <1>3, <1>5, <2>2 DEF NoneBefore
    <3>2. InSeq(o, reads[c])
      BY <1>2, <2>2 DEF Published
    <3> QED
      BY <1>4, <2>1, <3>1, <3>2, OfferTaken
  <2>3. ASSUME EventOf(t, Now(t), i).op = "receive", EventOf(u, Now(u), j).op = "send"
        PROVE  FALSE
    <3>1. Live(writes[c]) = {}
      BY <1>1, <1>3, <1>5, <2>3 DEF NoneBefore
    <3>2. InSeq(o, writes[c])
      BY <1>2, <2>3 DEF Published
    <3> QED
      BY <1>4, <2>1, <3>1, <3>2, OfferTaken
  <2> QED
    BY <2>2, <2>3
<1> QED
  BY <1>5 DEF CanMeet

LEMMA MeetStep ==
  ASSUME TypeInv, OfferInv, MeetInv, [Next]_vars
  PROVE  MeetInv'
<1>1. ASSUME NEW t \in Thread, Step(t) PROVE MeetInv'
  <2> SUFFICES ASSUME NEW s \in Thread, NEW r \in Thread, s # r, Offering(s)', Offering(r)'
               PROVE  ~CanMeet(s, r)'
    BY DEF MeetInv
  <2>1. /\ Now(s)' = Now(s) /\ Now(s) \in 1..Now(s)
        /\ Now(r)' = Now(r) /\ Now(r) \in 1..Now(r)
    BY <1>1, OfferingBefore
  <2>2. /\ Offering(s) \/ (s = t /\ Suspend(t))
        /\ Offering(r) \/ (r = t /\ Suspend(t))
    BY <1>1, OfferingBefore
  <2>3. CanMeet(s, r)' = CanMeet(s, r)
    <3>1. /\ NumEvents(s)' = NumEvents(s) /\ NumEvents(r)' = NumEvents(r)
          /\ \A e : /\ EventOf(s, Now(s), e)' = EventOf(s, Now(s), e)
                    /\ EventOf(r, Now(r), e)' = EventOf(r, Now(r), e)
      BY <1>1, <2>1, SameCall
    <3> QED
      BY <2>1, <3>1 DEF CanMeet
  <2>4. CASE Offering(s) /\ Offering(r)
    BY <2>3, <2>4 DEF MeetInv
  <2>5. CASE s = t /\ Suspend(t) /\ Offering(r)
    BY <2>1, <2>3, <2>5, PolledAll
  <2>6. CASE r = t /\ Suspend(t) /\ Offering(s)
    BY <2>1, <2>3, <2>6, PolledAll
  <2> QED
    BY <2>2, <2>4, <2>5, <2>6
<1>2. CASE UNCHANGED <<program, calls, pc>>
  <2>1. \A s, r : Offering(s)' = Offering(s) /\ CanMeet(s, r)' = CanMeet(s, r)
    BY <1>2 DEF Offering, CanMeet, NumEvents, EventOf, Now
  <2> QED
    BY <2>1 DEF MeetInv
<1>3. Preempt \/ UNCHANGED vars => UNCHANGED <<program, calls, pc>>
  BY DEF Preempt, vars
<1> QED
  BY <1>1, <1>2, <1>3 DEF Next, Stopped

LEMMA DeadStep ==
  ASSUME TypeInv, DeadInv, [Next]_vars
  PROVE  DeadInv'
<1>1. status \in Statuses
  BY DEF TypeInv, TypeOK, Statuses
<1>2. ASSUME NEW t \in Thread, Step(t) PROVE DeadInv'
  <2>1. error = "none"
    BY <1>2, OthersStay DEF TypeInv
  <2>2. CASE LockSleep(t) \/ WaitSleep(t) \/ Exit(t)
    <3>1. schedule_thread(status')
      BY <2>2 DEF LockSleep, WaitSleep, Exit, sleep
    <3>2. status' \in Statuses
      BY <1>1, <2>2 DEF LockSleep, WaitSleep, Exit, sleep, Statuses
    <3> QED
      BY <2>1, <3>1, <3>2, ScheduleResult DEF DeadInv
  <2>3. CASE error' # "deadlock"
    BY <2>3 DEF DeadInv
  <2>4. LockSleep(t) \/ WaitSleep(t) \/ Exit(t) \/ error' # "deadlock"
    <3>1. Result(t) => error' # "deadlock"
      BY DEF Result
    <3>2. Signal(t) \/ Wake(t) => error' # "deadlock"
      BY <2>1 DEF Signal, Wake, wakeup
    <3> QED
      BY <1>2, <2>1, <3>1, <3>2 DEF Step, Begin, LockFree, LockBusy, PollAlways, PollSend,
             PollReceive, PollFails, Suspend, Wait, Unlock, schedVars
  <2> QED
    BY <2>2, <2>3, <2>4
<1>3. CASE Preempt
  BY <1>1, <1>3, ScheduleResult DEF Preempt, DeadInv
<1>4. CASE UNCHANGED vars
  BY <1>4 DEF vars, schedVars, DeadInv
<1> QED
  BY <1>2, <1>3, <1>4 DEF Next, Stopped

MissInv == CoreInv /\ OfferInv /\ MeetInv /\ DeadInv

LEMMA MissInductive == (Init => MissInv) /\ (MissInv /\ [Next]_vars => MissInv')
<1>1. Init => MissInv
  BY CoreInit, OfferInit DEF MissInv
<1>2. ASSUME MissInv, [Next]_vars PROVE MissInv'
  BY <1>2, CoreStep, OfferStep, MeetStep, DeadStep DEF MissInv, CoreInv
<1> QED
  BY <1>1, <1>2

LEMMA MissImplies == MissInv => NoMissedRendezvous
<1> SUFFICES ASSUME MissInv PROVE NoMissedRendezvous
  OBVIOUS
<1>1. /\ TypeOK /\ LockInv /\ SchedInv /\ WaitInv /\ CallInv /\ MeetInv /\ DeadInv
  BY DEF MissInv, CoreInv, TypeInv
<1>2. ASSUME error = "deadlock", NEW t \in Thread, status[t] = "SUSPENDED" PROVE Offering(t)
  <2>1. ASSUME NEW u \in Thread, pc[u] \in HolderPc \cup {"wake", "waitwake"} PROVE FALSE
    <3>1. status[u] = "KILLED" \/ status[u] = "SUSPENDED"
      BY <1>1, <1>2 DEF DeadInv, TypeOK
    <3> QED
      BY <1>1, <2>1, <3>1 DEF SchedInv, HolderPc
  <2>2. ~InSeq(t, waiting)
    <3>1. InSeq(t, waiting) => waiting # <<>>
      BY DEF InSeq
    <3> QED
      BY <1>1, <2>1, <3>1 DEF WaitInv, InWaiting, LockInv
  <2>3. \A u \in Thread : ~InSeq(t, towake[u])
    <3>1. \A u \in Thread : InSeq(t, towake[u]) => towake[u] # <<>>
      BY DEF InSeq
    <3> QED
      BY <1>1, <2>1, <3>1 DEF WaitInv, InTowake
  <2>4. <<t, Now(t)>> \in conds /\ Now(t) \in Nat
    BY <1>1, <1>2, <2>2, <2>3, NowType DEF WaitInv, Somewhere
  <2>5. pc[t] = "relock"
    BY <1>1, <2>4 DEF WaitInv, InConds
  <2>6. calls[t][Now(t)].performed = 0
    BY <1>1, <2>1, <2>4 DEF CallInv, Signalled, HolderPc
  <2> QED
    BY <2>5, <2>6 DEF Offering
<1> QED
  BY <1>1, <1>2 DEF NoMissedRendezvous, MeetInv

(* No rendez-vous is missed: two threads that wait in basic_sync never     *)
(* offer communications that could meet, whatever stale offers the queues  *)
(* of their channels hold, and the scheduler reports a deadlock only when  *)
(* every suspended thread waits for an offer that nobody makes.            *)
THEOREM RendezvousFound == Spec => []NoMissedRendezvous
<1>1. Spec => []MissInv
  BY MissInductive, PTL DEF Spec
<1> QED
  BY <1>1, MissImplies, PTL

-----------------------------------------------------------------------------
(***************************************************************************)
(* The channels implement the abstract ones.                               *)
(***************************************************************************)

(* Data arrives once, with the event that is performed. *)
OnceAt(t, k) ==
  \A e \in 1..Len(program[t][k].evs) : calls[t][k].data[e] # NoData =>
    calls[t][k].performed = e /\ EventOf(t, k, e).op = "receive"
OnceInv == \A t \in Thread : \A k \in 1..Now(t) : OnceAt(t, k)

(* A call that is being polled has not been performed. *)
LEMMA PollingUnmatched ==
  ASSUME TypeInv, CallInv, NEW t \in Thread, pc[t] = "poll"
  PROVE  Now(t) \in 1..Now(t) /\ Now(t) \in Nat /\ calls[t][Now(t)].performed = 0
<1>1. Now(t) \in Nat /\ Now(t) > 0
  BY NowType DEF TypeInv, InCall
<1> QED
  BY <1>1 DEF CallInv, Unmatched, UnmatchedPc

LEMMA OnceStep ==
  ASSUME CoreInv, OnceInv, [Next]_vars
  PROVE  OnceInv'
<1>1. /\ TypeInv /\ TypeOK /\ LockInv /\ CallInv /\ QueueInv /\ \A u \in Thread : Now(u) \in Nat
  BY NowType DEF CoreInv, TypeInv
<1>2. ASSUME NEW t \in Thread, Step(t) PROVE OnceInv'
  <2> SUFFICES ASSUME NEW u \in Thread, NEW k \in 1..Now(u)' PROVE OnceAt(u, k)'
    BY DEF OnceInv
  <2>1. program' = program /\ (k \in 1..Now(u) => OnceAt(u, k))
    BY <1>2, CallsUnchanged DEF OnceInv
  <2>2. k \in 1..Now(u) => \A e : EventOf(u, k, e)' = EventOf(u, k, e)
    BY <1>1, <1>2, SameEvent
  <2>3. k \in 1..Now(u) => Len(calls[u][k].data) = Len(program[u][k].evs)
    BY <1>1 DEF TypeOK
  <2>4. CASE Begin(t)
    <3>1. PICK p \in Scramblings(Len(program[t][Now(t) + 1].evs)) :
            CallAdded(calls, calls', t, NewCall(p))
      BY <1>1, <2>4, BeginEffect
    <3>2. CASE k \in 1..Now(u)
      <4>1. calls'[u][k] = calls[u][k]
        BY <3>1, <3>2 DEF CallAdded, Now
      <4> QED
        BY <2>1, <2>2, <3>2, <4>1 DEF OnceAt
    <3>3. CASE k \notin 1..Now(u)
      <4>1. u = t /\ k = Now(t) + 1
        BY <1>1, <3>1, <3>3 DEF CallAdded, Now
      <4>2. calls'[u][k] = NewCall(p) /\ DOMAIN p = 1..Len(program[u][k].evs)
        BY <3>1, <4>1 DEF CallAdded, Now, Scramblings
      <4>3. calls'[u][k].data = [e \in DOMAIN p |-> NoData]
        BY <4>2 DEF NewCall
      <4> QED
        BY <2>1, <4>2, <4>3 DEF OnceAt
    <3> QED
      BY <3>2, <3>3
  <2>5. CASE PollAlways(t) \/ PollFails(t)
    <3>1. PICK v : PerformedSet(calls, calls', t, Now(t), v)
      BY <1>1, <2>5, PerformEffect
    <3>2. /\ k \in 1..Now(u) /\ calls'[u][k].data = calls[u][k].data
          /\ calls'[u][k].performed = IF u = t /\ k = Now(t) THEN v ELSE calls[u][k].performed
      BY <3>1 DEF PerformedSet, Now
    <3>3. CASE u = t /\ k = Now(t)
      <4>1. calls[u][k].performed = 0
        BY <1>1, <2>5, <3>3, PollingUnmatched DEF PollAlways, PollFails, Polling, Running
      <4>2. \A e \in 1..Len(program[u][k].evs) : e # 0
        OBVIOUS
      <4> QED
        BY <2>1, <3>2, <4>1, <4>2 DEF OnceAt
    <3>4. CASE ~(u = t /\ k = Now(t))
      BY <2>1, <2>2, <3>2, <3>4 DEF OnceAt
    <3> QED
      BY <3>3, <3>4
  <2>6. CASE (PollSend(t) \/ PollReceive(t)) /\ Matched(t)
    <3> PICK o, r, v : o = First(t) /\ r = Reader(t) /\ v = Sent(t)
      OBVIOUS
    <3>1. /\ o.th \in Thread /\ o.th # t /\ o.call \in 1..Now(o.th)
          /\ GoodOffer(o, IF Ev(t).op = "send" THEN "receive" ELSE "send", Ev(t).ch)
      BY <1>1, <2>6, LivePartner
    <3>2. /\ MetCalls(t, o, r, v) /\ Performed(o) = 0 /\ pc[t] = "poll"
      BY <2>6 DEF Matched, PollSend, PollReceive, Polling, Running
    <3>3. k \in 1..Now(u)
      BY <3>2 DEF MetCalls
    <3>4. /\ calls'[u][k].performed =
               IF u = o.th /\ k = o.call THEN o.ev
               ELSE IF u = t /\ k = Now(t) THEN pos[t] ELSE calls[u][k].performed
          /\ \A i \in 1..Len(calls[u][k].data) :
               calls'[u][k].data[i] =
                 IF u = r.th /\ k = r.call /\ i = r.ev THEN v ELSE calls[u][k].data[i]
      <4>1. calls'[u][k].performed =
               IF u = o.th /\ k = o.call THEN o.ev
               ELSE IF u = t /\ k = Now(t) THEN pos[t] ELSE calls[u][k].performed
        BY <3>2, <3>3 DEF MetCalls
      <4>2. \A i \in 1..Len(calls[u][k].data) :
               calls'[u][k].data[i] =
                 IF u = r.th /\ k = r.call /\ i = r.ev THEN v ELSE calls[u][k].data[i]
        BY <3>2, <3>3 DEF MetCalls
      <4> QED
        BY <4>1, <4>2
    <3>5. (Ev(t).op = "send" /\ r = o) \/ (Ev(t).op = "receive" /\ r = Offer(t, pos[t]))
      BY <2>6 DEF PollSend, PollReceive, Reader
    <3>6. SUFFICES ASSUME NEW e \in 1..Len(program[u][k].evs), calls'[u][k].data[e] # NoData
                   PROVE  calls'[u][k].performed = e /\ EventOf(u, k, e).op = "receive"
      BY <2>1, <2>2, <3>3 DEF OnceAt
    <3>7. CASE u = r.th /\ k = r.call /\ e = r.ev
      <4>1. CASE Ev(t).op = "send" /\ r = o
        BY <3>1, <3>4, <3>7, <4>1 DEF GoodOffer
      <4>2. CASE Ev(t).op = "receive" /\ r = Offer(t, pos[t])
        <5>1. u = t /\ k = Now(t) /\ e = pos[t]
          BY <3>7, <4>2 DEF Offer
        <5> QED
          BY <3>1, <3>4, <4>2, <5>1 DEF Ev
      <4> QED
        BY <3>5, <4>1, <4>2
    <3>8. CASE ~(u = r.th /\ k = r.call /\ e = r.ev)
      <4>1. calls[u][k].data[e] # NoData
        BY <2>3, <3>3, <3>4, <3>6, <3>8
      <4>2. calls[u][k].performed = e /\ EventOf(u, k, e).op = "receive"
        BY <2>1, <3>3, <4>1 DEF OnceAt
      <4>3. e # 0
        OBVIOUS
      <4>4. ~(u = o.th /\ k = o.call) /\ ~(u = t /\ k = Now(t))
        BY <1>1, <3>2, <4>2, <4>3, PollingUnmatched DEF Performed
      <4> QED
        BY <3>4, <4>2, <4>4
    <3> QED
      BY <3>7, <3>8
  <2>7. CASE UNCHANGED calls
    BY <2>1, <2>2, <2>7 DEF OnceAt, Now
  <2> QED
    BY <1>1, <1>2, <2>4, <2>5, <2>6, <2>7, CallsUnchanged, PollStep DEF Missed, Miss
<1>3. CASE UNCHANGED <<program, calls>>
  <2>1. \A u, k : OnceAt(u, k) => OnceAt(u, k)'
    BY <1>3 DEF OnceAt, EventOf
  <2> QED
    BY <1>3, <2>1 DEF OnceInv, Now
<1>4. Preempt \/ UNCHANGED vars => UNCHANGED <<program, calls>>
  BY DEF Preempt, vars
<1> QED
  BY <1>2, <1>3, <1>4 DEF Next, Stopped

(* The calls of a thread that are over, and what they returned. *)
Over(t) == IF Now(t) > 0 /\ calls[t][Now(t)].performed = 0 THEN Now(t) - 1 ELSE Now(t)
Returned(c) ==
  IF c.performed = -1 THEN [ev |-> 0, data |-> NoData]
  ELSE [ev |-> c.order[c.performed], data |-> c.data[c.performed]]

LEMMA OutcomesAre == \A t : Outcomes(t) = [k \in 1..Over(t) |-> Returned(calls[t][k])]
BY DEF Outcomes, Over, Returned

LEMMA OutcomesAreNext == \A t : Outcomes(t)' = [k \in 1..Over(t)' |-> Returned(calls[t][k])']
BY DEF Outcomes, Over, Returned

(* The calls that are over are performed. *)
LEMMA OverType ==
  ASSUME CoreInv, NEW u \in Thread
  PROVE  /\ Now(u) \in Nat /\ Over(u) \in Nat /\ Over(u) <= Now(u)
         /\ \A k \in 1..Over(u) : k \in 1..Now(u) /\ calls[u][k].performed # 0
<1>1. TypeOK /\ CallInv /\ Now(u) \in Nat
  BY NowType DEF CoreInv, TypeInv
<1>2. Over(u) \in Nat /\ Over(u) <= Now(u)
  BY <1>1 DEF Over
<1>3. \A k \in 1..Over(u) : k \in 1..Now(u)
  BY <1>1, <1>2
<1>4. ASSUME NEW k \in 1..Over(u) PROVE calls[u][k].performed # 0
  <2>1. calls[u][k].performed = 0 => k = Now(u)
    BY <1>1, <1>3 DEF CallInv, Unmatched
  <2>2. calls[u][Now(u)].performed = 0 => Over(u) = Now(u) - 1 \/ Now(u) = 0
    BY <1>1 DEF Over
  <2> QED
    BY <1>1, <1>2, <2>1, <2>2
<1> QED
  BY <1>1, <1>2, <1>3, <1>4

(* The result of the k-th call of u does not change. *)
SameResult(u, k) ==
  /\ calls'[u][k].order = calls[u][k].order /\ calls'[u][k].performed = calls[u][k].performed
  /\ calls[u][k].performed \notin {-1, 0} =>
       calls'[u][k].data[calls[u][k].performed] = calls[u][k].data[calls[u][k].performed]

LEMMA ReturnedSame ==
  ASSUME CoreInv, NEW u \in Thread, NEW k \in 1..Over(u), SameResult(u, k)
  PROVE  Returned(calls'[u][k]) = Returned(calls[u][k])
<1>1. calls[u][k].performed # 0
  BY OverType
<1> QED
  BY <1>1 DEF SameResult, Returned

(* A step that leaves a thread's calls that are over alone ... *)
LEMMA ResultsSame ==
  ASSUME CoreInv, NEW u \in Thread, Over(u)' = Over(u), \A k \in 1..Over(u) : SameResult(u, k)
  PROVE  Outcomes(u)' = Outcomes(u)
<1>1. \A k \in 1..Over(u) : Returned(calls'[u][k]) = Returned(calls[u][k])
  BY ReturnedSame
<1>2. Outcomes(u)' = [k \in 1..Over(u) |-> Returned(calls'[u][k])]
  BY OutcomesAreNext DEF Returned
<1> QED
  BY <1>1, <1>2, OutcomesAre

(* ... and one that ends its current call. *)
LEMMA ResultAdded ==
  ASSUME CoreInv, NEW u \in Thread, Now(u) \in 1..Now(u), Now(u)' = Now(u),
         calls[u][Now(u)].performed = 0, calls'[u][Now(u)].performed # 0,
         \A k \in 1..Now(u) : k # Now(u) => SameResult(u, k)
  PROVE  /\ Outcomes(u)' = Append(Outcomes(u), Returned(calls'[u][Now(u)]))
         /\ Len(Outcomes(u)) = Now(u) - 1
<1>1. Now(u) \in Nat /\ Over(u) = Now(u) - 1 /\ Over(u)' = Now(u)
  BY OverType DEF Over
<1> PICK n, h, f : /\ n = Over(u) /\ h = Outcomes(u)' /\ f = Outcomes(u)
  OBVIOUS
<1>2. n \in Nat /\ Now(u) = n + 1
  BY <1>1
<1>3. h = [k \in 1..(n + 1) |-> Returned(calls'[u][k])]
  BY <1>1, <1>2, OutcomesAreNext DEF Returned
<1>4. f = [k \in 1..n |-> Returned(calls[u][k])]
  BY OutcomesAre
<1>5. \A k \in 1..n : Returned(calls'[u][k]) = Returned(calls[u][k])
  <2>1. \A k \in 1..n : k \in 1..Now(u) /\ k # Now(u)
    BY <1>2
  <2> QED
    BY <2>1, ReturnedSame
<1>6. f = [k \in 1..n |-> h[k]]
  <2>1. \A k \in 1..n : k \in 1..(n + 1)
    BY <1>2
  <2> QED
    BY <1>3, <1>4, <1>5, <2>1
<1>7. h = Append(f, h[n + 1])
  BY <1>2, <1>3, <1>6, AppendLast
<1>8. h[n + 1] = Returned(calls'[u][Now(u)])
  BY <1>2, <1>3
<1>9. Len(f) = n
  BY <1>2, <1>4
<1> QED
  BY <1>1, <1>7, <1>8, <1>9

-----------------------------------------------------------------------------
(***************************************************************************)
(* The steps of Rendezvous, in terms of the outcomes of Event's calls.     *)
(***************************************************************************)
OthersSame(S) == \A u \in Thread \ S : Outcomes(u)' = Outcomes(u)
InCallNow(u) == /\ Now(u) \in 1..Len(program[u]) /\ Len(Outcomes(u)) = Now(u) - 1
                /\ Now(u) \in Nat /\ Len(program[u]) \in Nat
Ends(u, e, d) == Outcomes(u)' = Append(Outcomes(u), [ev |-> e, data |-> d])

(* In a call, Rendezvous too has a call to make, and it is the same one. *)
LEMMA AbstractCall ==
  ASSUME NEW u \in Thread, InCallNow(u)
  PROVE  Abstract!Busy(u) /\ Abstract!Current(u) = program[u][Now(u)]
<1>1. [v \in Thread |-> Outcomes(v)][u] = Outcomes(u)
  OBVIOUS
<1>2. Len(Outcomes(u)) + 1 = Now(u) /\ Len(Outcomes(u)) < Len(program[u])
  BY DEF InCallNow
<1> QED
  BY <1>1, <1>2 DEF Abstract!Busy, Abstract!Current

LEMMA AbstractAlways ==
  ASSUME NEW t \in Thread, InCallNow(t), NEW e \in DOMAIN program[t][Now(t)].evs,
         program[t][Now(t)].evs[e].op = "always", Ends(t, e, NoData), OthersSame({t})
  PROVE  Abstract!Always(t)
<1>1. [u \in Thread |-> Outcomes(u)]' =
        [[u \in Thread |-> Outcomes(u)] EXCEPT ![t] = Append(@, [ev |-> e, data |-> NoData])]
  BY DEF Ends, OthersSame
<1> QED
  BY <1>1, AbstractCall DEF Abstract!Always, Abstract!Outcome

LEMMA AbstractNothing ==
  ASSUME NEW t \in Thread, InCallNow(t), ~program[t][Now(t)].blocking,
         Ends(t, 0, NoData), OthersSame({t})
  PROVE  Abstract!Nothing(t)
<1>1. [u \in Thread |-> Outcomes(u)]' =
        [[u \in Thread |-> Outcomes(u)] EXCEPT ![t] = Append(@, [ev |-> 0, data |-> NoData])]
  BY DEF Ends, OthersSame
<1> QED
  BY <1>1, AbstractCall DEF Abstract!Nothing, Abstract!Outcome

LEMMA AbstractMeeting ==
  ASSUME NEW s \in Thread, NEW r \in Thread, s # r, InCallNow(s), InCallNow(r),
         program[s][Now(s)].blocking \/ program[r][Now(r)].blocking,
         NEW i \in DOMAIN program[s][Now(s)].evs, NEW j \in DOMAIN program[r][Now(r)].evs,
         program[s][Now(s)].evs[i].op = "send", program[r][Now(r)].evs[j].op = "receive",
         program[s][Now(s)].evs[i].ch = program[r][Now(r)].evs[j].ch,
         Ends(s, i, NoData), Ends(r, j, program[s][Now(s)].evs[i].val), OthersSame({s, r})
  PROVE  Abstract!Meeting(s, r)
<1>1. [u \in Thread |-> Outcomes(u)]' =
        [[u \in Thread |-> Outcomes(u)] EXCEPT
           ![s] = Append(@, [ev |-> i, data |-> NoData]),
           ![r] = Append(@, [ev |-> j, data |-> program[s][Now(s)].evs[i].val])]
  BY DEF Ends, OthersSame
<1>2. /\ Abstract!Busy(s) /\ Abstract!Busy(r)
      /\ Abstract!Current(s) = program[s][Now(s)] /\ Abstract!Current(r) = program[r][Now(r)]
  BY AbstractCall
<1>3. /\ i \in DOMAIN Abstract!Current(s).evs /\ j \in DOMAIN Abstract!Current(r).evs
      /\ Abstract!Current(s).blocking \/ Abstract!Current(r).blocking
      /\ Abstract!Current(s).evs[i].op = "send" /\ Abstract!Current(r).evs[j].op = "receive"
      /\ Abstract!Current(s).evs[i].ch = Abstract!Current(r).evs[j].ch
      /\ [u \in Thread |-> Outcomes(u)]' =
           [[u \in Thread |-> Outcomes(u)] EXCEPT
              ![s] = Append(@, Abstract!Outcome(i, NoData)),
              ![r] = Append(@, Abstract!Outcome(j, Abstract!Current(s).evs[i].val))]
  BY <1>1, <1>2 DEF Abstract!Outcome
<1> QED
  BY <1>2, <1>3, Zenon DEF Abstract!Meeting

-----------------------------------------------------------------------------
(***************************************************************************)
(* Every step of Event is a step of Rendezvous or changes no outcome.      *)
(***************************************************************************)
LEMMA ResultsKept ==
  ASSUME CoreInv, NEW u \in Thread, Now(u)' = Now(u), \A k \in 1..Now(u) : SameResult(u, k)
  PROVE  Outcomes(u)' = Outcomes(u)
<1>1. Now(u) \in Nat /\ \A k \in 1..Over(u) : k \in 1..Now(u)
  BY OverType
<1>2. Over(u)' = Over(u)
  BY <1>1 DEF Over, SameResult
<1> QED
  BY <1>1, <1>2, ResultsSame

(* A call that has just been given the event e and, if it receives, d. *)
LEMMA CallEnds ==
  ASSUME CoreInv, NEW u \in Thread, Now(u) \in 1..Now(u), Now(u)' = Now(u),
         calls[u][Now(u)].performed = 0, calls'[u][Now(u)].performed # 0,
         \A k \in 1..Now(u) : k # Now(u) => SameResult(u, k),
         NEW e, NEW d, Returned(calls'[u][Now(u)]) = [ev |-> e, data |-> d]
  PROVE  InCallNow(u) /\ Ends(u, e, d)
<1>1. TypeOK /\ Now(u) \in Nat
  BY NowType DEF CoreInv, TypeInv
<1>2. Now(u) \in 1..Len(program[u]) /\ Len(program[u]) \in Nat
  BY <1>1, EventType, ProgramType DEF TypeOK
<1>3. /\ Outcomes(u)' = Append(Outcomes(u), Returned(calls'[u][Now(u)]))
      /\ Len(Outcomes(u)) = Now(u) - 1
  BY ResultAdded
<1> QED
  BY <1>1, <1>2, <1>3 DEF InCallNow, Ends

LEMMA RefinePerform ==
  ASSUME CoreInv, OnceInv, NEW t \in Thread, PollAlways(t) \/ PollFails(t)
  PROVE  Abstract!Always(t) \/ Abstract!Nothing(t)
<1>1. TypeInv /\ TypeOK /\ CallInv /\ \A u \in Thread : Now(u) \in Nat
  BY NowType DEF CoreInv, TypeInv
<1>2. /\ pc[t] = "poll" /\ Now(t) \in 1..Now(t) /\ calls[t][Now(t)].performed = 0
  BY <1>1, PollingUnmatched DEF PollAlways, PollFails, Polling, Running
<1>3. PICK v : /\ PerformedSet(calls, calls', t, Now(t), v)
               /\ PollAlways(t) => v = pos[t] /\ v \in 1..NumEvents(t)
               /\ ~PollAlways(t) => v = -1
  BY <1>1, PerformEffect
<1>4. v # 0
  BY <1>3
<1>5. /\ \A u \in Thread : Now(u)' = Now(u)
      /\ \A u \in Thread : \A k \in 1..Now(u) : ~(u = t /\ k = Now(t)) => SameResult(u, k)
      /\ calls'[t][Now(t)].performed = v
      /\ calls'[t][Now(t)].order = calls[t][Now(t)].order
      /\ calls'[t][Now(t)].data = calls[t][Now(t)].data
  <2>1. \A u \in Thread : Now(u)' = Now(u)
    BY <1>3 DEF PerformedSet, Now
  <2>2. ASSUME NEW u \in Thread, NEW k \in 1..Now(u)
        PROVE  /\ calls'[u][k].order = calls[u][k].order
               /\ calls'[u][k].data = calls[u][k].data
               /\ calls'[u][k].performed = IF u = t /\ k = Now(t) THEN v ELSE calls[u][k].performed
    BY <1>3 DEF PerformedSet, Now
  <2>3. ASSUME NEW u \in Thread, NEW k \in 1..Now(u), ~(u = t /\ k = Now(t))
        PROVE  SameResult(u, k)
    BY <2>2, <2>3 DEF SameResult
  <2>4. /\ calls'[t][Now(t)].performed = v
        /\ calls'[t][Now(t)].order = calls[t][Now(t)].order
        /\ calls'[t][Now(t)].data = calls[t][Now(t)].data
    BY <1>2, <2>2
  <2> QED
    BY <2>1, <2>3, <2>4
<1>6. OthersSame({t})
  <2> SUFFICES ASSUME NEW u \in Thread, u # t PROVE Outcomes(u)' = Outcomes(u)
    BY DEF OthersSame
  <2>1. Now(u)' = Now(u) /\ \A k \in 1..Now(u) : SameResult(u, k)
    BY <1>5
  <2> QED
    BY <2>1, ResultsKept
<1>7. CASE PollAlways(t)
  <2>1. v = pos[t] /\ v \in 1..Len(program[t][Now(t)].evs) /\ Ev(t).op = "always"
    BY <1>3, <1>7 DEF NumEvents, PollAlways
  <2>2. calls[t][Now(t)].data[v] = NoData
    <3>1. OnceAt(t, Now(t))
      BY <1>2 DEF OnceInv
    <3> QED
      BY <1>2, <1>4, <2>1, <3>1 DEF OnceAt
  <2> PICK e : e = calls[t][Now(t)].order[v]
    OBVIOUS
  <2>3. Returned(calls'[t][Now(t)]) = [ev |-> e, data |-> NoData]
    <3>1. v # -1
      BY <1>1, <2>1, EventType, <1>2
    <3> QED
      BY <1>5, <2>2, <3>1 DEF Returned
  <2>4. InCallNow(t) /\ Ends(t, e, NoData)
    BY <1>2, <1>4, <1>5, <2>3, CallEnds
  <2>5. e \in DOMAIN program[t][Now(t)].evs /\ program[t][Now(t)].evs[e].op = "always"
    <3>1. e \in 1..Len(program[t][Now(t)].evs) /\ Now(t) \in 1..Len(program[t])
      BY <1>1, <1>2, <2>1, EventType
    <3>2. program[t][Now(t)].evs \in Seq(BasicEvent)
      BY <1>1, <3>1, ProgramType DEF TypeOK
    <3>3. program[t][Now(t)].evs[e] = Ev(t)
      BY <2>1 DEF Ev, EventOf
    <3> QED
      BY <2>1, <3>1, <3>2, <3>3, LenProperties
  <2> QED
    BY <1>6, <2>4, <2>5, AbstractAlways
<1>8. CASE ~PollAlways(t)
  <2>1. v = -1 /\ ~program[t][Now(t)].blocking
    BY <1>3, <1>8 DEF PollFails
  <2>2. Returned(calls'[t][Now(t)]) = [ev |-> 0, data |-> NoData]
    BY <1>5, <2>1 DEF Returned
  <2>3. InCallNow(t) /\ Ends(t, 0, NoData)
    BY <1>2, <1>4, <1>5, <2>2, CallEnds
  <2> QED
    BY <1>6, <2>1, <2>3, AbstractNothing
<1> QED
  BY <1>7, <1>8

(* A new call has no outcome yet. *)
LEMMA RefineBegin ==
  ASSUME CoreInv, NEW t \in Thread, Begin(t), NEW u \in Thread
  PROVE  Outcomes(u)' = Outcomes(u)
<1>1. TypeInv /\ TypeOK /\ CallInv /\ Now(u) \in Nat /\ Now(t) \in Nat
  BY NowType DEF CoreInv, TypeInv
<1>2. PICK p : CallAdded(calls, calls', t, NewCall(p))
  BY <1>1, BeginEffect
<1>3. \A k \in 1..Now(u) : calls'[u][k] = calls[u][k]
  BY <1>2 DEF CallAdded, Now
<1>4. \A k \in 1..Now(u) : SameResult(u, k)
  BY <1>3 DEF SameResult
<1>5. CASE u # t
  BY <1>2, <1>4, <1>5, ResultsKept DEF CallAdded, Now
<1>6. CASE u = t
  <2>1. Now(t)' = Now(t) + 1 /\ calls'[t][Now(t) + 1].performed = 0
    BY <1>2 DEF CallAdded, Now, NewCall
  <2>2. Over(t)' = Now(t)
    BY <1>1, <2>1 DEF Over
  <2>3. Over(t) = Now(t)
    <3>1. pc[t] = "idle"
      BY DEF Begin, Running
    <3>2. Now(t) > 0 => Now(t) \in 1..Now(t)
      BY <1>1
    <3>3. \A k \in 1..Now(t) : calls[t][k].performed # 0
      BY <1>1, <3>1 DEF CallInv, Unmatched, UnmatchedPc
    <3> QED
      BY <1>1, <3>2, <3>3 DEF Over
  <2> QED
    BY <1>4, <1>6, <2>2, <2>3, ResultsSame
<1> QED
  BY <1>5, <1>6

(* What a rendez-vous gives to the e-th event of a call. *)
Gets(u, k, e, d, v) ==
  calls'[u][k].data[e] =
    IF u = d.th /\ k = d.call /\ e = d.ev THEN v ELSE calls[u][k].data[e]

(* In a rendez-vous the two calls end together: s sends, r receives. *)
LEMMA RefineMeet ==
  ASSUME CoreInv, OnceInv, NEW t \in Thread, PollSend(t) \/ PollReceive(t), Matched(t)
  PROVE  \E s, r \in Thread : Abstract!Meeting(s, r)
<1>1. /\ TypeInv /\ TypeOK /\ LockInv /\ CallInv /\ QueueInv /\ \A u \in Thread : Now(u) \in Nat
  BY NowType DEF CoreInv, TypeInv
<1> PICK o, d, v : o = First(t) /\ d = Reader(t) /\ v = Sent(t)
  OBVIOUS
<1>2. /\ o.th \in Thread /\ o.th # t /\ o.call = Now(o.th) /\ o.call \in 1..Now(o.th)
      /\ GoodOffer(o, IF Ev(t).op = "send" THEN "receive" ELSE "send", Ev(t).ch)
  BY <1>1, LivePartner
<1>3. /\ MetCalls(t, o, d, v) /\ ValidOffer(o) /\ calls[o.th][o.call].performed = 0
  BY DEF Matched, Performed
<1>4. /\ pc[t] = "poll" /\ Now(t) \in 1..Now(t) /\ calls[t][Now(t)].performed = 0
  BY <1>1, PollingUnmatched DEF PollSend, PollReceive, Polling, Running
<1> PICK w, q, i, j : w = o.th /\ q = o.ev /\ i = calls[t][Now(t)].order[pos[t]]
                      /\ j = calls[o.th][o.call].order[o.ev]
  OBVIOUS
<1>5. /\ w \in Thread /\ w # t /\ o.call = Now(w) /\ Now(w) \in 1..Now(w)
      /\ q \in 1..Len(program[w][Now(w)].evs) /\ calls[w][Now(w)].performed = 0
      /\ program[w][Now(w)].blocking
  BY <1>2, <1>3 DEF ValidOffer, GoodOffer
<1>6. pos[t] \in 1..Len(program[t][Now(t)].evs)
  BY <1>1, PollStep DEF NumEvents
<1>7. /\ \A u \in Thread : Now(u)' = Now(u)
      /\ calls'[t][Now(t)].performed = pos[t] /\ calls'[w][Now(w)].performed = q
      /\ calls'[t][Now(t)].order = calls[t][Now(t)].order
      /\ calls'[w][Now(w)].order = calls[w][Now(w)].order
  BY <1>3, <1>4, <1>5 DEF MetCalls
<1>8. \A u \in Thread : \A k \in 1..Now(u) : \A e \in 1..Len(program[u][k].evs) :
        Gets(u, k, e, d, v)
  <2>1. \A u \in Thread : \A k \in 1..Now(u) : Len(calls[u][k].data) = Len(program[u][k].evs)
    BY <1>1 DEF TypeOK
  <2>2. \A u \in Thread : \A k \in 1..Now(u) : \A e \in 1..Len(calls[u][k].data) :
          Gets(u, k, e, d, v)
    BY <1>3 DEF MetCalls, Gets
  <2> QED
    BY <2>1, <2>2
<1>9. ASSUME NEW u \in Thread, NEW k \in 1..Now(u), ~(u = t /\ k = Now(t)), ~(u = w /\ k = Now(w))
      PROVE  SameResult(u, k)
  <2>1. /\ calls'[u][k].order = calls[u][k].order
        /\ calls'[u][k].performed = calls[u][k].performed
    BY <1>3, <1>5, <1>9 DEF MetCalls
  <2>2. calls[u][k].performed \in -1..Len(program[u][k].evs) /\ Len(program[u][k].evs) \in Nat
    BY <1>1, EventType DEF TypeOK
  <2>3. ~(u = d.th /\ k = d.call)
    BY <1>5, <1>9 DEF Reader, Offer
  <2>4. calls[u][k].performed \notin {-1, 0} =>
           calls[u][k].performed \in 1..Len(program[u][k].evs)
    BY <2>2
  <2>5. calls[u][k].performed \notin {-1, 0} =>
           calls'[u][k].data[calls[u][k].performed] = calls[u][k].data[calls[u][k].performed]
    BY <1>8, <2>3, <2>4 DEF Gets
  <2> QED
    BY <2>1, <2>5 DEF SameResult
<1>10. OthersSame({t, w})
  <2> SUFFICES ASSUME NEW u \in Thread, u # t, u # w PROVE Outcomes(u)' = Outcomes(u)
    BY DEF OthersSame
  <2>1. Now(u)' = Now(u) /\ \A k \in 1..Now(u) : SameResult(u, k)
    BY <1>7, <1>9
  <2> QED
    BY <2>1, ResultsKept
<1>11. calls[t][Now(t)].data[pos[t]] = NoData /\ calls[w][Now(w)].data[q] = NoData
  <2>1. OnceAt(t, Now(t)) /\ OnceAt(w, Now(w))
    BY <1>4, <1>5 DEF OnceInv
  <2>2. pos[t] # 0 /\ q # 0
    BY <1>5, <1>6
  <2> QED
    BY <1>4, <1>5, <1>6, <2>1, <2>2 DEF OnceAt
<1>12. /\ Returned(calls'[t][Now(t)]) = [ev |-> i, data |-> calls'[t][Now(t)].data[pos[t]]]
       /\ Returned(calls'[w][Now(w)]) = [ev |-> j, data |-> calls'[w][Now(w)].data[q]]
  <2>1. pos[t] # -1 /\ q # -1
    BY <1>5, <1>6
  <2> QED
    BY <1>5, <1>7, <2>1 DEF Returned
<1>13. /\ InCallNow(t) /\ Ends(t, i, calls'[t][Now(t)].data[pos[t]])
       /\ InCallNow(w) /\ Ends(w, j, calls'[w][Now(w)].data[q])
  <2>1. pos[t] # 0 /\ q # 0
    BY <1>5, <1>6
  <2>2. /\ \A k \in 1..Now(t) : k # Now(t) => SameResult(t, k)
        /\ \A k \in 1..Now(w) : k # Now(w) => SameResult(w, k)
    BY <1>5, <1>9
  <2>3. InCallNow(t) /\ Ends(t, i, calls'[t][Now(t)].data[pos[t]])
    BY <1>4, <1>7, <1>12, <2>1, <2>2, CallEnds
  <2>4. InCallNow(w) /\ Ends(w, j, calls'[w][Now(w)].data[q])
    BY <1>5, <1>7, <1>12, <2>1, <2>2, CallEnds
  <2> QED
    BY <2>3, <2>4
<1> PICK P, W : P = program[t][Now(t)].evs /\ W = program[w][Now(w)].evs
  OBVIOUS
<1>14. /\ i \in DOMAIN P /\ j \in DOMAIN W /\ P[i] = Ev(t)
       /\ W[j].op = (IF Ev(t).op = "send" THEN "receive" ELSE "send") /\ W[j].ch = Ev(t).ch
       /\ EventOf(o.th, o.call, o.ev) = W[j]
  <2>1. /\ i \in 1..Len(P) /\ Now(t) \in 1..Len(program[t])
        /\ j \in 1..Len(W) /\ Now(w) \in 1..Len(program[w])
    BY <1>1, <1>4, <1>5, <1>6, EventType, ZenonT(60)
  <2>2. P \in Seq(BasicEvent) /\ W \in Seq(BasicEvent)
    BY <1>1, <1>5, <2>1, ProgramType DEF TypeOK
  <2>3. P[i] = Ev(t) /\ EventOf(o.th, o.call, o.ev) = W[j]
    BY <1>5 DEF Ev, EventOf
  <2> QED
    BY <1>2, <2>1, <2>2, <2>3, LenProperties, ZenonT(60) DEF GoodOffer
<1>15. /\ calls'[t][Now(t)].data[pos[t]] =
             (IF t = d.th /\ Now(t) = d.call /\ pos[t] = d.ev THEN v ELSE NoData)
       /\ calls'[w][Now(w)].data[q] =
             (IF w = d.th /\ Now(w) = d.call /\ q = d.ev THEN v ELSE NoData)
  <2>1. calls'[t][Now(t)].data[pos[t]] =
             (IF t = d.th /\ Now(t) = d.call /\ pos[t] = d.ev THEN v ELSE NoData)
    <3>1. Gets(t, Now(t), pos[t], d, v)
      BY <1>4, <1>6, <1>8
    <3> QED
      BY <1>11, <3>1 DEF Gets
  <2>2. calls'[w][Now(w)].data[q] =
             (IF w = d.th /\ Now(w) = d.call /\ q = d.ev THEN v ELSE NoData)
    <3>1. Gets(w, Now(w), q, d, v)
      BY <1>5, <1>8
    <3> QED
      BY <1>11, <3>1 DEF Gets
  <2> QED
    BY <2>1, <2>2
<1>16. CASE Ev(t).op = "send"
  <2>1. d = o /\ v = P[i].val
    BY <1>14, <1>16 DEF Reader, Sent
  <2>2. calls'[w][Now(w)].data[q] = v /\ calls'[t][Now(t)].data[pos[t]] = NoData
    BY <1>5, <1>15, <2>1
  <2>3. Ends(t, i, NoData) /\ Ends(w, j, P[i].val)
    BY <1>13, <2>1, <2>2
  <2>4. /\ program[t][Now(t)].evs[i].op = "send" /\ program[w][Now(w)].evs[j].op = "receive"
        /\ program[t][Now(t)].evs[i].ch = program[w][Now(w)].evs[j].ch
        /\ i \in DOMAIN program[t][Now(t)].evs /\ j \in DOMAIN program[w][Now(w)].evs
        /\ Ends(w, j, program[t][Now(t)].evs[i].val)
    BY <1>14, <1>16, <2>3
  <2>5. Abstract!Meeting(t, w)
    BY <1>5, <1>10, <1>13, <2>3, <2>4, AbstractMeeting
  <2> QED
    BY <1>5, <2>5
<1>17. CASE Ev(t).op = "receive"
  <2>1. d = Offer(t, pos[t]) /\ v = W[j].val
    BY <1>14, <1>17 DEF Reader, Sent
  <2>2. calls'[t][Now(t)].data[pos[t]] = v /\ calls'[w][Now(w)].data[q] = NoData
    <3>1. d.th = t /\ d.call = Now(t) /\ d.ev = pos[t]
      <4>1. d = [th |-> t, call |-> Now(t), ev |-> pos[t]]
        BY <2>1 DEF Offer
      <4> HIDE <2>1
      <4> QED
        BY <4>1
    <3> QED
      BY <1>5, <1>15, <3>1
  <2>3. Ends(w, j, NoData) /\ Ends(t, i, W[j].val)
    BY <1>13, <2>1, <2>2
  <2>4. OthersSame({w, t})
    BY <1>10 DEF OthersSame
  <2>5. /\ program[w][Now(w)].evs[j].op = "send" /\ program[t][Now(t)].evs[i].op = "receive"
        /\ program[w][Now(w)].evs[j].ch = program[t][Now(t)].evs[i].ch
        /\ i \in DOMAIN program[t][Now(t)].evs /\ j \in DOMAIN program[w][Now(w)].evs
        /\ Ends(t, i, program[w][Now(w)].evs[j].val)
    BY <1>14, <1>17, <2>3
  <2>6. Abstract!Meeting(w, t)
    BY <1>5, <1>13, <2>3, <2>4, <2>5, AbstractMeeting
  <2> QED
    BY <1>5, <2>6
<1> QED
  BY <1>16, <1>17 DEF PollSend, PollReceive

LEMMA RefineStep ==
  ASSUME CoreInv, OnceInv, [Next]_vars
  PROVE  [Abstract!Next]_<<program, [t \in Thread |-> Outcomes(t)]>>
<1> DEFINE R == [t \in Thread |-> Outcomes(t)]
<1>1. ASSUME program' = program, \A u \in Thread : Outcomes(u)' = Outcomes(u)
      PROVE  UNCHANGED <<program, R>>
  <2>1. R' = [u \in Thread |-> Outcomes(u)'] /\ R = [u \in Thread |-> Outcomes(u)]
    OBVIOUS
  <2>2. R' = R
    BY <1>1, <2>1
  <2> QED
    BY <1>1, <2>2
<1>2. ASSUME program' = program, calls' = calls PROVE UNCHANGED <<program, R>>
  <2>1. \A u \in Thread : Outcomes(u)' = Outcomes(u)
    BY <1>2 DEF Outcomes, Now
  <2> QED
    BY <1>1, <1>2, <2>1
<1>3. ASSUME NEW t \in Thread, Step(t) PROVE Abstract!Next \/ UNCHANGED <<program, R>>
  <2>1. program' = program /\ TypeInv
    BY <1>3, CallsUnchanged DEF CoreInv
  <2>2. CASE Begin(t)
    BY <1>1, <2>1, <2>2, RefineBegin
  <2>3. CASE PollAlways(t) \/ PollFails(t)
    BY <2>1, <2>3, RefinePerform DEF Abstract!Next
  <2>4. CASE (PollSend(t) \/ PollReceive(t)) /\ Matched(t)
    BY <2>1, <2>4, RefineMeet DEF Abstract!Next
  <2>5. CASE UNCHANGED calls
    BY <1>2, <2>1, <2>5
  <2> QED
    BY <1>3, <2>1, <2>2, <2>3, <2>4, <2>5, CallsUnchanged, PollStep DEF Missed, Miss
<1>4. Preempt \/ UNCHANGED vars => program' = program /\ calls' = calls
  BY DEF Preempt, vars
<1> QED
  BY <1>2, <1>3, <1>4 DEF Next, Stopped

LEMMA OnceInit == Init => OnceInv
BY DEF Init, OnceInv, Now

LEMMA RefineInit == Init => Abstract!Init
<1> SUFFICES ASSUME Init PROVE Abstract!Init
  OBVIOUS
<1>1. \A t \in Thread : Now(t) = 0
  BY DEF Init, Now
<1>2. \A t \in Thread : Outcomes(t) = <<>>
  <2>1. \A t \in Thread : Over(t) = 0
    BY <1>1 DEF Over
  <2> QED
    BY <2>1, OutcomesAre
<1> QED
  BY <1>2 DEF Abstract!Init

(* Event.sync and Event.poll over masterlock, the queues of offers and the *)
(* conditions implement synchronous channels: for every set of threads,    *)
(* every program, every scrambling of the events and every preemption,     *)
(* each step of the code either is invisible, or makes one call return for *)
(* an `always' event or with nothing, or completes one send and one        *)
(* receive on the same channel at once, with the sender's value.           *)
THEOREM ChannelsAreSynchronous == Spec => ImplementsRendezvous
<1>1. Init => CoreInv /\ OnceInv
  BY CoreInit, OnceInit
<1>2. CoreInv /\ OnceInv /\ [Next]_vars => CoreInv' /\ OnceInv'
  BY CoreStep, OnceStep
<1>3. CoreInv /\ OnceInv /\ [Next]_vars =>
        [Abstract!Next]_<<program, [t \in Thread |-> Outcomes(t)]>>
  BY RefineStep
<1> QED
  BY <1>1, <1>2, <1>3, RefineInit, PTL DEF Spec, ImplementsRendezvous, Abstract!Spec
=============================================================================
