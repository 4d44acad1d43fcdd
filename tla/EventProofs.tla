---------------------------- MODULE EventProofs ----------------------------
(***************************************************************************)
(* Proofs about Event, for every set of threads and channels, every        *)
(* program the threads run and every schedule.                             *)
(***************************************************************************)
EXTENDS Event, SeqLemmas

HolderPc == {"poll", "signal", "wait", "unlock"}
CriticalPc == {"locksleep", "relocksleep", "waitwake"}

(* masterlock has one holder, and a critical section is not preempted. *)
LockInv ==
  /\ \A t, u \in Thread : pc[t] \in HolderPc /\ pc[u] \in HolderPc => t = u
  /\ locked <=> \E t \in Thread : pc[t] \in HolderPc
  /\ \A t \in Thread : pc[t] \in CriticalPc => curr = t /\ critical

(* What the scheduler knows of a thread agrees with where it stands. *)
SchedInv ==
  /\ error # "wakeup"
  /\ error = "none" =>
       status[curr] = "RUNNABLE" \/ \A t \in Thread : status[t] = "KILLED"
  /\ \A t \in Thread :
       /\ status[t] = "KILLED" => pc[t] = "idle" /\ Now(t) = Len(program[t])
       /\ status[t] = "SUSPENDED" => pc[t] \in {"lock", "relock"}

SleepPc == {"locksleep", "relocksleep"}

(* A suspended thread is in exactly one place from which it is woken up:   *)
(* the list of the mutex, the list of a thread in the middle of            *)
(* Mutex.unlock, or its condition.                                         *)
InWaiting ==
  /\ waiting # <<>> => locked
  /\ Distinct(waiting)
  /\ \A t \in Thread :
       /\ InSeq(t, waiting) => status[t] = "SUSPENDED" \/ pc[t] \in SleepPc
       /\ pc[t] \in SleepPc => InSeq(t, waiting)
InTowake ==
  \A u \in Thread :
    /\ Distinct(towake[u])
    /\ towake[u] # <<>> => pc[u] \in {"wake", "waitwake"}
    /\ \A t \in Thread : InSeq(t, towake[u]) =>
         /\ status[t] = "SUSPENDED" /\ ~InSeq(t, waiting)
         /\ \A v \in Thread : InSeq(t, towake[v]) => u = v
InConds ==
  \A t \in Thread : \A k \in Nat : <<t, k>> \in conds =>
    /\ k = Now(t) /\ status[t] = "SUSPENDED" /\ pc[t] = "relock"
    /\ ~InSeq(t, waiting) /\ \A u \in Thread : ~InSeq(t, towake[u])
Somewhere ==
  \A t \in Thread : status[t] = "SUSPENDED" =>
    \/ InSeq(t, waiting)
    \/ \E u \in Thread : InSeq(t, towake[u])
    \/ <<t, Now(t)>> \in conds
WaitInv == InWaiting /\ InTowake /\ InConds /\ Somewhere

UnmatchedPc == {"lock", "locksleep", "poll", "wait", "waitwake"}

(* A call that nobody has matched yet is the thread's current one, and its *)
(* thread is on its way to the condition or waits on it; a thread whose    *)
(* call was matched is about to be signalled.                              *)
Unmatched ==
  \A t \in Thread :
    /\ pc[t] \in UnmatchedPc => calls[t][Now(t)].performed = 0
    /\ \A k \in 1..Now(t) : calls[t][k].performed = 0 =>
         /\ k = Now(t)
         /\ pc[t] \in UnmatchedPc \/ (pc[t] = "relock" /\ <<t, k>> \in conds)
Signalled ==
  \A t \in Thread : \A k \in Nat : <<t, k>> \in conds /\ calls[t][k].performed # 0 =>
    \E u \in Thread : pc[u] = "signal" /\ partner[u].th = t /\ partner[u].call = k
Partners ==
  \A t \in Thread :
    /\ pc[t] = "signal" => /\ partner[t] \in OfferType
                           /\ ValidOffer(partner[t]) /\ Performed(partner[t]) # 0
    /\ pc[t] # "signal" => partner[t] = NoOffer
CallInv == Unmatched /\ Signalled /\ Partners

(* A receive that was performed has got its data. *)
DataInv ==
  \A t \in Thread : \A k \in 1..Now(t) :
    LET e == calls[t][k].performed
    IN e > 0 /\ EventOf(t, k, e).op = "receive" => calls[t][k].data[e] # NoData

(* What the offers in the queue of the operation op on channel c are. *)
GoodOffer(o, op, c) ==
  /\ EventOf(o.th, o.call, o.ev).op = op /\ EventOf(o.th, o.call, o.ev).ch = c
  /\ program[o.th][o.call].blocking
  /\ o.call = Now(o.th) => pc[o.th] \notin {"lock", "locksleep", "poll"}

QueueInv ==
  \A c \in Chan : /\ \A i \in 1..Len(writes[c]) : GoodOffer(writes[c][i], "send", c)
                  /\ \A i \in 1..Len(reads[c]) : GoodOffer(reads[c][i], "receive", c)

-----------------------------------------------------------------------------
(***************************************************************************)
(* Operators.                                                              *)
(***************************************************************************)

(* The list of threads is circular and contains nothing but threads. *)
LEMMA RingType ==
  /\ Ring[1] \in Thread
  /\ \A t \in Thread, d \in Nat \ {0} : After(t, d) \in Thread
<1>1. Ring \in Seq(Thread) /\ Range(Ring) = Thread /\ Len(Ring) \in Nat \ {0}
  BY EventConstants, EmptySeq
<1>2. \A i \in 1..Len(Ring) : Ring[i] \in Thread
  BY <1>1, ElementOfSeq
<1>3. ASSUME NEW t \in Thread, NEW d \in Nat \ {0} PROVE After(t, d) \in Thread
  <2>1. \E i \in DOMAIN Ring : Ring[i] = t
    BY <1>1 DEF Range
  <2>2. IndexOf(t) \in 1..Len(Ring)
    BY <1>1, <2>1, LenProperties DEF IndexOf
  <2>3. IndexOf(t) + d - 1 \in Nat
    BY <2>2
  <2>4. (IndexOf(t) + d - 1) % Len(Ring) \in 0..(Len(Ring) - 1)
    BY <1>1, <2>3
  <2> QED
    BY <1>1, <1>2, <2>4 DEF After
<1> QED
  BY <1>1, <1>2, <1>3

(* What a program is. *)
LEMMA ProgramType ==
  ASSUME program \in Programs, NEW t \in Thread
  PROVE  /\ program[t] \in Seq(CallOf) /\ Len(program[t]) \in Nat
         /\ \A k \in 1..Len(program[t]) :
              /\ program[t][k].blocking \in BOOLEAN
              /\ program[t][k].evs \in Seq(BasicEvent)
              /\ Len(program[t][k].evs) \in Nat \ {0}
              /\ \A e \in 1..Len(program[t][k].evs) : program[t][k].evs[e] \in BasicEvent
<1>1. program[t] \in Seq(CallOf)
  BY EventConstants
<1>2. ASSUME NEW k \in 1..Len(program[t])
      PROVE  /\ program[t][k].blocking \in BOOLEAN
             /\ program[t][k].evs \in Seq(BasicEvent)
             /\ Len(program[t][k].evs) \in Nat \ {0}
             /\ \A e \in 1..Len(program[t][k].evs) : program[t][k].evs[e] \in BasicEvent
  <2>1. program[t][k] \in CallOf
    BY <1>1, ElementOfSeq
  <2>2. /\ program[t][k].blocking \in BOOLEAN
        /\ program[t][k].evs \in Seq(BasicEvent) /\ program[t][k].evs # <<>>
    BY <2>1 DEF CallOf
  <2> QED
    BY <2>2, EmptySeq, ElementOfSeq
<1> QED
  BY <1>1, <1>2, LenProperties

(* The events of a call, after scrambling. *)
LEMMA EventType ==
  ASSUME TypeOK, NEW t \in Thread, NEW k \in 1..Now(t)
  PROVE  /\ k \in 1..Len(program[t])
         /\ Len(program[t][k].evs) \in Nat \ {0}
         /\ \A e \in 1..Len(program[t][k].evs) :
              /\ calls[t][k].order[e] \in 1..Len(program[t][k].evs)
              /\ EventOf(t, k, e) \in BasicEvent
              /\ EventOf(t, k, e).ch \in Chan /\ EventOf(t, k, e).val \in Val
              /\ EventOf(t, k, e).op \in {"send", "receive", "always"}
<1>1. Now(t) \in Nat /\ k \in Nat \ {0} /\ k <= Len(program[t])
  <2>1. calls[t] \in Seq(CallRecord) /\ k <= Len(program[t])
    BY DEF TypeOK
  <2> QED
    BY <2>1, LenProperties DEF Now
<1>2. k \in 1..Len(program[t])
  BY <1>1, ProgramType DEF TypeOK
<1>3. /\ Len(program[t][k].evs) \in Nat \ {0}
      /\ \A e \in 1..Len(program[t][k].evs) : program[t][k].evs[e] \in BasicEvent
  BY <1>2, ProgramType DEF TypeOK
<1>4. calls[t][k].order \in [1..Len(program[t][k].evs) -> 1..Len(program[t][k].evs)]
  BY DEF TypeOK, Scramblings
<1> QED
  BY <1>2, <1>3, <1>4 DEF EventOf, BasicEvent

(* The first live offer of a queue, and what taking it leaves. *)
LEMMA TakeProperties ==
  ASSUME NEW q \in Seq(OfferType)
  PROVE  /\ FirstLive(q) \in 0..Len(q)
         /\ Live(q) # {} => /\ FirstLive(q) \in 1..Len(q)
                            /\ Performed(q[FirstLive(q)]) = 0
         /\ \A i \in 1..FirstLive(q) : Performed(q[i]) = 0 => i = FirstLive(q)
         /\ Taken(q) \in Seq(OfferType)
         /\ \A i \in 1..Len(Taken(q)) : \E j \in 1..Len(q) : Taken(q)[i] = q[j]
         /\ \A j \in 1..Len(q) : j > FirstLive(q) => InSeq(q[j], Taken(q))
         /\ Live(q) = {} => Taken(q) = <<>>
<1>1. Len(q) \in Nat /\ DOMAIN q = 1..Len(q)
  BY LenProperties
<1>2. CASE Live(q) # {}
  <2>1. Live(q) \in SUBSET Nat
    BY <1>1 DEF Live
  <2>2. \E i \in Live(q) : \A j \in Live(q) : i <= j
    BY <1>2, <2>1, LeastElement
  <2>3. FirstLive(q) \in Live(q) /\ \A j \in Live(q) : FirstLive(q) <= j
    BY <1>2, <2>2 DEF FirstLive
  <2> QED
    <3> DEFINE n == FirstLive(q)
    <3>1. n \in 1..Len(q) /\ Performed(q[n]) = 0
      BY <1>1, <2>3 DEF Live
    <3>2. \A i \in 1..n : Performed(q[i]) = 0 => i = n
      BY <1>1, <2>3, <3>1 DEF Live
    <3> HIDE DEF n
    <3>3. /\ SubSeq(q, n + 1, Len(q)) \in Seq(OfferType)
          /\ Len(SubSeq(q, n + 1, Len(q))) = Len(q) - n
          /\ \A i \in 1..(Len(q) - n) : SubSeq(q, n + 1, Len(q))[i] = q[n + i]
          /\ \A j \in 1..Len(q) : j > n => InSeq(q[j], SubSeq(q, n + 1, Len(q)))
      <4>1. n \in 0..Len(q)
        BY <1>1, <3>1
      <4> QED
        BY <4>1, InSuffix
    <3>4. \A i \in 1..(Len(q) - n) : n + i \in 1..Len(q)
      BY <1>1, <3>1
    <3>5. n \in 0..Len(q)
      BY <1>1, <3>1
    <3> QED
      BY <1>2, <3>1, <3>2, <3>3, <3>4, <3>5 DEF n, Taken
<1>3. CASE Live(q) = {}
  <2>1. FirstLive(q) = Len(q)
    BY <1>3 DEF FirstLive
  <2>2. Taken(q) = <<>>
    BY <1>1, <2>1, SubSeqEmpty DEF Taken
  <2>3. \A i \in 1..Len(q) : Performed(q[i]) # 0
    BY <1>1, <1>3 DEF Live
  <2>4. Taken(q) \in Seq(OfferType) /\ Len(Taken(q)) = 0
    BY <2>2, EmptySeq
  <2>5. \A i \in 1..Len(Taken(q)) : FALSE
    BY <2>4
  <2>6. \A j \in 1..Len(q) : ~(j > Len(q))
    BY <1>1
  <2>7. \A i \in 1..FirstLive(q) : Performed(q[i]) = 0 => i = FirstLive(q)
    BY <2>1, <2>3
  <2>8. \A j \in 1..Len(q) : j > FirstLive(q) => InSeq(q[j], Taken(q))
    BY <2>1, <2>6
  <2>9. FirstLive(q) \in 0..Len(q)
    BY <1>1, <2>1
  <2> QED
    BY <1>3, <2>2, <2>4, <2>5, <2>7, <2>8, <2>9
<1> QED
  BY <1>2, <1>3

(* Nth enumerates a finite set of numbers. *)
LEMMA NthEnumerates ==
  ASSUME NEW n \in Nat, NEW S \in SUBSET (1..n)
  PROVE  /\ Cardinality(S) \in Nat
         /\ \A i \in 1..Cardinality(S) : Nth(S, i) \in S
         /\ \A e \in S : \E i \in 1..Cardinality(S) : Nth(S, i) = e
<1> DEFINE below(e) == {x \in S : x <= e}
           rank == [e \in S |-> Cardinality(below(e))]
           m == Cardinality(S)
<1>1. IsFiniteSet(S) /\ m \in Nat
  <2>1. IsFiniteSet(1..n)
    BY FS_Interval
  <2> QED
    BY <2>1, FS_Subset, FS_CardinalityType
<1>2. ASSUME NEW e \in S
      PROVE  /\ IsFiniteSet(below(e)) /\ Cardinality(below(e)) \in 1..m
  <2>1. IsFiniteSet(below(e)) /\ Cardinality(below(e)) <= m
    BY <1>1, FS_Subset
  <2>2. Cardinality(below(e)) \in Nat
    BY <2>1, FS_CardinalityType
  <2>3. e \in below(e)
    OBVIOUS
  <2>4. Cardinality(below(e)) # 0
    BY <2>1, <2>3, FS_EmptySet
  <2> QED
    BY <1>1, <2>1, <2>2, <2>4
<1>3. ASSUME NEW d \in S, NEW e \in S, rank[d] = rank[e] PROVE d = e
  <2>1. d <= e \/ e <= d
    OBVIOUS
  <2>2. ASSUME NEW a \in S, NEW b \in S, a <= b, rank[a] = rank[b] PROVE a = b
    <3>1. below(a) \in SUBSET below(b)
      <4>1. \A x \in S : x \in Int /\ (x <= a => x <= b)
        BY <2>2
      <4> QED
        BY <4>1
    <3>2. below(a) = below(b)
      BY <1>2, <2>2, <3>1, FS_Subset
    <3>3. b \in below(b)
      OBVIOUS
    <3>4. b <= a
      BY <3>2, <3>3
    <3> QED
      BY <2>2, <3>4
  <2> QED
    BY <1>3, <2>1, <2>2
<1>4. rank \in Injection(S, 1..m)
  BY <1>2, <1>3 DEF Injection, IsInjective
<1>5. rank \in Surjection(S, 1..m)
  <2>1. IsFiniteSet(1..m) /\ Cardinality(1..m) = m
    BY <1>1, FS_Interval
  <2> QED
    BY <1>4, <2>1, FS_Injection
<1>6. ASSUME NEW i \in 1..m PROVE Nth(S, i) \in S /\ rank[Nth(S, i)] = i
  <2>1. \E e \in S : rank[e] = i
    BY <1>5 DEF Surjection
  <2> QED
    BY <2>1 DEF Nth
<1>7. ASSUME NEW e \in S PROVE \E i \in 1..m : Nth(S, i) = e
  <2>1. rank[e] \in 1..m
    BY <1>2
  <2>2. Nth(S, rank[e]) \in S /\ rank[Nth(S, rank[e])] = rank[e]
    BY <1>6, <2>1
  <2> QED
    BY <1>3, <2>1, <2>2
<1> QED
  BY <1>1, <1>6, <1>7

(* suspend offers the communications of the call with the operation op on  *)
(* the channel c, and no other.                                            *)
LEMMA OffersProperties ==
  ASSUME TypeOK, NEW t \in Thread, Now(t) > 0, NEW op, NEW c
  PROVE  /\ Offers(t, op, c) \in Seq(OfferType)
         /\ \A i \in 1..Len(Offers(t, op, c)) :
              \E e \in Matching(t, op, c) : Offers(t, op, c)[i] = Offer(t, e)
         /\ \A e \in Matching(t, op, c) : InSeq(Offer(t, e), Offers(t, op, c))
         /\ \A e \in Matching(t, op, c) :
              Offer(t, e) \in OfferType /\ ValidOffer(Offer(t, e))
<1> DEFINE S == Matching(t, op, c)
           m == Cardinality(S)
           q == [i \in 1..m |-> Offer(t, Nth(S, i))]
<1>1. Now(t) \in Nat \ {0} /\ Now(t) \in 1..Now(t)
  <2>1. calls[t] \in Seq(CallRecord)
    BY DEF TypeOK
  <2> QED
    BY <2>1, LenProperties DEF Now
<1>2. NumEvents(t) \in Nat \ {0}
  BY <1>1, EventType DEF NumEvents
<1>3. S \in SUBSET (1..NumEvents(t))
  BY DEF Matching
<1>4. /\ m \in Nat
      /\ \A i \in 1..m : Nth(S, i) \in S
      /\ \A e \in S : \E i \in 1..m : Nth(S, i) = e
  BY <1>2, <1>3, NthEnumerates
<1>5. \A e \in S : Offer(t, e) \in OfferType /\ ValidOffer(Offer(t, e))
  BY <1>1, <1>2, <1>3 DEF Offer, OfferType, ValidOffer, NumEvents
<1> HIDE DEF S, m
<1>6. q \in Seq(OfferType) /\ Len(q) = m
  BY <1>4, <1>5
<1>7. \A i \in 1..Len(q) : \E e \in S : q[i] = Offer(t, e)
  BY <1>4, <1>6
<1>8. \A e \in S : InSeq(Offer(t, e), q)
  BY <1>4, <1>6 DEF InSeq
<1> QED
  BY <1>5, <1>6, <1>7, <1>8 DEF S, m, Offers

(* The three ways a call's references are modified. *)
CallsType == [Thread -> Seq(CallRecord)]
PerformedSet(f, h, t, k, v) ==
  /\ h \in CallsType
  /\ \A u \in Thread : Len(h[u]) = Len(f[u])
  /\ \A u \in Thread : \A j \in 1..Len(f[u]) :
       /\ h[u][j].order = f[u][j].order /\ h[u][j].data = f[u][j].data
       /\ h[u][j].performed = IF u = t /\ j = k THEN v ELSE f[u][j].performed
DataSet(f, h, t, k, e, v) ==
  /\ h \in CallsType
  /\ \A u \in Thread : Len(h[u]) = Len(f[u])
  /\ \A u \in Thread : \A j \in 1..Len(f[u]) :
       /\ h[u][j].order = f[u][j].order
       /\ h[u][j].performed = f[u][j].performed
       /\ Len(h[u][j].data) = Len(f[u][j].data)
       /\ \A i \in 1..Len(f[u][j].data) :
            h[u][j].data[i] = IF u = t /\ j = k /\ i = e THEN v ELSE f[u][j].data[i]
CallAdded(f, h, t, r) ==
  /\ h \in CallsType
  /\ \A u \in Thread : Len(h[u]) = IF u = t THEN Len(f[t]) + 1 ELSE Len(f[u])
  /\ \A u \in Thread : \A j \in 1..Len(f[u]) : h[u][j] = f[u][j]
  /\ h[t][Len(f[t]) + 1] = r
WithPerformed(f, t, k, v) == [f EXCEPT ![t][k].performed = v]
WithData(f, t, k, e, v) == [f EXCEPT ![t][k].data[e] = v]
WithCall(f, t, r) == [f EXCEPT ![t] = Append(@, r)]

LEMMA SetPerformed ==
  ASSUME NEW f \in CallsType, NEW t \in Thread, NEW k \in 1..Len(f[t]), NEW v \in Int
  PROVE  PerformedSet(f, WithPerformed(f, t, k, v), t, k, v)
<1> DEFINE r == [f[t][k] EXCEPT !.performed = v]
           q == [f[t] EXCEPT ![k] = r]
           h == [f EXCEPT ![t] = q]
<1>1. f[t] \in Seq(CallRecord) /\ f[t][k] \in CallRecord
  BY ElementOfSeq DEF CallsType
<1>2. /\ r \in CallRecord /\ r.order = f[t][k].order /\ r.data = f[t][k].data
      /\ r.performed = v
  BY <1>1 DEF CallRecord
<1> HIDE DEF r
<1>3. /\ q \in Seq(CallRecord) /\ Len(q) = Len(f[t])
      /\ \A j \in 1..Len(f[t]) : q[j] = IF j = k THEN r ELSE f[t][j]
  BY <1>1, <1>2, ExceptSeq
<1> HIDE DEF q
<1>4. h \in CallsType /\ \A u \in Thread : h[u] = IF u = t THEN q ELSE f[u]
  BY <1>3 DEF CallsType
<1>5. WithPerformed(f, t, k, v) = h
  BY DEF h, q, r, WithPerformed
<1> HIDE DEF h
<1>6. \A u \in Thread : Len(h[u]) = Len(f[u])
  BY <1>3, <1>4
<1>7. ASSUME NEW u \in Thread, NEW j \in 1..Len(f[u])
      PROVE  /\ h[u][j].order = f[u][j].order /\ h[u][j].data = f[u][j].data
             /\ h[u][j].performed = IF u = t /\ j = k THEN v ELSE f[u][j].performed
  <2>1. CASE u = t /\ j = k
    BY <1>2, <1>3, <1>4, <2>1
  <2>2. CASE ~(u = t /\ j = k)
    BY <1>3, <1>4, <2>2
  <2> QED
    BY <2>1, <2>2
<1> QED
  BY <1>4, <1>5, <1>6, <1>7 DEF PerformedSet

LEMMA SetData ==
  ASSUME NEW f \in CallsType, NEW t \in Thread, NEW k \in 1..Len(f[t]),
         NEW e \in 1..Len(f[t][k].data), NEW v \in Val
  PROVE  DataSet(f, WithData(f, t, k, e, v), t, k, e, v)
<1> DEFINE d == [f[t][k].data EXCEPT ![e] = v]
           r == [f[t][k] EXCEPT !.data = d]
           q == [f[t] EXCEPT ![k] = r]
           h == [f EXCEPT ![t] = q]
<1>1. f[t] \in Seq(CallRecord) /\ f[t][k] \in CallRecord
  BY ElementOfSeq DEF CallsType
<1>2. f[t][k].data \in Seq(Val \cup {NoData})
  BY <1>1 DEF CallRecord
<1>3. /\ d \in Seq(Val \cup {NoData}) /\ Len(d) = Len(f[t][k].data)
      /\ \A i \in 1..Len(f[t][k].data) : d[i] = IF i = e THEN v ELSE f[t][k].data[i]
  BY <1>2, ExceptSeq
<1> HIDE DEF d
<1>4. /\ r \in CallRecord /\ r.order = f[t][k].order /\ r.data = d
      /\ r.performed = f[t][k].performed
  BY <1>1, <1>3 DEF CallRecord
<1> HIDE DEF r
<1>5. /\ q \in Seq(CallRecord) /\ Len(q) = Len(f[t])
      /\ \A j \in 1..Len(f[t]) : q[j] = IF j = k THEN r ELSE f[t][j]
  BY <1>1, <1>4, ExceptSeq
<1> HIDE DEF q
<1>6. h \in CallsType /\ \A u \in Thread : h[u] = IF u = t THEN q ELSE f[u]
  BY <1>5 DEF CallsType
<1>7. WithData(f, t, k, e, v) = h
  BY DEF h, q, r, d, WithData
<1> HIDE DEF h
<1>8. \A u \in Thread : Len(h[u]) = Len(f[u])
  BY <1>5, <1>6
<1>9. ASSUME NEW u \in Thread, NEW j \in 1..Len(f[u])
      PROVE  /\ h[u][j].order = f[u][j].order
             /\ h[u][j].performed = f[u][j].performed
             /\ Len(h[u][j].data) = Len(f[u][j].data)
             /\ \A i \in 1..Len(f[u][j].data) :
                  h[u][j].data[i] = IF u = t /\ j = k /\ i = e THEN v
                                    ELSE f[u][j].data[i]
  <2>1. CASE u = t /\ j = k
    <3>1. h[u][j] = r
      BY <1>5, <1>6, <2>1
    <3> QED
      BY <1>3, <1>4, <2>1, <3>1
  <2>2. CASE ~(u = t /\ j = k)
    <3>1. h[u][j] = f[u][j]
      BY <1>5, <1>6, <2>2
    <3> QED
      BY <2>2, <3>1
  <2> QED
    BY <2>1, <2>2
<1> QED
  BY <1>6, <1>7, <1>8, <1>9 DEF DataSet

LEMMA AddCall ==
  ASSUME NEW f \in CallsType, NEW t \in Thread, NEW r \in CallRecord
  PROVE  CallAdded(f, WithCall(f, t, r), t, r)
<1> DEFINE h == [f EXCEPT ![t] = Append(f[t], r)]
<1>1. f[t] \in Seq(CallRecord)
  BY DEF CallsType
<1>2. /\ Append(f[t], r) \in Seq(CallRecord) /\ Len(Append(f[t], r)) = Len(f[t]) + 1
      /\ \A j \in 1..Len(f[t]) : Append(f[t], r)[j] = f[t][j]
      /\ Append(f[t], r)[Len(f[t]) + 1] = r
  BY <1>1, AppendProperties
<1>3. h \in CallsType /\ \A u \in Thread : h[u] = IF u = t THEN Append(f[t], r) ELSE f[u]
  BY <1>2 DEF CallsType
<1> HIDE DEF h
<1>4. \A u \in Thread : \A j \in 1..Len(f[u]) : h[u][j] = f[u][j]
  BY <1>2, <1>3
<1>5. \A u \in Thread : Len(h[u]) = IF u = t THEN Len(f[t]) + 1 ELSE Len(f[u])
  BY <1>2, <1>3
<1>6. h[t][Len(f[t]) + 1] = r
  BY <1>2, <1>3
<1>7. WithCall(f, t, r) = h
  BY DEF h, WithCall
<1> QED
  BY <1>3, <1>4, <1>5, <1>6, <1>7 DEF CallAdded

(* A rendez-vous marks the two calls and gives the receiver its data. *)
MetCalls(t, o, reader, val) ==
  /\ calls' \in CallsType
  /\ \A u \in Thread : Now(u)' = Now(u)
  /\ \A u \in Thread : \A k \in 1..Now(u) :
       /\ calls'[u][k].order = calls[u][k].order
       /\ calls'[u][k].performed =
            IF u = o.th /\ k = o.call THEN o.ev
            ELSE IF u = t /\ k = Now(t) THEN pos[t] ELSE calls[u][k].performed
       /\ Len(calls'[u][k].data) = Len(calls[u][k].data)
       /\ \A e \in 1..Len(calls[u][k].data) :
            calls'[u][k].data[e] =
              IF u = reader.th /\ k = reader.call /\ e = reader.ev THEN val
              ELSE calls[u][k].data[e]

LEMMA MeetEffect ==
  ASSUME TypeOK, NEW t \in Thread, Now(t) > 0, pos[t] \in 1..NumEvents(t),
         NEW o \in OfferType, ValidOffer(o),
         NEW reader \in OfferType, ValidOffer(reader), NEW val \in Val,
         Meet(t, o, reader, val)
  PROVE  MetCalls(t, o, reader, val)
<1> PICK a, b, c : a = reader.th /\ b = reader.call /\ c = reader.ev
  OBVIOUS
<1> PICK x, y, z : x = o.th /\ y = o.call /\ z = o.ev
  OBVIOUS
<1> DEFINE f == WithData(calls, a, b, c, val)
           g == WithPerformed(f, t, Now(t), pos[t])
           h == WithPerformed(g, x, y, z)
<1>1. calls' = h
  BY DEF Meet, WithPerformed, WithData
<1>2. /\ calls \in CallsType
      /\ a \in Thread /\ b \in 1..Len(calls[a])
      /\ c \in 1..Len(calls[a][b].data)
  BY DEF TypeOK, CallsType, ValidOffer, OfferType, Now
<1>3. DataSet(calls, f, a, b, c, val)
  BY <1>2, SetData
<1> HIDE DEF f
<1>4. Now(t) \in 1..Len(f[t]) /\ pos[t] \in Int
  <2>1. Len(calls[t]) \in Nat
    BY <1>2, LenProperties DEF CallsType
  <2> QED
    BY <1>3, <2>1 DEF Now, DataSet
<1>5. PerformedSet(f, g, t, Now(t), pos[t])
  <2>1. f \in CallsType
    BY <1>3 DEF DataSet
  <2> QED
    BY <2>1, <1>4, SetPerformed
<1> HIDE DEF g
<1>6. x \in Thread /\ y \in 1..Len(g[x]) /\ z \in Int
  BY <1>3, <1>5 DEF OfferType, ValidOffer, Now, DataSet, PerformedSet
<1>7. PerformedSet(g, h, x, y, z)
  <2>1. g \in CallsType
    BY <1>5 DEF PerformedSet
  <2> QED
    BY <2>1, <1>6, SetPerformed
<1> HIDE DEF h
<1>8. \A u \in Thread : Now(u)' = Now(u)
  BY <1>1, <1>3, <1>5, <1>7 DEF Now, DataSet, PerformedSet
<1>9. ASSUME NEW u \in Thread, NEW k \in 1..Now(u)
      PROVE  /\ calls'[u][k].order = calls[u][k].order
             /\ calls'[u][k].performed =
                  IF u = o.th /\ k = o.call THEN o.ev
                  ELSE IF u = t /\ k = Now(t) THEN pos[t] ELSE calls[u][k].performed
             /\ Len(calls'[u][k].data) = Len(calls[u][k].data)
             /\ \A e \in 1..Len(calls[u][k].data) :
                  calls'[u][k].data[e] =
                    IF u = reader.th /\ k = reader.call /\ e = reader.ev THEN val
                    ELSE calls[u][k].data[e]
  <2>1. k \in 1..Len(calls[u]) /\ k \in 1..Len(f[u]) /\ k \in 1..Len(g[u])
    BY <1>3, <1>5 DEF Now, DataSet, PerformedSet
  <2>2. /\ h[u][k].order = calls[u][k].order /\ h[u][k].data = f[u][k].data
        /\ h[u][k].performed =
                  IF u = o.th /\ k = o.call THEN o.ev
                  ELSE IF u = t /\ k = Now(t) THEN pos[t] ELSE calls[u][k].performed
    <3>1. /\ f[u][k].order = calls[u][k].order
          /\ f[u][k].performed = calls[u][k].performed
      BY <2>1, <1>3 DEF DataSet
    <3>2. /\ g[u][k].order = f[u][k].order /\ g[u][k].data = f[u][k].data
          /\ g[u][k].performed = IF u = t /\ k = Now(t) THEN pos[t] ELSE f[u][k].performed
      BY <2>1, <1>5 DEF PerformedSet
    <3>3. /\ h[u][k].order = g[u][k].order /\ h[u][k].data = g[u][k].data
          /\ h[u][k].performed = IF u = x /\ k = y THEN z ELSE g[u][k].performed
      BY <2>1, <1>7 DEF PerformedSet
    <3> QED
      BY <3>1, <3>2, <3>3
  <2>3. /\ Len(f[u][k].data) = Len(calls[u][k].data)
        /\ \A e \in 1..Len(calls[u][k].data) :
             f[u][k].data[e] =
               IF u = a /\ k = b /\ e = c THEN val ELSE calls[u][k].data[e]
    BY <2>1, <1>3 DEF DataSet
  <2> QED
    BY <2>2, <2>3, <1>1
<1> QED
  BY <1>1, <1>7, <1>8, <1>9 DEF PerformedSet, MetCalls

-----------------------------------------------------------------------------
(***************************************************************************)
(* Type correctness.                                                       *)
(***************************************************************************)

(* A thread that is not idle is in a call. *)
InCall == \A t \in Thread : pc[t] # "idle" => Now(t) > 0
TypeInv == TypeOK /\ InCall

PlainOK ==
  /\ program \in Programs /\ preemptive \in PreemptModes
  /\ curr \in Thread /\ critical \in BOOLEAN /\ locked \in BOOLEAN
  /\ status \in [Thread -> {"RUNNABLE", "SUSPENDED", "KILLED"}]
  /\ error \in {"none", "deadlock", "wakeup", "result"}
  /\ pc \in [Thread -> Pcs]
  /\ pos \in [Thread -> Nat \ {0}]
  /\ partner \in [Thread -> OfferType \cup {NoOffer}]
  /\ waiting \in Seq(Thread) /\ towake \in [Thread -> Seq(Thread)]
  /\ conds \subseteq Thread \X Nat

CallOK(t, k) ==
  /\ k <= Len(program[t])
  /\ calls[t][k].order \in Scramblings(Len(program[t][k].evs))
  /\ calls[t][k].performed \in -1..Len(program[t][k].evs)
  /\ Len(calls[t][k].data) = Len(program[t][k].evs)
CallsOK == calls \in CallsType /\ \A t \in Thread : \A k \in 1..Now(t) : CallOK(t, k)

QueueOK(q) == q \in Seq(OfferType) /\ \A i \in 1..Len(q) : ValidOffer(q[i])
QueuesOK ==
  /\ writes \in [Chan -> Seq(OfferType)] /\ reads \in [Chan -> Seq(OfferType)]
  /\ \A c \in Chan : QueueOK(writes[c]) /\ QueueOK(reads[c])

LEMMA TypeParts == TypeOK <=> PlainOK /\ CallsOK /\ QueuesOK
<1>1. TypeOK => PlainOK
  BY DEF TypeOK, PlainOK
<1>2. TypeOK => CallsOK
  BY DEF TypeOK, CallsOK, CallOK, CallsType
<1>3. TypeOK => QueuesOK
  BY DEF TypeOK, QueuesOK, QueueOK
<1>4. PlainOK /\ CallsOK /\ QueuesOK => TypeOK
  BY DEF TypeOK, PlainOK, CallsOK, CallOK, CallsType, QueuesOK, QueueOK
<1> QED
  BY <1>1, <1>2, <1>3, <1>4

LEMMA TypePartsNext == TypeOK' <=> PlainOK' /\ CallsOK' /\ QueuesOK'
BY TypeParts, PTL

LEMMA NowType ==
  ASSUME TypeOK, NEW t \in Thread
  PROVE  Now(t) \in Nat /\ (Now(t) > 0 => Now(t) \in 1..Now(t) /\ NumEvents(t) \in Nat \ {0})
<1>1. Now(t) \in Nat
  BY LenProperties DEF TypeOK, Now
<1>2. Now(t) > 0 => Now(t) \in 1..Now(t)
  BY <1>1
<1> QED
  BY <1>1, <1>2, EventType DEF NumEvents

(* The queue that poll_events looks into, the offer it finds, the event    *)
(* that receives the data, and the data.                                   *)
Peers(t) == IF Ev(t).op = "send" THEN reads[Ev(t).ch] ELSE writes[Ev(t).ch]
First(t) == Peers(t)[FirstLive(Peers(t))]
Reader(t) == IF Ev(t).op = "send" THEN First(t) ELSE Offer(t, pos[t])
Sent(t) ==
  IF Ev(t).op = "send" THEN Ev(t).val
  ELSE EventOf(First(t).th, First(t).call, First(t).ev).val

Missed(t) == Live(Peers(t)) = {} /\ Miss(t)
Matched(t) ==
  /\ Live(Peers(t)) # {}
  /\ First(t) \in OfferType /\ ValidOffer(First(t)) /\ Performed(First(t)) = 0
  /\ FirstLive(Peers(t)) \in 1..Len(Peers(t))
  /\ Reader(t) \in OfferType /\ ValidOffer(Reader(t)) /\ Sent(t) \in Val
  /\ MetCalls(t, First(t), Reader(t), Sent(t))
  /\ partner' = [partner EXCEPT ![t] = First(t)]
  /\ Goto(t, "signal") /\ UNCHANGED pos

Shrunk(q, r) == /\ r \in Seq(OfferType)
                /\ \A i \in 1..Len(r) : \E j \in 1..Len(q) : r[i] = q[j]

LEMMA PollStep ==
  ASSUME TypeInv, NEW t \in Thread, PollSend(t) \/ PollReceive(t)
  PROVE  /\ Now(t) > 0 /\ pos[t] \in 1..NumEvents(t)
         /\ Ev(t) \in BasicEvent /\ Ev(t).ch \in Chan
         /\ Peers(t) \in Seq(OfferType)
         /\ Missed(t) \/ Matched(t)
         /\ writes' \in [Chan -> Seq(OfferType)] /\ reads' \in [Chan -> Seq(OfferType)]
         /\ \A c \in Chan : Shrunk(writes[c], writes'[c]) /\ Shrunk(reads[c], reads'[c])
<1>1. TypeOK /\ Now(t) > 0 /\ Now(t) \in 1..Now(t)
  BY NowType DEF TypeInv, InCall, PollSend, PollReceive, Polling, Running
<1>2. pos[t] \in 1..NumEvents(t)
  <2>1. pos[t] \in Nat \ {0}
    BY <1>1 DEF TypeOK
  <2>2. NumEvents(t) \in Nat \ {0}
    BY <1>1, NowType
  <2>3. pos[t] <= NumEvents(t)
    BY DEF PollSend, PollReceive, Polling
  <2> QED
    BY <2>1, <2>2, <2>3
<1>3. Ev(t) \in BasicEvent /\ Ev(t).ch \in Chan /\ Ev(t).val \in Val
  BY <1>1, <1>2, EventType DEF Ev, NumEvents
<1>4. QueueOK(Peers(t))
  BY <1>1, <1>3, TypeParts DEF QueuesOK, Peers
<1>5. Peers(t) \in Seq(OfferType)
  BY <1>4 DEF QueueOK
<1>6. /\ Taken(Peers(t)) \in Seq(OfferType)
      /\ Shrunk(Peers(t), Taken(Peers(t)))
  BY <1>5, TakeProperties DEF Shrunk
<1>7. /\ writes' \in [Chan -> Seq(OfferType)] /\ reads' \in [Chan -> Seq(OfferType)]
      /\ \A c \in Chan : Shrunk(writes[c], writes'[c]) /\ Shrunk(reads[c], reads'[c])
  <2>1. writes \in [Chan -> Seq(OfferType)] /\ reads \in [Chan -> Seq(OfferType)]
    BY <1>1 DEF TypeOK
  <2>2. \A c \in Chan : Shrunk(writes[c], writes[c]) /\ Shrunk(reads[c], reads[c])
    BY <2>1 DEF Shrunk
  <2>3. CASE PollSend(t)
    <3>1. Peers(t) = reads[Ev(t).ch]
      BY <2>3 DEF PollSend, Peers
    <3>2. reads' = [reads EXCEPT ![Ev(t).ch] = Taken(Peers(t))] /\ writes' = writes
      BY <2>3, <3>1 DEF PollSend
    <3> QED
      BY <1>3, <1>6, <2>1, <2>2, <3>1, <3>2
  <2>4. CASE PollReceive(t)
    <3>1. Peers(t) = writes[Ev(t).ch]
      BY <2>4 DEF PollReceive, Peers
    <3>2. writes' = [writes EXCEPT ![Ev(t).ch] = Taken(Peers(t))] /\ reads' = reads
      BY <2>4, <3>1 DEF PollReceive
    <3> QED
      BY <1>3, <1>6, <2>1, <2>2, <3>1, <3>2
  <2> QED
    BY <2>3, <2>4
<1>8. \/ Live(Peers(t)) # {} /\ Meet(t, First(t), Reader(t), Sent(t))
      \/ Missed(t)
  BY DEF PollSend, PollReceive, Peers, First, Reader, Sent, Missed
<1>9. ASSUME Live(Peers(t)) # {}, Meet(t, First(t), Reader(t), Sent(t)) PROVE Matched(t)
  <2>1. FirstLive(Peers(t)) \in 1..Len(Peers(t)) /\ Performed(First(t)) = 0
    BY <1>5, <1>9, TakeProperties DEF First
  <2>2. First(t) \in OfferType /\ ValidOffer(First(t))
    BY <1>4, <1>5, <2>1, ElementOfSeq DEF QueueOK, First
  <2>3. Offer(t, pos[t]) \in OfferType /\ ValidOffer(Offer(t, pos[t]))
    BY <1>1, <1>2, NowType DEF Offer, OfferType, ValidOffer, NumEvents
  <2>4. Reader(t) \in OfferType /\ ValidOffer(Reader(t))
    BY <2>2, <2>3 DEF Reader
  <2>5. EventOf(First(t).th, First(t).call, First(t).ev).val \in Val
    BY <1>1, <2>2, EventType DEF ValidOffer, OfferType
  <2>6. Sent(t) \in Val
    BY <1>3, <2>5 DEF Sent
  <2>7. MetCalls(t, First(t), Reader(t), Sent(t))
    BY <1>1, <1>2, <1>9, <2>2, <2>4, <2>6, MeetEffect
  <2> QED
    BY <1>9, <2>1, <2>2, <2>4, <2>6, <2>7 DEF Matched, Meet
<1> QED
  BY <1>1, <1>2, <1>3, <1>5, <1>7, <1>8, <1>9

NewCall(p) == [order |-> p, performed |-> 0, data |-> [e \in DOMAIN p |-> NoData]]

(* How a step changes the references of the calls. *)
LEMMA BeginEffect ==
  ASSUME TypeInv, NEW t \in Thread, Begin(t)
  PROVE  /\ Now(t) + 1 \in 1..Len(program[t])
         /\ \E p \in Scramblings(Len(program[t][Now(t) + 1].evs)) :
              /\ CallAdded(calls, calls', t, NewCall(p))
              /\ NewCall(p) \in CallRecord
              /\ Len(NewCall(p).data) = Len(program[t][Now(t) + 1].evs)
<1> DEFINE n == Len(program[t][Now(t) + 1].evs)
<1>1. TypeOK /\ Now(t) \in Nat /\ Now(t) < Len(program[t]) /\ calls \in CallsType
  BY NowType DEF TypeInv, TypeOK, CallsType, Begin
<1>2. Now(t) + 1 \in 1..Len(program[t])
  BY <1>1, ProgramType DEF TypeOK
<1>3. n \in Nat
  BY <1>1, <1>2, ProgramType DEF TypeOK
<1> HIDE DEF n
<1>4. PICK p \in Scramblings(n) : calls' = [calls EXCEPT ![t] = Append(@, NewCall(p))]
  BY DEF Begin, NewCall, n
<1>5. p \in [1..n -> 1..n] /\ DOMAIN p = 1..n /\ p \in Seq(Nat)
  BY <1>3, <1>4 DEF Scramblings
<1> DEFINE d == [e \in DOMAIN p |-> NoData]
<1>6. d \in Seq(Val \cup {NoData}) /\ Len(d) = n
  BY <1>3, <1>5
<1>7. NewCall(p) \in CallRecord /\ Len(NewCall(p).data) = n
  <2>1. NewCall(p) = [order |-> p, performed |-> 0, data |-> d]
    BY DEF NewCall
  <2> HIDE DEF d
  <2> QED
    BY <1>5, <1>6, <2>1 DEF CallRecord
<1>8. CallAdded(calls, WithCall(calls, t, NewCall(p)), t, NewCall(p))
  BY <1>1, <1>7, AddCall
<1>9. calls' = WithCall(calls, t, NewCall(p))
  BY <1>4 DEF WithCall
<1> QED
  BY <1>2, <1>4, <1>7, <1>8, <1>9 DEF n

LEMMA PerformEffect ==
  ASSUME TypeInv, NEW t \in Thread, PollAlways(t) \/ PollFails(t)
  PROVE  /\ Now(t) \in 1..Now(t)
         /\ PollAlways(t) => /\ PerformedSet(calls, calls', t, Now(t), pos[t])
                             /\ pos[t] \in 1..NumEvents(t)
         /\ PollFails(t) => PerformedSet(calls, calls', t, Now(t), -1)
<1>1. TypeOK /\ Now(t) > 0 /\ Now(t) \in 1..Now(t) /\ calls \in CallsType
  BY NowType DEF TypeInv, InCall, TypeOK, CallsType, PollAlways, PollFails, Polling, Running
<1>2. PollAlways(t) => pos[t] \in 1..NumEvents(t)
  BY <1>1, NowType DEF TypeOK, PollAlways, Polling
<1>3. ASSUME PollAlways(t) PROVE PerformedSet(calls, calls', t, Now(t), pos[t])
  <2>1. calls' = WithPerformed(calls, t, Now(t), pos[t])
    BY <1>3 DEF PollAlways, WithPerformed
  <2>2. Now(t) \in 1..Len(calls[t]) /\ pos[t] \in Int
    BY <1>1, <1>2, <1>3 DEF Now
  <2> QED
    BY <1>1, <2>1, <2>2, SetPerformed
<1>4. ASSUME PollFails(t) PROVE PerformedSet(calls, calls', t, Now(t), -1)
  <2>1. calls' = WithPerformed(calls, t, Now(t), -1)
    BY <1>4 DEF PollFails, WithPerformed
  <2>2. Now(t) \in 1..Len(calls[t]) /\ -1 \in Int
    BY <1>1 DEF Now
  <2> QED
    BY <1>1, <2>1, <2>2, SetPerformed
<1> QED
  BY <1>1, <1>2, <1>3, <1>4

(* Those are the only steps that do; none changes the program. *)
LEMMA CallsUnchanged ==
  ASSUME NEW t \in Thread, Step(t)
  PROVE  /\ UNCHANGED <<program, preemptive>>
         /\ Begin(t) \/ PollAlways(t) \/ PollFails(t) \/ PollSend(t) \/ PollReceive(t)
            \/ UNCHANGED calls
BY DEF Step, Begin, LockFree, LockBusy, LockSleep, PollAlways, PollSend, PollReceive, Signal,
       PollFails, Suspend, Wait, Unlock, Wake, WaitSleep, Result, Exit

(* A step adds at most one call, to the current thread, and reorders none. *)
CallsGrow(t) ==
  /\ calls' \in CallsType
  /\ \A u \in Thread : Now(u)' \in Nat /\ Now(u) <= Now(u)' /\ (u # t => Now(u)' = Now(u))
  /\ \A u \in Thread : \A k \in 1..Now(u) : calls'[u][k].order = calls[u][k].order

LEMMA CallsGrowStep ==
  ASSUME TypeInv, NEW t \in Thread, Step(t)
  PROVE  CallsGrow(t) /\ (~Begin(t) => \A u \in Thread : Now(u)' = Now(u))
<1>1. TypeOK /\ calls \in CallsType /\ \A u \in Thread : Now(u) \in Nat
  BY NowType DEF TypeInv, TypeOK, CallsType
<1>2. CASE Begin(t)
  <2>1. PICK p : CallAdded(calls, calls', t, NewCall(p))
    BY <1>2, BeginEffect
  <2> QED
    BY <1>1, <1>2, <2>1 DEF CallsGrow, CallAdded, Now
<1>3. CASE PollAlways(t) \/ PollFails(t)
  <2>1. PICK v : PerformedSet(calls, calls', t, Now(t), v)
    BY <1>3, PerformEffect
  <2> QED
    BY <1>1, <2>1 DEF CallsGrow, PerformedSet, Now
<1>4. CASE PollSend(t) \/ PollReceive(t)
  <2>1. UNCHANGED calls \/ \E o, r, v : MetCalls(t, o, r, v)
    BY <1>4, PollStep DEF Missed, Miss, Matched
  <2>2. CASE UNCHANGED calls
    BY <1>1, <2>2 DEF CallsGrow, Now
  <2>3. CASE \E o, r, v : MetCalls(t, o, r, v)
    BY <1>1, <2>3 DEF CallsGrow, MetCalls
  <2> QED
    BY <2>1, <2>2, <2>3
<1>5. CASE UNCHANGED calls
  BY <1>1, <1>5 DEF CallsGrow, Now
<1> QED
  BY <1>2, <1>3, <1>4, <1>5, CallsUnchanged

LEMMA PlainStep ==
  ASSUME TypeInv, NEW t \in Thread, Step(t)
  PROVE  PlainOK'
<1>1. TypeOK /\ PlainOK /\ CallsGrow(t)
  BY TypeParts, CallsGrowStep DEF TypeInv
<1>2. \A d \in 1..Len(Ring) : After(curr, d) \in Thread
  BY <1>1, RingType DEF PlainOK
<1>3. \A st : schedule_thread(st) =>
        curr' \in Thread /\ (error' = error \/ error' \in {"deadlock", "none"})
  BY <1>1, <1>2 DEF schedule_thread, PlainOK
<1>4. \A u, st : sleep(u) =>
        /\ critical' = FALSE /\ status' = [status EXCEPT ![u] = "SUSPENDED"]
        /\ curr' \in Thread /\ (error' = error \/ error' \in {"deadlock", "none"})
  BY <1>3 DEF sleep
<1>5. \A u : wakeup(u) =>
        /\ status' = [status EXCEPT ![u] = "RUNNABLE"] \/ status' = status
        /\ error' = error \/ error' = "wakeup"
  BY DEF wakeup
<1>6. CASE Begin(t)
  BY <1>1, <1>6 DEF PlainOK, Begin, schedVars, lockVars, chanVars, Goto, Pcs
<1>7. CASE LockFree(t)
  BY <1>1, <1>7 DEF PlainOK, LockFree, schedVars, lockVars, chanVars, Goto, Pcs
<1>8. CASE LockBusy(t)
  <2>1. waiting' \in Seq(Thread)
    BY <1>1, <1>8, InFront DEF LockBusy, PlainOK
  <2> QED
    BY <1>1, <1>8, <2>1 DEF PlainOK, LockBusy, schedVars, lockVars, chanVars, Goto, Pcs
<1>9. CASE LockSleep(t)
  BY <1>1, <1>4, <1>9 DEF PlainOK, LockSleep, schedVars, lockVars, chanVars, Goto, Pcs
<1>10. CASE PollAlways(t)
  BY <1>1, <1>10 DEF PlainOK, PollAlways, schedVars, lockVars, chanVars, Goto, Pcs
<1>11. CASE PollSend(t) \/ PollReceive(t)
  <2>1. UNCHANGED <<program, preemptive, schedVars, lockVars, conds>>
    BY <1>11 DEF PollSend, PollReceive
  <2>2. CASE Missed(t)
    BY <1>1, <2>1, <2>2 DEF PlainOK, Missed, Miss, schedVars, lockVars, Pcs
  <2>3. CASE Matched(t)
    BY <1>1, <2>1, <2>3 DEF PlainOK, Matched, Goto, schedVars, lockVars, Pcs
  <2> QED
    BY <1>11, <2>2, <2>3, PollStep
<1>12. CASE Signal(t)
  <2>1. /\ status' \in [Thread -> {"RUNNABLE", "SUSPENDED", "KILLED"}]
        /\ error' \in {"none", "deadlock", "wakeup", "result"}
    BY <1>1, <1>5, <1>12 DEF PlainOK, Signal
  <2> QED
    BY <1>1, <1>12, <2>1 DEF PlainOK, Signal, schedVars, lockVars, chanVars, Goto, Pcs
<1>13. CASE PollFails(t)
  BY <1>1, <1>13 DEF PlainOK, PollFails, schedVars, lockVars, chanVars, Goto, Pcs
<1>14. CASE Suspend(t)
  BY <1>1, <1>14 DEF PlainOK, Suspend, schedVars, lockVars, chanVars, Goto, Pcs
<1>15. CASE Wait(t)
  <2>1. waiting' \in Seq(Thread)
    BY <1>15, EmptySeq DEF Wait
  <2>2. towake' = [towake EXCEPT ![t] = waiting]
    BY <1>15 DEF Wait
  <2>3. towake' \in [Thread -> Seq(Thread)]
    BY <1>1, <2>2 DEF PlainOK
  <2> QED
    BY <1>1, <1>15, <2>1, <2>3 DEF PlainOK, Wait, schedVars, Goto, Pcs
<1>16. CASE Unlock(t)
  <2>1. waiting' \in Seq(Thread)
    BY <1>16, EmptySeq DEF Unlock
  <2>2. towake' = [towake EXCEPT ![t] = waiting]
    BY <1>16 DEF Unlock
  <2>3. towake' \in [Thread -> Seq(Thread)]
    BY <1>1, <2>2 DEF PlainOK
  <2> QED
    BY <1>1, <1>16, <2>1, <2>3 DEF PlainOK, Unlock, schedVars, Goto, Pcs
<1>17. CASE Wake(t)
  <2>1. towake[t] \in Seq(Thread) /\ Tail(towake[t]) \in Seq(Thread)
    BY <1>1, <1>17, HeadTailProperties DEF PlainOK, Wake
  <2> QED
    BY <1>1, <1>5, <1>17, <2>1 DEF PlainOK, Wake, schedVars, lockVars, chanVars, Goto, Pcs
<1>18. CASE WaitSleep(t)
  <2>1. <<t, Now(t)>> \in Thread \X Nat
    BY <1>1, NowType
  <2> QED
    BY <1>1, <1>4, <1>18, <2>1 DEF PlainOK, WaitSleep, schedVars, lockVars, chanVars, Goto, Pcs
<1>19. CASE Result(t)
  BY <1>1, <1>19 DEF PlainOK, Result, schedVars, lockVars, chanVars, Goto, Pcs
<1>20. CASE Exit(t)
  BY <1>1, <1>3, <1>20 DEF PlainOK, Exit, schedVars, lockVars, chanVars, Goto, Pcs
<1> QED
  BY <1>6, <1>7, <1>8, <1>9, <1>10, <1>11, <1>12, <1>13, <1>14, <1>15, <1>16, <1>17, <1>18,
     <1>19, <1>20 DEF Step

LEMMA CallsStep ==
  ASSUME TypeInv, NEW t \in Thread, Step(t)
  PROVE  CallsOK'
<1>1. TypeOK /\ CallsOK /\ CallsGrow(t) /\ program' = program
  BY TypeParts, CallsGrowStep, CallsUnchanged DEF TypeInv
<1>2. \A u \in Thread : Now(u) \in Nat
  BY <1>1, NowType
<1>3. SUFFICES ASSUME NEW u \in Thread, NEW k \in 1..Now(u)' PROVE CallOK(u, k)'
  BY <1>1 DEF CallsOK, CallsGrow
<1>4. CASE Begin(t) /\ u = t /\ k = Now(t) + 1
  <2>1. PICK p \in Scramblings(Len(program[t][Now(t) + 1].evs)) :
          /\ CallAdded(calls, calls', t, NewCall(p))
          /\ Len(NewCall(p).data) = Len(program[t][Now(t) + 1].evs)
    BY <1>4, BeginEffect
  <2>2. calls'[u][k] = NewCall(p)
    BY <1>4, <2>1 DEF CallAdded, Now
  <2>3. k <= Len(program[t]) /\ 0 \in -1..Len(program[t][k].evs)
    BY <1>1, <1>4, BeginEffect, ProgramType, SMTT(30) DEF TypeOK
  <2> QED
    BY <1>1, <1>4, <2>1, <2>2, <2>3 DEF CallOK, NewCall
<1>5. CASE ~(Begin(t) /\ u = t /\ k = Now(t) + 1)
  <2>1. k \in 1..Now(u)
    <3>1. CASE Begin(t)
      <4>1. PICK p : CallAdded(calls, calls', t, NewCall(p))
        BY <3>1, BeginEffect
      <4> QED
        BY <1>2, <1>5, <3>1, <4>1 DEF CallAdded, Now
    <3>2. CASE ~Begin(t)
      BY <3>2, CallsGrowStep
    <3> QED
      BY <3>1, <3>2
  <2>2. CallOK(u, k) /\ calls'[u][k].order = calls[u][k].order
    BY <1>1, <2>1 DEF CallsOK, CallsGrow
  <2>3. k \in 1..Len(program[u]) /\ Len(program[u][k].evs) \in Nat
    BY <1>1, <2>1, EventType
  <2>4. /\ calls'[u][k].performed \in -1..Len(program[u][k].evs)
        /\ Len(calls'[u][k].data) = Len(calls[u][k].data)
    <3>1. CASE Begin(t)
      <4>1. PICK p : CallAdded(calls, calls', t, NewCall(p))
        BY <3>1, BeginEffect
      <4> QED
        BY <2>1, <2>2, <4>1 DEF CallAdded, CallOK, Now
    <3>2. CASE PollAlways(t) \/ PollFails(t)
      <4>1. PICK v \in -1..NumEvents(t) : PerformedSet(calls, calls', t, Now(t), v)
        <5>1. -1 \in -1..NumEvents(t) /\ \A n \in 1..NumEvents(t) : n \in -1..NumEvents(t)
          BY <1>1, <3>2, NowType, PerformEffect
        <5> QED
          BY <3>2, <5>1, PerformEffect
      <4> QED
        BY <2>1, <2>2, <4>1 DEF PerformedSet, CallOK, Now, NumEvents
    <3>3. CASE PollSend(t) \/ PollReceive(t)
      <4>1. CASE UNCHANGED calls
        BY <2>2, <4>1 DEF CallOK
      <4>2. CASE Matched(t)
        <5>1. pos[t] \in 1..Len(program[t][Now(t)].evs)
          BY <3>3, PollStep DEF NumEvents
        <5>2. First(t).ev \in 1..Len(program[First(t).th][First(t).call].evs)
          BY <4>2 DEF Matched, ValidOffer
        <5>3. MetCalls(t, First(t), Reader(t), Sent(t))
          BY <4>2 DEF Matched
        <5>4. calls'[u][k].performed \in {calls[u][k].performed, pos[t], First(t).ev}
          BY <2>1, <5>3 DEF MetCalls
        <5>5. /\ Len(calls'[u][k].data) = Len(calls[u][k].data)
              /\ calls'[u][k].performed =
                   IF u = First(t).th /\ k = First(t).call THEN First(t).ev
                   ELSE IF u = t /\ k = Now(t) THEN pos[t] ELSE calls[u][k].performed
          BY <2>1, <5>3 DEF MetCalls
        <5> QED
          BY <2>2, <2>3, <5>1, <5>2, <5>5 DEF CallOK
      <4> QED
        BY <3>3, <4>1, <4>2, PollStep DEF Missed, Miss
    <3>4. CASE UNCHANGED calls
      BY <2>2, <3>4 DEF CallOK
    <3> QED
      BY <3>1, <3>2, <3>3, <3>4, CallsUnchanged
  <2> QED
    BY <1>1, <2>2, <2>4 DEF CallOK
<1> QED
  BY <1>4, <1>5

(* An offer that is in a queue stays valid. *)
LEMMA ValidKept ==
  ASSUME TypeInv, NEW t \in Thread, Step(t), NEW o \in OfferType, ValidOffer(o)
  PROVE  ValidOffer(o)'
<1>1. CallsGrow(t) /\ program' = program /\ TypeOK
  BY CallsGrowStep, CallsUnchanged DEF TypeInv
<1>2. o.th \in Thread /\ Now(o.th) \in Nat /\ Now(o.th)' \in Nat /\ Now(o.th) <= Now(o.th)'
  BY <1>1, NowType DEF CallsGrow, OfferType
<1> QED
  BY <1>1, <1>2 DEF ValidOffer

LEMMA QueuesStep ==
  ASSUME TypeInv, NEW t \in Thread, Step(t)
  PROVE  QueuesOK'
<1>1. TypeOK /\ QueuesOK
  BY TypeParts DEF TypeInv
<1>2. \A q : QueueOK(q) => QueueOK(q)'
  <2> SUFFICES ASSUME NEW q, QueueOK(q) PROVE \A i \in 1..Len(q) : ValidOffer(q[i])'
    BY DEF QueueOK
  <2> QED
    BY ValidKept, ElementOfSeq DEF QueueOK
<1>3. CASE UNCHANGED chanVars
  BY <1>1, <1>2, <1>3 DEF QueuesOK, chanVars
<1>4. CASE PollSend(t) \/ PollReceive(t)
  <2>1. \A q, r : QueueOK(q) /\ Shrunk(q, r) => QueueOK(r)
    BY DEF QueueOK, Shrunk
  <2>2. /\ writes' \in [Chan -> Seq(OfferType)] /\ reads' \in [Chan -> Seq(OfferType)]
        /\ \A c \in Chan : Shrunk(writes[c], writes'[c]) /\ Shrunk(reads[c], reads'[c])
    BY <1>4, PollStep
  <2>3. \A c \in Chan : QueueOK(writes'[c]) /\ QueueOK(reads'[c])
    BY <1>1, <2>1, <2>2 DEF QueuesOK
  <2>4. \A c \in Chan : \A i \in 1..Len(writes'[c]) : ValidOffer(writes[c][i])'
    BY <2>2, <2>3, ValidKept, ElementOfSeq DEF QueueOK
  <2>5. \A c \in Chan : \A i \in 1..Len(reads'[c]) : ValidOffer(reads[c][i])'
    BY <2>2, <2>3, ValidKept, ElementOfSeq DEF QueueOK
  <2> QED
    BY <2>2, <2>4, <2>5 DEF QueuesOK, QueueOK
<1>5. CASE Suspend(t)
  <2>1. Now(t) > 0
    BY <1>5 DEF TypeInv, InCall, Suspend, Running
  <2>2. UNCHANGED <<calls, program>>
    BY <1>5 DEF Suspend
  <2>3. ASSUME NEW q, QueueOK(q), NEW op, NEW c PROVE QueueOK(q \o Offers(t, op, c))
    <3>1. QueueOK(Offers(t, op, c))
      BY <1>1, <2>1, OffersProperties DEF QueueOK
    <3> DEFINE r == Offers(t, op, c)
    <3>2. q \in Seq(OfferType) /\ r \in Seq(OfferType)
      BY <2>3, <3>1 DEF QueueOK
    <3> HIDE DEF r
    <3>3. /\ q \o r \in Seq(OfferType) /\ Len(q \o r) = Len(q) + Len(r)
          /\ \A i \in 1..(Len(q) + Len(r)) :
               (q \o r)[i] = IF i <= Len(q) THEN q[i] ELSE r[i - Len(q)]
      BY <3>2, ConcatProperties
    <3>4. Len(q) \in Nat /\ Len(r) \in Nat
      BY <3>2, LenProperties
    <3>5. \A i \in 1..(Len(q) + Len(r)) :
            \/ i \in 1..Len(q) /\ (q \o r)[i] = q[i]
            \/ i - Len(q) \in 1..Len(r) /\ (q \o r)[i] = r[i - Len(q)]
      BY <3>3, <3>4
    <3>6. \A i \in 1..Len(q \o r) : ValidOffer((q \o r)[i])
      BY <2>3, <3>1, <3>3, <3>5 DEF QueueOK, r
    <3> QED
      BY <3>3, <3>6 DEF QueueOK, r
  <2>4. /\ \A c \in Chan : QueueOK(writes'[c]) /\ QueueOK(reads'[c])
        /\ DOMAIN writes' = Chan /\ DOMAIN reads' = Chan
        /\ writes' = [c \in Chan |-> writes'[c]] /\ reads' = [c \in Chan |-> reads'[c]]
    BY <1>1, <1>5, <2>3 DEF Suspend, QueuesOK
  <2>5. writes' \in [Chan -> Seq(OfferType)] /\ reads' \in [Chan -> Seq(OfferType)]
    BY <2>4 DEF QueueOK
  <2>6. \A c \in Chan : QueueOK(writes[c])' /\ QueueOK(reads[c])'
    BY <2>2, <2>4 DEF QueueOK, ValidOffer, Now
  <2> QED
    BY <2>5, <2>6 DEF QueuesOK
<1>6. UNCHANGED chanVars \/ PollSend(t) \/ PollReceive(t) \/ Suspend(t)
  BY DEF Step, Begin, LockFree, LockBusy, LockSleep, PollAlways, Signal, PollFails, Wait, Unlock,
         Wake, WaitSleep, Result, Exit
<1> QED
  BY <1>3, <1>4, <1>5, <1>6

(* A step moves no thread but the current one. *)
LEMMA OthersStay ==
  ASSUME TypeOK, NEW t \in Thread, Step(t)
  PROVE  /\ curr = t /\ error = "none"
         /\ \A u \in Thread : u # t => pc'[u] = pc[u]
<1>1. PollSend(t) \/ PollReceive(t) => UNCHANGED pc \/ \E at : Goto(t, at)
  BY DEF PollSend, PollReceive, Meet, Miss
<1>2. UNCHANGED pc \/ \E at : Goto(t, at)
  BY <1>1 DEF Step, Begin, LockFree, LockBusy, LockSleep, PollAlways, Signal, PollFails,
              Suspend, Wait, Unlock, Wake, WaitSleep, Result, Exit
<1>3. curr = t /\ error = "none"
  BY DEF Step, Begin, LockFree, LockBusy, LockSleep, PollAlways, PollSend, PollReceive, Signal,
         PollFails, Suspend, Wait, Unlock, Wake, WaitSleep, Result, Exit, Polling, Running
<1> QED
  BY <1>2, <1>3 DEF Goto, TypeOK

LEMMA InCallStep ==
  ASSUME TypeInv, NEW t \in Thread, Step(t)
  PROVE  InCall'
<1>1. /\ pc \in [Thread -> Pcs] /\ CallsGrow(t)
      /\ \A u \in Thread : Now(u) \in Nat /\ Now(u)' \in Nat /\ Now(u) <= Now(u)'
  BY NowType, CallsGrowStep DEF TypeInv, TypeOK, CallsGrow
<1>2. CASE Begin(t)
  <2>1. PICK p : CallAdded(calls, calls', t, NewCall(p))
    BY <1>2, BeginEffect
  <2>2. Now(t)' = Now(t) + 1 /\ \A u \in Thread : u # t => pc'[u] = pc[u]
    BY <1>1, <1>2, <2>1 DEF CallAdded, Now, Begin, Goto
  <2> QED
    BY <1>1, <2>2 DEF InCall, TypeInv
<1>3. CASE ~Begin(t)
  <2>1. \A u \in Thread : u # t => pc'[u] = pc[u]
    BY OthersStay DEF TypeInv
  <2>2. pc[t] = "idle" => Exit(t)
    BY <1>3 DEF Step, LockFree, LockBusy, LockSleep, PollAlways, PollSend, PollReceive, Signal,
                PollFails, Suspend, Wait, Unlock, Wake, WaitSleep, Result, Polling, Running
  <2>3. Exit(t) => UNCHANGED pc
    BY DEF Exit
  <2> QED
    BY <1>1, <2>1, <2>2, <2>3 DEF InCall, TypeInv
<1> QED
  BY <1>2, <1>3

LEMMA TypeStep ==
  ASSUME TypeInv, [Next]_vars
  PROVE  TypeInv'
<1>1. CASE \E t \in Thread : Step(t)
  <2>1. PICK t \in Thread : Step(t)
    BY <1>1
  <2>2. PlainOK' /\ CallsOK' /\ QueuesOK'
    BY <2>1, PlainStep, CallsStep, QueuesStep
  <2>3. TypeOK'
    BY <2>2, TypePartsNext
  <2> QED
    BY <2>1, <2>3, InCallStep DEF TypeInv
<1>2. CASE Preempt
  <2>1. TypeOK /\ PlainOK /\ CallsOK /\ QueuesOK
    BY TypeParts DEF TypeInv
  <2>2. \A d \in 1..Len(Ring) : After(curr, d) \in Thread
    BY <2>1, RingType DEF PlainOK
  <2>3. curr' \in Thread /\ error' \in {"none", "deadlock"}
    BY <1>2, <2>1, <2>2 DEF Preempt, schedule_thread, PlainOK
  <2>4. PlainOK'
    BY <1>2, <2>1, <2>3 DEF PlainOK, Preempt, lockVars
  <2>5. CallsOK'
    BY <1>2, <2>1 DEF CallsOK, CallOK, Now, Preempt
  <2>6. QueuesOK'
    BY <1>2, <2>1 DEF QueuesOK, QueueOK, ValidOffer, Now, Preempt, chanVars
  <2>7. TypeOK'
    BY <2>4, <2>5, <2>6, TypePartsNext
  <2> QED
    BY <1>2, <2>7 DEF TypeInv, InCall, Now, Preempt
<1>3. CASE UNCHANGED vars
  <2>1. TypeOK'
    BY <1>3 DEF TypeInv, TypeOK, vars, schedVars, lockVars, chanVars, Now, ValidOffer
  <2> QED
    BY <1>3, <2>1 DEF TypeInv, InCall, Now, vars
<1> QED
  BY <1>1, <1>2, <1>3 DEF Next, Stopped

LEMMA TypeInit == Init => TypeInv
<1> SUFFICES ASSUME Init PROVE TypeInv
  OBVIOUS
<1>1. PlainOK
  <2>1. <<>> \in Seq(Thread)
    BY EmptySeq
  <2>2. waiting \in Seq(Thread) /\ towake \in [Thread -> Seq(Thread)]
    BY <2>1 DEF Init
  <2>3. curr \in Thread
    BY RingType DEF Init
  <2>4. critical \in BOOLEAN /\ locked \in BOOLEAN
    BY DEF Init
  <2>5. /\ status \in [Thread -> {"RUNNABLE", "SUSPENDED", "KILLED"}]
        /\ pc \in [Thread -> Pcs] /\ pos \in [Thread -> Nat \ {0}]
        /\ partner \in [Thread -> OfferType \cup {NoOffer}]
    BY DEF Init, Pcs
  <2> QED
    BY <2>2, <2>3, <2>4, <2>5 DEF Init, PlainOK
<1>2. CallsOK /\ InCall
  <2>1. <<>> \in Seq(CallRecord) /\ Len(<<>>) = 0
    BY EmptySeq
  <2>2. calls \in CallsType /\ \A t \in Thread : Now(t) = 0
    BY <2>1 DEF Init, CallsType, Now
  <2> QED
    BY <2>2 DEF CallsOK, InCall, Init
<1>3. QueuesOK
  <2>1. <<>> \in Seq(OfferType) /\ Len(<<>>) = 0
    BY EmptySeq
  <2>2. QueueOK(<<>>)
    BY <2>1 DEF QueueOK
  <2> QED
    BY <2>1, <2>2 DEF Init, QueuesOK
<1> QED
  BY <1>1, <1>2, <1>3, TypeParts DEF TypeInv

(* Type correctness of the threads and the channels: event.ml keeps one    *)
(* reference per event of a call, and its queues hold offers of calls that *)
(* were really made.                                                       *)
THEOREM TypeCorrect == Spec => []TypeOK
<1>1. TypeInv => TypeOK
  BY DEF TypeInv
<1> QED
  BY <1>1, TypeInit, TypeStep, PTL DEF Spec

-----------------------------------------------------------------------------
(***************************************************************************)
(* The mutex and the scheduler.                                            *)
(***************************************************************************)

LEMMA LockInit == Init => LockInv
BY RingType DEF Init, LockInv, HolderPc, CriticalPc

(* How a step uses masterlock. *)
Locks(t) == pc[t] \notin HolderPc /\ pc'[t] \in HolderPc /\ ~locked /\ locked'
Keeps(t) == (pc[t] \in HolderPc <=> pc'[t] \in HolderPc) /\ locked' = locked
Unlocks(t) == pc[t] \in HolderPc /\ pc'[t] \notin HolderPc /\ locked' = FALSE

LEMMA LockUse ==
  ASSUME TypeInv, NEW t \in Thread, Step(t)
  PROVE  Locks(t) \/ Keeps(t) \/ Unlocks(t)
<1>1. pc \in [Thread -> Pcs] /\ locked \in BOOLEAN
  BY DEF TypeInv, TypeOK
<1>2. LockFree(t) => Locks(t)
  BY <1>1 DEF LockFree, Running, Goto, Locks, HolderPc
<1>3. Wait(t) \/ Unlock(t) => Unlocks(t)
  BY <1>1 DEF Wait, Unlock, Running, Goto, Unlocks, HolderPc
<1>4. PollSend(t) \/ PollReceive(t) => Keeps(t)
  <2>1. ASSUME PollSend(t) \/ PollReceive(t) PROVE Keeps(t)
    <3>1. locked' = locked /\ pc[t] = "poll"
      BY <2>1 DEF PollSend, PollReceive, lockVars, Polling, Running
    <3>2. UNCHANGED pc \/ Goto(t, "signal")
      BY <2>1, PollStep DEF Missed, Miss, Matched
    <3> QED
      BY <1>1, <3>1, <3>2 DEF Goto, Keeps, HolderPc
  <2> QED
    BY <2>1
<1>5. \/ LockFree(t) \/ Wait(t) \/ Unlock(t) \/ PollSend(t) \/ PollReceive(t)
      \/ Keeps(t)
  BY <1>1 DEF Step, Begin, LockBusy, LockSleep, PollAlways, Signal, PollFails, Suspend, Wake,
              WaitSleep, Result, Exit, Polling, Running, Goto, lockVars, Keeps, HolderPc
<1> QED
  BY <1>2, <1>3, <1>4, <1>5

LEMMA LockStep ==
  ASSUME TypeInv, LockInv, [Next]_vars
  PROVE  LockInv'
<1>1. TypeOK /\ pc \in [Thread -> Pcs] /\ locked \in BOOLEAN
  BY DEF TypeInv, TypeOK
<1>2. ASSUME NEW t \in Thread, Step(t) PROVE LockInv'
  <2>1. \A u \in Thread : u # t => pc'[u] = pc[u]
    BY <1>1, <1>2, OthersStay
  <2>2. curr = t /\ \A u \in Thread : u # t => pc[u] \notin CriticalPc
    BY <1>1, <1>2, OthersStay DEF LockInv
  <2>3. pc'[t] \in CriticalPc => curr' = t /\ critical'
    <3>1. pc[t] \in CriticalPc => critical /\ curr = t
      BY DEF LockInv
    <3>2. PollSend(t) \/ PollReceive(t) => pc'[t] \notin CriticalPc
      <4>1. ASSUME PollSend(t) \/ PollReceive(t) PROVE pc'[t] \in {"poll", "signal"}
        <5>1. pc[t] = "poll" /\ (UNCHANGED pc \/ Goto(t, "signal"))
          BY <4>1, PollStep DEF Missed, Miss, Matched, PollSend, PollReceive, Polling, Running
        <5> QED
          BY <1>1, <5>1 DEF Goto
      <4> QED
        BY <4>1 DEF CriticalPc
    <3>3. LockBusy(t) \/ Wait(t) => curr' = t /\ critical'
      BY <2>2 DEF LockBusy, Wait
    <3>4. Wake(t) => curr' = curr /\ critical' = critical /\ pc' = pc
      BY DEF Wake
    <3>5. \/ PollSend(t) \/ PollReceive(t) \/ LockBusy(t) \/ Wait(t) \/ Wake(t)
          \/ pc'[t] \notin CriticalPc
      BY <1>1, <1>2 DEF Step, Begin, LockFree, LockSleep, PollAlways, Signal, PollFails, Suspend,
                  Unlock, WaitSleep, Result, Exit, Running, Goto, CriticalPc
    <3> QED
      BY <2>2, <3>1, <3>2, <3>3, <3>4, <3>5
  <2>4. \A u \in Thread : pc'[u] \in CriticalPc => curr' = u /\ critical'
    BY <2>1, <2>2, <2>3
  <2>5. CASE Locks(t)
    BY <2>1, <2>4, <2>5 DEF LockInv, Locks
  <2>6. CASE Keeps(t)
    BY <2>1, <2>4, <2>6 DEF LockInv, Keeps
  <2>7. CASE Unlocks(t)
    BY <2>1, <2>4, <2>7 DEF LockInv, Unlocks
  <2> QED
    BY <1>2, <2>5, <2>6, <2>7, LockUse
<1>3. CASE Preempt
  BY <1>3 DEF LockInv, Preempt, lockVars
<1>4. CASE UNCHANGED vars
  BY <1>4 DEF LockInv, vars, schedVars, lockVars
<1> QED
  BY <1>2, <1>3, <1>4 DEF Next, Stopped

(* Only a runnable thread is run. *)
LEMMA RunnableRuns ==
  ASSUME TypeInv, SchedInv, NEW t \in Thread, Step(t)
  PROVE  status[t] = "RUNNABLE"
<1>1. curr = t /\ error = "none"
  BY OthersStay DEF TypeInv
<1>2. ASSUME status[t] = "KILLED" PROVE FALSE
  <2>1. pc[t] = "idle" /\ Now(t) = Len(program[t]) /\ Now(t) \in Nat
    BY <1>2, NowType DEF SchedInv, TypeInv
  <2> QED
    BY <1>2, <2>1 DEF Step, Begin, LockFree, LockBusy, LockSleep, PollAlways, PollSend,
         PollReceive, Signal, PollFails, Suspend, Wait, Unlock, Wake, WaitSleep, Result, Exit,
         Polling, Running
<1> QED
  BY <1>1, <1>2 DEF SchedInv

Statuses == [Thread -> {"RUNNABLE", "SUSPENDED", "KILLED"}]

(* schedule_thread finds a runnable thread, or ends the program. *)
LEMMA ScheduleResult ==
  ASSUME NEW st \in Statuses, error = "none", schedule_thread(st)
  PROVE  /\ error' \in {"none", "deadlock"}
         /\ error' = "none" => st[curr'] = "RUNNABLE" \/ \A u \in Thread : st[u] = "KILLED"
         /\ error' = "deadlock" => \A u \in Thread : st[u] # "RUNNABLE"
BY DEF schedule_thread, Statuses

(* Who is woken up is suspended, so that thread_wakeup does not fail. *)
LEMMA WokenUp ==
  ASSUME TypeInv, LockInv, SchedInv, WaitInv, NEW t \in Thread, Step(t)
  PROVE  /\ Wake(t) => /\ Head(towake[t]) \in Thread /\ InSeq(Head(towake[t]), towake[t])
                       /\ status[Head(towake[t])] = "SUSPENDED"
                       /\ status' = [status EXCEPT ![Head(towake[t])] = "RUNNABLE"]
                       /\ error' = error
         /\ Signal(t) =>
              LET o == partner[t]
              IN \/ <<o.th, o.call>> \notin conds /\ UNCHANGED <<status, error>>
                 \/ /\ <<o.th, o.call>> \in conds /\ o.th \in Thread /\ o.call \in Nat
                    /\ status[o.th] = "SUSPENDED"
                    /\ status' = [status EXCEPT ![o.th] = "RUNNABLE"]
                    /\ error' = error
<1>1. towake \in [Thread -> Seq(Thread)] /\ conds \subseteq Thread \X Nat
  BY DEF TypeInv, TypeOK
<1>2. ASSUME Wake(t)
      PROVE  /\ Head(towake[t]) \in Thread /\ InSeq(Head(towake[t]), towake[t])
             /\ status[Head(towake[t])] = "SUSPENDED"
             /\ status' = [status EXCEPT ![Head(towake[t])] = "RUNNABLE"]
             /\ error' = error
  <2>1. Head(towake[t]) \in Thread /\ InSeq(Head(towake[t]), towake[t])
    <3>1. towake[t] \in Seq(Thread) /\ towake[t] # <<>> /\ Distinct(towake[t])
      BY <1>1, <1>2 DEF Wake, WaitInv, InTowake
    <3> QED
      BY <3>1, InTail
  <2>2. status[Head(towake[t])] = "SUSPENDED"
    BY <2>1 DEF WaitInv, InTowake
  <2> QED
    BY <1>2, <2>1, <2>2 DEF Wake, wakeup
<1>3. ASSUME Signal(t), <<partner[t].th, partner[t].call>> \in conds
      PROVE  /\ partner[t].th \in Thread /\ partner[t].call \in Nat
             /\ status[partner[t].th] = "SUSPENDED"
             /\ status' = [status EXCEPT ![partner[t].th] = "RUNNABLE"]
             /\ error' = error
  <2>1. partner[t].th \in Thread /\ partner[t].call \in Nat
    BY <1>1, <1>3
  <2>2. status[partner[t].th] = "SUSPENDED"
    BY <1>3, <2>1 DEF WaitInv, InConds
  <2> QED
    BY <1>3, <2>1, <2>2 DEF Signal, wakeup
<1>4. Signal(t) /\ <<partner[t].th, partner[t].call>> \notin conds => UNCHANGED <<status, error>>
  BY DEF Signal
<1> QED
  BY <1>2, <1>3, <1>4

LEMMA SchedStep ==
  ASSUME TypeInv, LockInv, SchedInv, WaitInv, [Next]_vars
  PROVE  SchedInv'
<1>1. TypeOK /\ pc \in [Thread -> Pcs] /\ status \in Statuses /\ curr \in Thread
  BY DEF TypeInv, TypeOK, Statuses
<1>2. ASSUME NEW t \in Thread, Step(t) PROVE SchedInv'
  <2>1. /\ curr = t /\ error = "none" /\ status[t] = "RUNNABLE" /\ program' = program
        /\ \A u \in Thread : u # t => pc'[u] = pc[u] /\ Now(u)' = Now(u)
    BY <1>1, <1>2, OthersStay, RunnableRuns, CallsUnchanged, CallsGrowStep DEF CallsGrow
  <2>2. CASE LockSleep(t) \/ WaitSleep(t)
    <3>1. status' = [status EXCEPT ![t] = "SUSPENDED"] /\ schedule_thread(status')
      BY <2>2 DEF LockSleep, WaitSleep, sleep
    <3>2. pc'[t] \in {"lock", "relock"}
      BY <1>1, <2>2 DEF LockSleep, WaitSleep, Goto
    <3>3. status' \in Statuses
      BY <1>1, <3>1 DEF Statuses
    <3>4. /\ error' \in {"none", "deadlock"}
          /\ error' = "none" => status'[curr'] = "RUNNABLE"
                                \/ \A u \in Thread : status'[u] = "KILLED"
      BY <2>1, <3>1, <3>3, ScheduleResult
    <3> QED
      BY <1>1, <2>1, <3>1, <3>2, <3>4 DEF SchedInv, Statuses
  <2>3. CASE Exit(t)
    <3>1. status' = [status EXCEPT ![t] = "KILLED"] /\ schedule_thread(status')
      BY <2>3 DEF Exit
    <3>2. pc'[t] = "idle" /\ Now(t)' = Len(program[t])
      BY <2>3 DEF Exit, Running, Now
    <3>3. status' \in Statuses
      BY <1>1, <3>1 DEF Statuses
    <3>4. /\ error' \in {"none", "deadlock"}
          /\ error' = "none" => status'[curr'] = "RUNNABLE"
                                \/ \A u \in Thread : status'[u] = "KILLED"
      BY <2>1, <3>1, <3>3, ScheduleResult
    <3> QED
      BY <1>1, <2>1, <3>1, <3>2, <3>4 DEF SchedInv, Statuses
  <2>4. CASE Wake(t) \/ Signal(t)
    <3>1. /\ error' = error
          /\ \/ status' = status
             \/ \E u \in Thread : status[u] = "SUSPENDED"
                                  /\ status' = [status EXCEPT ![u] = "RUNNABLE"]
      BY <1>2, <2>4, WokenUp
    <3>2. curr' = curr
      BY <2>4 DEF Wake, Signal
    <3> QED
      BY <1>1, <2>1, <3>1, <3>2 DEF SchedInv, Statuses
  <2>5. CASE UNCHANGED <<curr, status>> /\ error' # "wakeup"
    BY <1>1, <2>1, <2>5 DEF SchedInv, Statuses
  <2>6. \/ LockSleep(t) \/ WaitSleep(t) \/ Exit(t) \/ Wake(t) \/ Signal(t)
        \/ UNCHANGED <<curr, status>> /\ error' # "wakeup"
    BY <1>2, <2>1 DEF Step, Begin, LockFree, LockBusy, PollAlways, PollSend, PollReceive,
             PollFails, Suspend, Wait, Unlock, Result, schedVars
  <2> QED
    BY <2>2, <2>3, <2>4, <2>5, <2>6
<1>3. CASE Preempt
  <2>1. error = "none" /\ schedule_thread(status)
    BY <1>3 DEF Preempt
  <2>2. /\ error' \in {"none", "deadlock"}
        /\ error' = "none" => status[curr'] = "RUNNABLE" \/ \A u \in Thread : status[u] = "KILLED"
    BY <1>1, <2>1, ScheduleResult
  <2> QED
    BY <1>3, <2>2 DEF SchedInv, Preempt, Now
<1>4. CASE UNCHANGED vars
  BY <1>4 DEF SchedInv, vars, schedVars, Now
<1> QED
  BY <1>2, <1>3, <1>4 DEF Next, Stopped

(* Steps that neither put a thread to sleep nor wake one up, queue nobody  *)
(* and take nobody off a queue.                                            *)
LEMMA WaitFrame ==
  ASSUME TypeInv, LockInv, SchedInv, WaitInv, NEW t \in Thread, Step(t),
         UNCHANGED <<waiting, towake, conds>>, waiting = <<>> \/ locked',
         towake[t] = <<>>, pc[t] \notin SleepPc, pc'[t] \notin SleepPc,
         status'[t] # "SUSPENDED", \A u \in Thread : u # t => status'[u] = status[u]
  PROVE  WaitInv'
<1>1. /\ status[t] = "RUNNABLE"
      /\ \A u \in Thread : u # t => pc'[u] = pc[u] /\ Now(u)' = Now(u)
  BY OthersStay, RunnableRuns, CallsGrowStep DEF CallsGrow, TypeInv
<1>2. \A u \in Thread : u # t \/ ~InSeq(u, waiting)
  BY <1>1 DEF WaitInv, InWaiting
<1>3. InWaiting'
  BY <1>1, <1>2 DEF WaitInv, InWaiting
<1>4. InTowake'
  BY <1>1 DEF WaitInv, InTowake
<1>5. InConds'
  BY <1>1 DEF WaitInv, InConds
<1>6. Somewhere'
  BY <1>1 DEF WaitInv, Somewhere
<1> QED
  BY <1>3, <1>4, <1>5, <1>6 DEF WaitInv

LEMMA WaitInit == Init => SchedInv /\ WaitInv
<1> SUFFICES ASSUME Init PROVE SchedInv /\ WaitInv
  OBVIOUS
<1>1. \A x : ~InSeq(x, <<>>)
  BY DEF InSeq
<1>2. Distinct(<<>>)
  BY DEF Distinct
<1>3. curr \in Thread
  BY RingType DEF Init
<1>4. SchedInv
  BY <1>3 DEF Init, SchedInv
<1>5. WaitInv
  BY <1>1, <1>2 DEF Init, WaitInv, InWaiting, InTowake, InConds, Somewhere, SleepPc
<1> QED
  BY <1>4, <1>5

LEMMA WaitStep ==
  ASSUME TypeInv, LockInv, SchedInv, WaitInv, [Next]_vars
  PROVE  WaitInv'
<1>1. /\ TypeOK /\ pc \in [Thread -> Pcs] /\ status \in Statuses /\ curr \in Thread
      /\ waiting \in Seq(Thread) /\ towake \in [Thread -> Seq(Thread)]
      /\ conds \subseteq Thread \X Nat
  BY DEF TypeInv, TypeOK, Statuses
<1>2. (\A x : ~InSeq(x, <<>>)) /\ Distinct(<<>>)
  BY DEF InSeq, Distinct
<1>3. ASSUME NEW t \in Thread, Step(t) PROVE WaitInv'
  <2>1. /\ curr = t /\ error = "none" /\ status[t] = "RUNNABLE"
        /\ \A u \in Thread : u # t => pc'[u] = pc[u] /\ Now(u)' = Now(u)
    BY <1>1, <1>3, OthersStay, RunnableRuns, CallsGrowStep DEF CallsGrow
  <2>2. \A u \in Thread : u # t => pc[u] \notin SleepPc /\ pc[u] # "waitwake"
    BY <2>1 DEF LockInv, CriticalPc, SleepPc
  <2>3. pc[t] \notin {"wake", "waitwake"} => towake[t] = <<>>
    BY DEF WaitInv, InTowake
  <2>4. /\ \A u \in Thread : ~InSeq(t, towake[u])
        /\ \A k \in Nat : <<t, k>> \notin conds
        /\ pc[t] \notin SleepPc => ~InSeq(t, waiting)
    BY <2>1 DEF WaitInv, InWaiting, InTowake, InConds
  <2>5. CASE Begin(t) \/ PollAlways(t) \/ PollFails(t) \/ Suspend(t) \/ Result(t)
    BY <1>1, <1>3, <2>1, <2>3, <2>5, WaitFrame
       DEF Begin, PollAlways, PollFails, Suspend, Result, Polling, Running, Goto, schedVars,
           lockVars, SleepPc, WaitInv, InWaiting
  <2>6. CASE LockFree(t)
    BY <1>1, <1>3, <2>1, <2>3, <2>6, WaitFrame
       DEF LockFree, Running, Goto, schedVars, SleepPc
  <2>7. CASE PollSend(t) \/ PollReceive(t)
    <3>1. /\ pc[t] = "poll" /\ UNCHANGED <<status, waiting, towake, conds, locked>>
          /\ UNCHANGED pc \/ Goto(t, "signal")
      BY <2>7, PollStep DEF Missed, Miss, Matched, PollSend, PollReceive, Polling, Running,
                            schedVars, lockVars
    <3> QED
      BY <1>1, <1>3, <2>1, <2>3, <3>1, WaitFrame DEF Goto, SleepPc, WaitInv, InWaiting
  <2>8. CASE Exit(t)
    BY <1>1, <1>3, <2>1, <2>3, <2>8, WaitFrame
       DEF Exit, Running, lockVars, SleepPc, WaitInv, InWaiting, Statuses
  <2>9. CASE LockBusy(t)
    <3>1. ~InSeq(t, waiting)
      BY <2>4, <2>9 DEF LockBusy, Running, SleepPc
    <3>2. /\ \A y : InSeq(y, waiting') <=> y = t \/ InSeq(y, waiting)
          /\ Distinct(waiting')
      BY <1>1, <2>9, <3>1, InFront DEF LockBusy, WaitInv, InWaiting
    <3>3. /\ UNCHANGED <<status, locked, towake, conds>> /\ locked
          /\ pc'[t] \in SleepPc /\ pc[t] \notin {"wake", "waitwake"}
      BY <1>1, <2>9 DEF LockBusy, Running, Goto, SleepPc
    <3>4. InWaiting'
      BY <2>1, <3>2, <3>3 DEF WaitInv, InWaiting
    <3>5. InTowake'
      BY <2>1, <2>3, <2>4, <3>2, <3>3 DEF WaitInv, InTowake
    <3>6. InConds'
      BY <2>1, <2>4, <3>2, <3>3 DEF WaitInv, InConds
    <3>7. Somewhere'
      BY <2>1, <3>2, <3>3 DEF WaitInv, Somewhere
    <3> QED
      BY <3>4, <3>5, <3>6, <3>7 DEF WaitInv
  <2>10. CASE LockSleep(t)
    <3>1. /\ UNCHANGED <<waiting, locked, towake, conds>> /\ pc[t] \in SleepPc
          /\ pc'[t] \notin SleepPc /\ status'[t] = "SUSPENDED"
          /\ \A u \in Thread : u # t => status'[u] = status[u]
      BY <1>1, <2>10 DEF LockSleep, Running, Goto, SleepPc, sleep, lockVars, Statuses
    <3>2. InSeq(t, waiting) /\ towake[t] = <<>>
      BY <2>3, <3>1 DEF WaitInv, InWaiting, SleepPc
    <3>3. InWaiting'
      BY <2>1, <3>1, <3>2 DEF WaitInv, InWaiting
    <3>4. InTowake'
      BY <2>1, <2>4, <3>1, <3>2 DEF WaitInv, InTowake
    <3>5. InConds'
      BY <2>1, <2>4, <3>1 DEF WaitInv, InConds
    <3>6. Somewhere'
      BY <2>1, <3>1, <3>2 DEF WaitInv, Somewhere
    <3> QED
      BY <3>3, <3>4, <3>5, <3>6 DEF WaitInv
  <2>11. CASE Wait(t) \/ Unlock(t)
    <3>1. /\ UNCHANGED <<status, conds>> /\ waiting' = <<>>
          /\ pc'[t] \in {"wake", "waitwake"} /\ pc[t] \notin SleepPc
          /\ towake' = [towake EXCEPT ![t] = waiting]
      BY <1>1, <2>11 DEF Wait, Unlock, Running, Goto, SleepPc, schedVars
    <3>2. towake'[t] = waiting /\ \A u \in Thread : u # t => towake'[u] = towake[u]
      BY <1>1, <3>1
    <3>3. \A u \in Thread : pc'[u] \notin SleepPc /\ pc[u] \notin SleepPc
      BY <2>1, <2>2, <3>1 DEF SleepPc
    <3>4. InWaiting'
      BY <1>2, <3>1, <3>3 DEF WaitInv, InWaiting
    <3>5. InTowake'
      <4>1. ASSUME NEW u \in Thread
            PROVE  /\ Distinct(towake'[u])
                   /\ towake'[u] # <<>> => pc'[u] \in {"wake", "waitwake"}
        BY <2>1, <3>1, <3>2 DEF WaitInv, InTowake, InWaiting
      <4>2. ASSUME NEW u \in Thread, NEW x \in Thread, InSeq(x, towake'[u])
            PROVE  /\ status'[x] = "SUSPENDED" /\ ~InSeq(x, waiting')
                   /\ \A v \in Thread : InSeq(x, towake'[v]) => u = v
        <5>1. CASE u = t
          <6>1. InSeq(x, waiting) /\ status[x] = "SUSPENDED"
            BY <3>2, <3>3, <4>2, <5>1 DEF WaitInv, InWaiting
          <6>2. \A v \in Thread : v # t => ~InSeq(x, towake'[v])
            BY <3>2, <6>1 DEF WaitInv, InTowake
          <6> QED
            BY <1>2, <3>1, <5>1, <6>1, <6>2
        <5>2. CASE u # t
          <6>1. InSeq(x, towake[u])
            BY <3>2, <4>2, <5>2
          <6>2. /\ status[x] = "SUSPENDED" /\ ~InSeq(x, waiting)
                /\ \A v \in Thread : InSeq(x, towake[v]) => u = v
            BY <6>1 DEF WaitInv, InTowake
          <6> QED
            BY <1>2, <3>1, <3>2, <6>2
        <5> QED
          BY <5>1, <5>2
      <4> QED
        BY <4>1, <4>2 DEF InTowake
    <3>6. InConds'
      BY <1>2, <2>1, <2>4, <3>1, <3>2 DEF WaitInv, InConds
    <3>7. Somewhere'
      <4>1. /\ pc[t] \notin {"wake", "waitwake"} /\ UNCHANGED calls
            /\ \A u \in Thread : Now(u)' = Now(u)
        BY <2>11 DEF Wait, Unlock, Running, Now
      <4>2. \A x : ~InSeq(x, towake[t])
        BY <1>2, <2>3, <4>1
      <4>3. \A x : \A u \in Thread : InSeq(x, towake[u]) => InSeq(x, towake'[u])
        BY <3>2, <4>2
      <4> QED
        BY <3>1, <3>2, <4>1, <4>3 DEF WaitInv, Somewhere
    <3> QED
      BY <3>4, <3>5, <3>6, <3>7 DEF WaitInv
  <2>12. CASE Wake(t)
    <3> DEFINE h == Head(towake[t])
    <3>1. /\ h \in Thread /\ InSeq(h, towake[t]) /\ status[h] = "SUSPENDED"
          /\ status' = [status EXCEPT ![h] = "RUNNABLE"]
      BY <1>3, <2>12, WokenUp
    <3>2. /\ Distinct(towake'[t])
          /\ \A y : InSeq(y, towake'[t]) <=> InSeq(y, towake[t]) /\ y # h
      <4>1. towake[t] \in Seq(Thread) /\ towake[t] # <<>> /\ Distinct(towake[t])
        BY <1>1, <2>12 DEF Wake, WaitInv, InTowake
      <4>2. towake'[t] = Tail(towake[t])
        BY <1>1, <2>12 DEF Wake
      <4> QED
        BY <4>1, <4>2, InTail
    <3> HIDE DEF h
    <3>3. /\ UNCHANGED <<waiting, locked, conds, pc, calls>>
          /\ pc[t] \in {"wake", "waitwake"}
          /\ \A u \in Thread : u # t => towake'[u] = towake[u]
      BY <1>1, <2>12 DEF Wake, Running
    <3>4. /\ status'[h] = "RUNNABLE" /\ \A u \in Thread : u # h => status'[u] = status[u]
      BY <1>1, <3>1 DEF Statuses
    <3>5. /\ ~InSeq(h, waiting) /\ \A v \in Thread : InSeq(h, towake[v]) => v = t
      BY <3>1 DEF WaitInv, InTowake
    <3>6. \A k \in Nat : <<h, k>> \notin conds
      BY <3>1 DEF WaitInv, InConds
    <3>7. InWaiting'
      BY <3>3, <3>4, <3>5 DEF WaitInv, InWaiting
    <3>8. InTowake'
      BY <3>2, <3>3, <3>4, <3>5 DEF WaitInv, InTowake
    <3>9. InConds'
      BY <3>2, <3>3, <3>4, <3>6 DEF WaitInv, InConds, Now
    <3>10. Somewhere'
      BY <3>2, <3>3, <3>4 DEF WaitInv, Somewhere, Now
    <3> QED
      BY <3>7, <3>8, <3>9, <3>10 DEF WaitInv
  <2>13. CASE Signal(t)
    <3> DEFINE o == partner[t]
    <3>1. /\ UNCHANGED <<waiting, locked, towake, calls>> /\ conds' = conds \ {<<o.th, o.call>>}
          /\ pc[t] = "signal" /\ pc'[t] = "unlock"
      BY <1>1, <2>13 DEF Signal, Running, Goto, lockVars
    <3>2. \/ <<o.th, o.call>> \notin conds /\ UNCHANGED <<status, error>>
          \/ /\ <<o.th, o.call>> \in conds /\ o.th \in Thread /\ o.call \in Nat
             /\ status[o.th] = "SUSPENDED"
             /\ status' = [status EXCEPT ![o.th] = "RUNNABLE"]
      BY <1>3, <2>13, WokenUp
    <3> HIDE DEF o
    <3>3. CASE <<o.th, o.call>> \notin conds
      <4>1. conds' = conds /\ UNCHANGED status
        BY <3>1, <3>2, <3>3
      <4> QED
        BY <1>1, <1>3, <2>1, <2>3, <3>1, <4>1, WaitFrame DEF SleepPc, WaitInv, InWaiting
    <3>4. CASE <<o.th, o.call>> \in conds
      <4> PICK h, n : h = o.th /\ n = o.call
        OBVIOUS
      <4>1. /\ h \in Thread /\ n \in Nat /\ <<h, n>> \in conds /\ conds' = conds \ {<<h, n>>}
            /\ status'[h] = "RUNNABLE" /\ \A u \in Thread : u # h => status'[u] = status[u]
        BY <1>1, <3>1, <3>2, <3>4 DEF Statuses
      <4>2. /\ n = Now(h) /\ status[h] = "SUSPENDED" /\ ~InSeq(h, waiting)
            /\ \A u \in Thread : ~InSeq(h, towake[u])
            /\ h # t /\ \A k \in Nat : <<h, k>> \in conds => k = n
        BY <2>1, <4>1 DEF WaitInv, InConds
      <4>3. InWaiting'
        BY <2>1, <3>1, <4>1, <4>2 DEF WaitInv, InWaiting, SleepPc
      <4>4. InTowake'
        BY <2>1, <2>3, <3>1, <4>1, <4>2 DEF WaitInv, InTowake
      <4>5. InConds'
        BY <2>1, <2>4, <3>1, <4>1, <4>2 DEF WaitInv, InConds
      <4>6. Somewhere'
        BY <2>1, <3>1, <4>1, <4>2 DEF WaitInv, Somewhere
      <4> QED
        BY <4>3, <4>4, <4>5, <4>6 DEF WaitInv
    <3> QED
      BY <3>3, <3>4
  <2>14. CASE WaitSleep(t)
    <3>1. /\ UNCHANGED <<waiting, locked, towake, calls>> /\ conds' = conds \cup {<<t, Now(t)>>}
          /\ pc[t] = "waitwake" /\ pc'[t] = "relock" /\ towake[t] = <<>>
          /\ status'[t] = "SUSPENDED" /\ \A u \in Thread : u # t => status'[u] = status[u]
      BY <1>1, <2>14 DEF WaitSleep, Running, Goto, lockVars, sleep, Statuses
    <3>2. ~InSeq(t, waiting) /\ Now(t)' = Now(t) /\ Now(t) \in Nat
      BY <1>1, <2>4, <3>1, NowType DEF SleepPc, Now
    <3>3. InWaiting'
      BY <2>1, <3>1, <3>2 DEF WaitInv, InWaiting, SleepPc
    <3>4. InTowake'
      BY <2>1, <2>4, <3>1 DEF WaitInv, InTowake
    <3>5. InConds'
      <4>1. \A u \in Thread : \A k \in Nat :
              <<u, k>> \in conds' => <<u, k>> \in conds \/ (u = t /\ k = Now(t))
        BY <3>1
      <4>2. \A u \in Thread : Now(u)' = Now(u)
        BY <2>1, <3>2
      <4> QED
        BY <2>1, <2>4, <3>1, <3>2, <4>1, <4>2 DEF WaitInv, InConds
    <3>6. Somewhere'
      BY <2>1, <3>1, <3>2 DEF WaitInv, Somewhere
    <3> QED
      BY <3>3, <3>4, <3>5, <3>6 DEF WaitInv
  <2> QED
    BY <1>3, <2>5, <2>6, <2>7, <2>8, <2>9, <2>10, <2>11, <2>12, <2>13, <2>14 DEF Step
<1>4. CASE Preempt
  BY <1>4 DEF WaitInv, InWaiting, InTowake, InConds, Somewhere, Preempt, lockVars, Now
<1>5. CASE UNCHANGED vars
  BY <1>5 DEF WaitInv, InWaiting, InTowake, InConds, Somewhere, vars, schedVars, lockVars, Now
<1> QED
  BY <1>3, <1>4, <1>5 DEF Next, Stopped

-----------------------------------------------------------------------------
(***************************************************************************)
(* The calls and the queues of the channels.                               *)
(***************************************************************************)

LEMMA CallInit == Init => CallInv /\ QueueInv /\ DataInv
<1> SUFFICES ASSUME Init PROVE CallInv /\ QueueInv /\ DataInv
  OBVIOUS
<1>1. \A t \in Thread : Now(t) = 0
  BY DEF Init, Now
<1>2. CallInv
  BY <1>1 DEF Init, CallInv, Unmatched, Signalled, Partners, UnmatchedPc
<1>3. QueueInv
  BY DEF Init, QueueInv
<1>4. DataInv
  BY <1>1 DEF DataInv
<1> QED
  BY <1>2, <1>3, <1>4

(* The events of a call stay what they are. *)
LEMMA SameEvent ==
  ASSUME TypeInv, NEW t \in Thread, Step(t), NEW u \in Thread, NEW k \in 1..Now(u), NEW e
  PROVE  EventOf(u, k, e)' = EventOf(u, k, e)
<1>1. program' = program /\ calls'[u][k].order = calls[u][k].order
  BY CallsUnchanged, CallsGrowStep DEF CallsGrow
<1> QED
  BY <1>1 DEF EventOf

LEMMA GoodKept ==
  ASSUME TypeInv, NEW t \in Thread, Step(t), NEW o \in OfferType, ValidOffer(o),
         NEW op, NEW c, GoodOffer(o, op, c)
  PROVE  GoodOffer(o, op, c)'
<1>1. TypeOK /\ pc \in [Thread -> Pcs] /\ o.th \in Thread /\ o.call \in 1..Now(o.th)
      /\ Now(o.th) \in Nat /\ Now(t) \in Nat
  BY NowType DEF TypeInv, TypeOK, OfferType, ValidOffer
<1>2. EventOf(o.th, o.call, o.ev)' = EventOf(o.th, o.call, o.ev)
  BY <1>1, SameEvent
<1>3. program' = program
  BY CallsUnchanged
<1>4. o.call = Now(o.th)' => pc'[o.th] \notin {"lock", "locksleep", "poll"}
  <2>1. CASE o.th # t
    BY <1>1, <2>1, OthersStay, CallsGrowStep DEF CallsGrow, GoodOffer
  <2>2. CASE o.th = t /\ Begin(t)
    <3>1. PICK p : CallAdded(calls, calls', t, NewCall(p))
      BY <2>2, BeginEffect
    <3> QED
      BY <1>1, <2>2, <3>1 DEF CallAdded, Now
  <2>3. CASE o.th = t /\ ~Begin(t)
    <3>1. Now(t)' = Now(t)
      BY <2>3, CallsGrowStep
    <3>2. PollSend(t) \/ PollReceive(t) => pc[t] = "poll"
      BY DEF PollSend, PollReceive, Polling, Running
    <3>3. pc'[t] \in {"lock", "locksleep", "poll"} => pc[t] \in {"lock", "locksleep", "poll"}
      BY <1>1, <2>3, <3>2 DEF Step, LockFree, LockBusy, LockSleep, PollAlways, Signal, PollFails,
         Suspend, Wait, Unlock, Wake, WaitSleep, Result, Exit, Running, Goto
    <3> QED
      BY <2>3, <3>1, <3>3 DEF GoodOffer
  <2> QED
    BY <2>1, <2>2, <2>3
<1> QED
  BY <1>2, <1>3, <1>4 DEF GoodOffer

GoodQueue(q, op, c) == \A i \in 1..Len(q) : GoodOffer(q[i], op, c)

LEMMA QueueStep ==
  ASSUME TypeInv, QueueInv, [Next]_vars
  PROVE  QueueInv'
<1>1. TypeOK /\ QueuesOK /\ \A c \in Chan : GoodQueue(writes[c], "send", c)
                                            /\ GoodQueue(reads[c], "receive", c)
  BY TypeParts DEF TypeInv, QueueInv, GoodQueue
<1>2. ASSUME NEW t \in Thread, Step(t) PROVE QueueInv'
  <2>1. ASSUME NEW q, QueueOK(q), NEW op, NEW c, GoodQueue(q, op, c) PROVE GoodQueue(q, op, c)'
    BY <1>2, <2>1, GoodKept, ElementOfSeq DEF QueueOK, GoodQueue
  <2>2. CASE UNCHANGED chanVars
    <3>1. \A c \in Chan : GoodQueue(writes[c], "send", c)' /\ GoodQueue(reads[c], "receive", c)'
      BY <1>1, <2>1, <2>2 DEF QueuesOK, chanVars
    <3> QED
      BY <3>1 DEF QueueInv, GoodQueue
  <2>3. CASE PollSend(t) \/ PollReceive(t)
    <3>1. \A c \in Chan : Shrunk(writes[c], writes'[c]) /\ Shrunk(reads[c], reads'[c])
      BY <2>3, PollStep
    <3>2. \A q, r, op, c : QueueOK(q) /\ GoodQueue(q, op, c) /\ Shrunk(q, r)
                             => QueueOK(r) /\ GoodQueue(r, op, c)
      BY DEF QueueOK, GoodQueue, Shrunk
    <3>3. \A c \in Chan : /\ QueueOK(writes'[c]) /\ GoodQueue(writes'[c], "send", c)
                          /\ QueueOK(reads'[c]) /\ GoodQueue(reads'[c], "receive", c)
      BY <1>1, <3>1, <3>2 DEF QueuesOK
    <3>4. \A c \in Chan : GoodQueue(writes[c], "send", c)' /\ GoodQueue(reads[c], "receive", c)'
      BY <2>1, <3>3
    <3> QED
      BY <3>4 DEF QueueInv, GoodQueue
  <2>4. CASE Suspend(t)
    <3>1. Now(t) > 0 /\ Now(t) \in Nat /\ pc \in [Thread -> Pcs]
      BY <1>1, <2>4, NowType DEF TypeInv, TypeOK, InCall, Suspend, Running
    <3>2. UNCHANGED <<calls, program>> /\ pc'[t] = "wait" /\ program[t][Now(t)].blocking
      BY <2>4, <3>1 DEF Suspend, Goto
    <3>3. ASSUME NEW op, NEW c, NEW e \in Matching(t, op, c), NEW o, o = Offer(t, e)
          PROVE  GoodOffer(o, op, c)'
      BY <3>2, <3>3 DEF GoodOffer, Offer, Matching, EventOf, Now
    <3>4. ASSUME NEW q, QueueOK(q), NEW op, NEW c, GoodQueue(q, op, c),
                 NEW s, s = q \o Offers(t, op, c)
          PROVE  GoodQueue(s, op, c)'
      <4> PICK r : r = Offers(t, op, c)
        OBVIOUS
      <4>2. /\ Offers(t, op, c) \in Seq(OfferType)
            /\ \A i \in 1..Len(Offers(t, op, c)) :
                 \E e \in Matching(t, op, c) : Offers(t, op, c)[i] = Offer(t, e)
        BY <1>1, <3>1, OffersProperties
      <4>1. /\ q \in Seq(OfferType) /\ r \in Seq(OfferType)
            /\ \A i \in 1..Len(r) : \E e \in Matching(t, op, c) : r[i] = Offer(t, e)
        BY <3>4, <4>2 DEF QueueOK
      <4>3. /\ s = q \o r /\ Len(s) = Len(q) + Len(r)
            /\ \A i \in 1..(Len(q) + Len(r)) :
                 s[i] = IF i <= Len(q) THEN q[i] ELSE r[i - Len(q)]
        BY <3>4, <4>1, ConcatProperties
      <4>4. Len(q) \in Nat /\ Len(r) \in Nat
        BY <4>1, LenProperties
      <4>5. \A i \in 1..(Len(q) + Len(r)) :
              \/ i \in 1..Len(q) /\ s[i] = q[i]
              \/ i - Len(q) \in 1..Len(r) /\ s[i] = r[i - Len(q)]
        BY <4>3, <4>4
      <4>6. \A i \in 1..Len(q) : GoodOffer(q[i], op, c)'
        BY <2>1, <3>4 DEF GoodQueue
      <4>7. \A i \in 1..Len(r) : GoodOffer(r[i], op, c)'
        BY <3>3, <4>1
      <4>8. \A i \in 1..Len(s) : GoodOffer(s[i], op, c)'
        BY <4>3, <4>5, <4>6, <4>7
      <4> QED
        BY <4>8 DEF GoodQueue
    <3>5. \A c \in Chan : /\ writes'[c] = writes[c] \o Offers(t, "send", c)
                          /\ reads'[c] = reads[c] \o Offers(t, "receive", c)
      BY <2>4 DEF Suspend
    <3>6. \A c \in Chan : GoodQueue(writes[c], "send", c)' /\ GoodQueue(reads[c], "receive", c)'
      BY <1>1, <3>4, <3>5 DEF QueuesOK
    <3> QED
      BY <3>6 DEF QueueInv, GoodQueue
  <2>5. UNCHANGED chanVars \/ PollSend(t) \/ PollReceive(t) \/ Suspend(t)
    BY <1>2 DEF Step, Begin, LockFree, LockBusy, LockSleep, PollAlways, Signal, PollFails, Wait,
           Unlock, Wake, WaitSleep, Result, Exit
  <2> QED
    BY <2>2, <2>3, <2>4, <2>5
<1>3. CASE UNCHANGED <<program, calls, pc, writes, reads>>
  <2>1. \A o, op, c : GoodOffer(o, op, c) => GoodOffer(o, op, c)'
    BY <1>3 DEF GoodOffer, EventOf, Now
  <2> QED
    BY <1>3, <2>1 DEF QueueInv
<1>4. Preempt \/ UNCHANGED vars => UNCHANGED <<program, calls, pc, writes, reads>>
  BY DEF Preempt, vars, chanVars
<1> QED
  BY <1>2, <1>3, <1>4 DEF Next, Stopped

(* The thread whose offer is matched is another one; it has published that *)
(* offer in its current call and sleeps on its condition.                  *)
LEMMA LivePartner ==
  ASSUME TypeInv, LockInv, CallInv, QueueInv, NEW t \in Thread,
         PollSend(t) \/ PollReceive(t), Matched(t)
  PROVE  LET o == First(t)
         IN /\ o.th \in Thread /\ o.th # t /\ o.call = Now(o.th) /\ o.call \in 1..Now(o.th)
            /\ pc[o.th] = "relock" /\ <<o.th, o.call>> \in conds
            /\ GoodOffer(o, IF Ev(t).op = "send" THEN "receive" ELSE "send", Ev(t).ch)
<1> DEFINE o == First(t)
<1>1. /\ pc[t] = "poll" /\ curr = t /\ Ev(t).ch \in Chan
      /\ (Ev(t).op = "send" \/ Ev(t).op = "receive")
  BY PollStep DEF PollSend, PollReceive, Polling, Running
<1>2. /\ o \in OfferType /\ ValidOffer(o) /\ Performed(o) = 0
      /\ FirstLive(Peers(t)) \in 1..Len(Peers(t))
  BY DEF Matched
<1>3. GoodOffer(o, IF Ev(t).op = "send" THEN "receive" ELSE "send", Ev(t).ch)
  BY <1>1, <1>2 DEF QueueInv, First, Peers
<1> HIDE DEF o
<1>4. o.th \in Thread /\ o.call \in 1..Now(o.th) /\ calls[o.th][o.call].performed = 0
  BY <1>2 DEF OfferType, ValidOffer, Performed
<1>5. /\ o.call = Now(o.th)
      /\ pc[o.th] \in UnmatchedPc \/ (pc[o.th] = "relock" /\ <<o.th, o.call>> \in conds)
  BY <1>4 DEF CallInv, Unmatched
<1>6. pc[o.th] \notin {"lock", "locksleep", "poll"}
  BY <1>3, <1>5 DEF GoodOffer
<1>7. o.th # t
  BY <1>1, <1>6
<1>8. pc[o.th] \notin {"wait", "waitwake"}
  BY <1>1, <1>4, <1>7 DEF LockInv, HolderPc, CriticalPc
<1> QED
  BY <1>3, <1>4, <1>5, <1>6, <1>7, <1>8 DEF UnmatchedPc, o

(* Steps that match nothing. *)
LEMMA CallFrame ==
  ASSUME TypeInv, SchedInv, WaitInv, CallInv, NEW t \in Thread, Step(t),
         UNCHANGED <<calls, partner, conds>>, pc[t] # "signal", pc'[t] # "signal",
         pc[t] \in UnmatchedPc <=> pc'[t] \in UnmatchedPc
  PROVE  CallInv'
<1>1. /\ status[t] = "RUNNABLE" /\ program' = program
      /\ \A u \in Thread : u # t => pc'[u] = pc[u]
      /\ \A u \in Thread : Now(u)' = Now(u) /\ Now(u) \in Nat
  BY OthersStay, RunnableRuns, CallsUnchanged, NowType DEF TypeInv, Now
<1>2. \A k \in Nat : <<t, k>> \notin conds
  BY <1>1 DEF WaitInv, InConds
<1>3. Unmatched'
  BY <1>1, <1>2 DEF CallInv, Unmatched
<1>4. Signalled'
  BY <1>1 DEF CallInv, Signalled
<1>5. Partners'
  BY <1>1 DEF CallInv, Partners, ValidOffer, Performed, Now
<1> QED
  BY <1>3, <1>4, <1>5 DEF CallInv

LEMMA CallStep ==
  ASSUME TypeInv, LockInv, SchedInv, WaitInv, CallInv, QueueInv, [Next]_vars
  PROVE  CallInv'
<1>1. /\ TypeOK /\ pc \in [Thread -> Pcs] /\ conds \subseteq Thread \X Nat
      /\ partner \in [Thread -> OfferType \cup {NoOffer}]
  BY DEF TypeInv, TypeOK
<1>2. ASSUME NEW t \in Thread, Step(t) PROVE CallInv'
  <2>1. /\ curr = t /\ status[t] = "RUNNABLE" /\ program' = program
        /\ \A u \in Thread : u # t => pc'[u] = pc[u]
        /\ \A u \in Thread : Now(u) \in Nat
    BY <1>1, <1>2, OthersStay, RunnableRuns, CallsUnchanged, NowType
  <2>2. \A k \in Nat : <<t, k>> \notin conds
    BY <2>1 DEF WaitInv, InConds
  <2>3. pc[t] \in HolderPc => \A u \in Thread : u # t => pc[u] # "signal"
    BY DEF LockInv, HolderPc
  <2>4. CASE \/ LockFree(t) \/ LockBusy(t) \/ LockSleep(t) \/ Suspend(t) \/ Wait(t) \/ Unlock(t)
             \/ Wake(t) \/ Result(t) \/ Exit(t)
    BY <1>1, <1>2, <2>4, CallFrame
       DEF LockFree, LockBusy, LockSleep, Suspend, Wait, Unlock, Wake, Result, Exit, Running,
           Goto, UnmatchedPc
  <2>5. CASE Begin(t)
    <3>1. PICK p : CallAdded(calls, calls', t, NewCall(p))
      BY <2>5, BeginEffect
    <3>2. /\ Now(t)' = Now(t) + 1 /\ calls'[t][Now(t) + 1].performed = 0
          /\ \A u \in Thread : u # t => Now(u)' = Now(u)
          /\ \A u \in Thread : \A k \in 1..Now(u) : calls'[u][k] = calls[u][k]
      BY <2>1, <3>1 DEF CallAdded, Now, NewCall
    <3>3. pc[t] = "idle" /\ pc'[t] = "lock" /\ UNCHANGED <<conds, partner>>
      BY <1>1, <2>5 DEF Begin, Running, Goto
    <3>4. Unmatched'
      <4>1. \A k \in 1..Now(t) : calls[t][k].performed # 0
        BY <3>3 DEF CallInv, Unmatched, UnmatchedPc
      <4>2. \A u \in Thread : pc[u] # "idle" => Now(u) \in 1..Now(u)
        BY <2>1 DEF TypeInv, InCall
      <4>3. \A k \in 1..Now(t)' : k = Now(t)' \/ (k \in 1..Now(t) /\ calls'[t][k].performed # 0)
        BY <2>1, <3>2, <4>1
      <4>4. ASSUME NEW u \in Thread, u # t, pc[u] \in UnmatchedPc
            PROVE  calls'[u][Now(u)].performed = 0
        BY <3>2, <4>2, <4>4 DEF CallInv, Unmatched, UnmatchedPc
      <4> QED
        BY <2>1, <3>2, <3>3, <4>3, <4>4 DEF CallInv, Unmatched, UnmatchedPc
    <3>5. Signalled'
      <4>1. \A u \in Thread : \A k \in Nat : <<u, k>> \in conds =>
              u # t /\ k = Now(u) /\ pc[u] = "relock"
        BY <2>2 DEF WaitInv, InConds
      <4>2. \A u \in Thread : \A k \in Nat : <<u, k>> \in conds => k \in 1..Now(u)
        BY <2>1, <4>1 DEF TypeInv, InCall
      <4>3. \A u \in Thread : pc[u] = "signal" => pc'[u] = "signal"
        BY <2>1, <3>3
      <4> QED
        BY <3>2, <3>3, <4>2, <4>3 DEF CallInv, Signalled
    <3>6. Partners'
      <4>1. ASSUME NEW u \in Thread, pc'[u] = "signal"
            PROVE  /\ partner'[u] \in OfferType /\ ValidOffer(partner[u])'
                   /\ Performed(partner[u])' # 0
        <5> PICK o : o = partner[u]
          OBVIOUS
        <5>1. u # t /\ pc[u] = "signal" /\ partner'[u] = o
          BY <2>1, <3>3, <4>1
        <5>2. o \in OfferType /\ ValidOffer(o) /\ Performed(o) # 0
          BY <5>1 DEF CallInv, Partners
        <5>3. ValidOffer(o)'
          BY <1>2, <5>2, ValidKept
        <5>4. o.th \in Thread /\ o.call \in 1..Now(o.th)
          BY <5>2 DEF OfferType, ValidOffer
        <5>5. Performed(o)' # 0
          BY <3>2, <5>2, <5>4 DEF Performed
        <5> QED
          BY <5>1, <5>2, <5>3, <5>5
      <4>2. ASSUME NEW u \in Thread, pc'[u] # "signal" PROVE partner'[u] = NoOffer
        BY <2>1, <3>3, <4>2 DEF CallInv, Partners
      <4> QED
        BY <4>1, <4>2 DEF Partners
    <3> QED
      BY <3>4, <3>5, <3>6 DEF CallInv
  <2>6. CASE PollAlways(t) \/ PollFails(t)
    <3>1. PICK v : PerformedSet(calls, calls', t, Now(t), v) /\ v # 0
      BY <2>6, PerformEffect
    <3>2. /\ \A u \in Thread : Now(u)' = Now(u)
          /\ \A u \in Thread : \A k \in 1..Now(u) :
               calls'[u][k].performed = IF u = t /\ k = Now(t) THEN v ELSE calls[u][k].performed
      BY <3>1 DEF PerformedSet, Now
    <3>3. pc[t] = "poll" /\ pc'[t] = "unlock" /\ UNCHANGED <<conds, partner>>
      BY <1>1, <2>6 DEF PollAlways, PollFails, Polling, Running, Goto
    <3>4. \A u \in Thread : pc[u] # "signal" /\ pc'[u] # "signal"
      BY <2>1, <2>3, <3>3 DEF HolderPc
    <3>5. \A u \in Thread : pc[u] # "idle" => Now(u) \in 1..Now(u)
      BY <2>1 DEF TypeInv, InCall
    <3>6. Unmatched'
      BY <2>1, <3>1, <3>2, <3>3, <3>5 DEF CallInv, Unmatched, UnmatchedPc
    <3>7. Signalled'
      <4>1. \A u \in Thread : \A k \in Nat : <<u, k>> \in conds => u # t /\ k \in 1..Now(u)
        BY <2>2, <3>5 DEF WaitInv, InConds
      <4> QED
        BY <3>2, <3>3, <3>4, <4>1 DEF CallInv, Signalled
    <3>8. Partners'
      BY <3>3, <3>4 DEF CallInv, Partners
    <3> QED
      BY <3>6, <3>7, <3>8 DEF CallInv
  <2>7. CASE (PollSend(t) \/ PollReceive(t)) /\ Missed(t)
    BY <1>1, <1>2, <2>7, CallFrame
       DEF PollSend, PollReceive, Polling, Running, Missed, Miss, UnmatchedPc
  <2>8. CASE (PollSend(t) \/ PollReceive(t)) /\ Matched(t)
    <3> PICK o : o = First(t)
      OBVIOUS
    <3>1. /\ o.th \in Thread /\ o.th # t /\ o.call = Now(o.th) /\ o.call \in 1..Now(o.th)
          /\ pc[o.th] = "relock" /\ <<o.th, o.call>> \in conds
      BY <2>8, LivePartner
    <3>2. /\ o \in OfferType /\ ValidOffer(o) /\ MetCalls(t, o, Reader(t), Sent(t))
          /\ partner' = [partner EXCEPT ![t] = o] /\ Goto(t, "signal")
      BY <2>8 DEF Matched
    <3>3. /\ \A u \in Thread : Now(u)' = Now(u)
          /\ \A u \in Thread : \A k \in 1..Now(u) :
               calls'[u][k].performed =
                 IF u = o.th /\ k = o.call THEN o.ev
                 ELSE IF u = t /\ k = Now(t) THEN pos[t] ELSE calls[u][k].performed
      BY <3>2 DEF MetCalls
    <3>4. /\ pc[t] = "poll" /\ pc'[t] = "signal" /\ conds' = conds
          /\ o.ev # 0 /\ pos[t] # 0 /\ Now(t) \in 1..Now(t)
      <4>1. pos[t] \in 1..NumEvents(t) /\ Now(t) > 0 /\ Now(t) \in Nat
        BY <2>1, <2>8, PollStep
      <4>2. pc[t] = "poll" /\ pc'[t] = "signal" /\ conds' = conds
        BY <1>1, <2>8, <3>2 DEF PollSend, PollReceive, Polling, Running, Goto
      <4>3. o.ev # 0
        BY <3>2 DEF OfferType
      <4> QED
        BY <4>1, <4>2, <4>3
    <3>5. \A u \in Thread : u # t => pc[u] # "signal" /\ pc'[u] # "signal"
      BY <2>1, <2>3, <3>4 DEF HolderPc
    <3>6. partner'[t] = o /\ \A u \in Thread : u # t => partner'[u] = partner[u]
      BY <1>1, <3>2
    <3>7. \A u \in Thread : pc[u] # "idle" => Now(u) \in 1..Now(u)
      BY <2>1 DEF TypeInv, InCall
    <3>8. Unmatched'
      <4>1. ASSUME NEW u \in Thread, pc'[u] \in UnmatchedPc
            PROVE  calls'[u][Now(u)'].performed = 0
        <5>1. u # t /\ u # o.th /\ pc[u] \in UnmatchedPc /\ Now(u) \in 1..Now(u)
          BY <2>1, <3>1, <3>4, <3>7, <4>1 DEF UnmatchedPc
        <5> QED
          BY <3>3, <5>1 DEF CallInv, Unmatched
      <4>2. ASSUME NEW u \in Thread, NEW k \in 1..Now(u)', calls'[u][k].performed = 0
            PROVE  /\ k = Now(u)'
                   /\ pc'[u] \in UnmatchedPc \/ (pc'[u] = "relock" /\ <<u, k>> \in conds')
        <5>1. k \in 1..Now(u) /\ calls[u][k].performed = 0 /\ ~(u = t /\ k = Now(t))
          BY <3>3, <3>4, <4>2
        <5>2. /\ k = Now(u)
              /\ pc[u] \in UnmatchedPc \/ (pc[u] = "relock" /\ <<u, k>> \in conds)
          BY <5>1 DEF CallInv, Unmatched
        <5> QED
          BY <2>1, <3>3, <3>4, <5>1, <5>2
      <4> QED
        BY <4>1, <4>2 DEF Unmatched
    <3>9. Signalled'
      <4>1. ASSUME NEW u \in Thread, NEW k \in Nat, <<u, k>> \in conds, calls'[u][k].performed # 0
            PROVE  u = o.th /\ k = o.call
        <5>1. u # t /\ k \in 1..Now(u)
          BY <2>2, <3>7, <4>1 DEF WaitInv, InConds
        <5>2. calls[u][k].performed = 0
          BY <3>4, <3>5, <4>1 DEF CallInv, Signalled
        <5> QED
          BY <3>3, <4>1, <5>1, <5>2
      <4> QED
        BY <3>4, <3>6, <4>1 DEF Signalled
    <3>10. Partners'
      <4>1. ValidOffer(o)' /\ Performed(o)' # 0
        BY <1>2, <3>1, <3>2, <3>3, <3>4, ValidKept DEF Performed
      <4> QED
        BY <3>2, <3>4, <3>5, <3>6, <4>1 DEF CallInv, Partners
    <3> QED
      BY <3>8, <3>9, <3>10 DEF CallInv
  <2>9. CASE Signal(t)
    <3> PICK h, n : h = partner[t].th /\ n = partner[t].call
      OBVIOUS
    <3>1. /\ pc[t] = "signal" /\ pc'[t] = "unlock" /\ conds' = conds \ {<<h, n>>}
          /\ calls' = calls /\ \A u \in Thread : Now(u)' = Now(u)
          /\ partner'[t] = NoOffer /\ \A u \in Thread : u # t => partner'[u] = partner[u]
      BY <1>1, <2>9 DEF Signal, Running, Goto, Now
    <3>2. h \in Thread /\ n \in 1..Now(h) /\ calls[h][n].performed # 0
      BY <3>1 DEF CallInv, Partners, ValidOffer, Performed, OfferType
    <3>3. \A u \in Thread : u # t => pc[u] # "signal" /\ pc'[u] # "signal"
      BY <2>1, <2>3, <3>1 DEF HolderPc
    <3>4. Unmatched'
      BY <2>1, <3>1, <3>2 DEF CallInv, Unmatched, UnmatchedPc
    <3>5. Signalled'
      <4>1. ASSUME NEW u \in Thread, NEW k \in Nat, <<u, k>> \in conds', calls[u][k].performed # 0
            PROVE  FALSE
        <5>1. <<u, k>> \in conds /\ (u # h \/ k # n)
          BY <3>1, <4>1
        <5>2. PICK v \in Thread : pc[v] = "signal" /\ partner[v].th = u /\ partner[v].call = k
          BY <4>1, <5>1 DEF CallInv, Signalled
        <5> QED
          BY <3>3, <5>1, <5>2
      <4> QED
        BY <3>1, <4>1 DEF Signalled
    <3>6. Partners'
      BY <3>1, <3>3 DEF CallInv, Partners
    <3> QED
      BY <3>4, <3>5, <3>6 DEF CallInv
  <2>10. CASE WaitSleep(t)
    <3>1. /\ pc[t] = "waitwake" /\ pc'[t] = "relock" /\ conds' = conds \cup {<<t, Now(t)>>}
          /\ UNCHANGED <<calls, partner>> /\ \A u \in Thread : Now(u)' = Now(u)
      BY <1>1, <2>10 DEF WaitSleep, Running, Goto, Now
    <3>2. calls[t][Now(t)].performed = 0
      BY <3>1 DEF CallInv, Unmatched, UnmatchedPc
    <3>3. \A u \in Thread : pc'[u] = "signal" <=> pc[u] = "signal"
      BY <2>1, <3>1
    <3>4. Unmatched'
      BY <2>1, <3>1, <3>2 DEF CallInv, Unmatched, UnmatchedPc
    <3>5. Signalled'
      BY <3>1, <3>2, <3>3 DEF CallInv, Signalled
    <3>6. Partners'
      BY <2>1, <3>1, <3>3 DEF CallInv, Partners, ValidOffer, Performed, Now
    <3> QED
      BY <3>4, <3>5, <3>6 DEF CallInv
  <2>11. CASE PollSend(t) \/ PollReceive(t)
    BY <2>7, <2>8, <2>11, PollStep
  <2> QED
    BY <1>2, <2>4, <2>5, <2>6, <2>9, <2>10, <2>11 DEF Step
<1>3. CASE UNCHANGED <<program, calls, pc, partner, conds>>
  BY <1>3 DEF CallInv, Unmatched, Signalled, Partners, ValidOffer, Performed, Now
<1>4. Preempt \/ UNCHANGED vars => UNCHANGED <<program, calls, pc, partner, conds>>
  BY DEF Preempt, vars
<1> QED
  BY <1>2, <1>3, <1>4 DEF Next, Stopped

(* A receive gets its data before it is marked as performed. *)
DataAt(t, k) ==
  LET e == calls[t][k].performed
  IN e > 0 /\ EventOf(t, k, e).op = "receive" => calls[t][k].data[e] # NoData

LEMMA DataStep ==
  ASSUME TypeInv, LockInv, CallInv, QueueInv, DataInv, [Next]_vars
  PROVE  DataInv'
<1>1. TypeOK /\ \A u \in Thread : Now(u) \in Nat
  BY NowType DEF TypeInv
<1>2. ASSUME NEW t \in Thread, Step(t) PROVE DataInv'
  <2> SUFFICES ASSUME NEW u \in Thread, NEW k \in 1..Now(u)' PROVE DataAt(u, k)'
    BY DEF DataInv, DataAt
  <2>1. k \in 1..Now(u) => DataAt(u, k)
    BY DEF DataInv, DataAt
  <2>2. k \in 1..Now(u) => \A e : EventOf(u, k, e)' = EventOf(u, k, e)
    BY <1>2, SameEvent
  <2>3. k \in 1..Now(u) => /\ Len(calls[u][k].data) = Len(program[u][k].evs)
                           /\ Len(program[u][k].evs) \in Nat
                           /\ calls[u][k].performed \in -1..Len(program[u][k].evs)
    BY <1>1, EventType DEF TypeOK
  <2>4. CASE Begin(t)
    <3>1. PICK p : CallAdded(calls, calls', t, NewCall(p))
      BY <2>4, BeginEffect
    <3>2. CASE k \in 1..Now(u)
      <4>1. calls'[u][k] = calls[u][k]
        BY <3>1, <3>2 DEF CallAdded, Now
      <4> QED
        BY <2>1, <2>2, <3>2, <4>1 DEF DataAt
    <3>3. CASE k \notin 1..Now(u)
      <4>1. u = t /\ k = Now(t) + 1
        BY <1>1, <3>1, <3>3 DEF CallAdded, Now
      <4>2. calls'[u][k].performed = 0
        BY <3>1, <4>1 DEF CallAdded, Now, NewCall
      <4> QED
        BY <4>2 DEF DataAt
    <3> QED
      BY <3>2, <3>3
  <2>5. CASE PollAlways(t) \/ PollFails(t)
    <3>1. PICK v : /\ PerformedSet(calls, calls', t, Now(t), v)
                   /\ v = -1 \/ (v = pos[t] /\ Ev(t).op = "always")
      BY <2>5, PerformEffect DEF PollAlways
    <3>2. /\ k \in 1..Now(u) /\ calls'[u][k].data = calls[u][k].data
          /\ calls'[u][k].performed = IF u = t /\ k = Now(t) THEN v ELSE calls[u][k].performed
      BY <3>1 DEF PerformedSet, Now
    <3>3. CASE u = t /\ k = Now(t)
      BY <2>2, <3>1, <3>2, <3>3 DEF DataAt, Ev
    <3>4. CASE ~(u = t /\ k = Now(t))
      BY <2>1, <2>2, <3>2, <3>4 DEF DataAt
    <3> QED
      BY <3>3, <3>4
  <2>6. CASE (PollSend(t) \/ PollReceive(t)) /\ Matched(t)
    <3> PICK o, r, v, e : /\ o = First(t) /\ r = Reader(t) /\ v = Sent(t)
                          /\ e = calls'[u][k].performed
      OBVIOUS
    <3>1. /\ o.th \in Thread /\ o.th # t /\ o.call \in 1..Now(o.th)
          /\ GoodOffer(o, IF Ev(t).op = "send" THEN "receive" ELSE "send", Ev(t).ch)
      BY <2>6, LivePartner
    <3>2. /\ o \in OfferType /\ ValidOffer(o) /\ MetCalls(t, o, r, v) /\ v \in Val
          /\ pos[t] \in 1..NumEvents(t) /\ NoData \notin Val
      BY <2>6, PollStep, EventConstants DEF Matched
    <3>3. k \in 1..Now(u)
      BY <3>2 DEF MetCalls
    <3>4. /\ e = IF u = o.th /\ k = o.call THEN o.ev
                 ELSE IF u = t /\ k = Now(t) THEN pos[t] ELSE calls[u][k].performed
          /\ \A i \in 1..Len(calls[u][k].data) :
               calls'[u][k].data[i] =
                 IF u = r.th /\ k = r.call /\ i = r.ev THEN v ELSE calls[u][k].data[i]
      BY <3>2, <3>3 DEF MetCalls
    <3>5. SUFFICES ASSUME e > 0, EventOf(u, k, e).op = "receive"
                   PROVE  calls'[u][k].data[e] # NoData
      BY <2>2, <3>3 DEF DataAt
    <3>6. (Ev(t).op = "send" /\ r = o) \/ (Ev(t).op = "receive" /\ r = Offer(t, pos[t]))
      BY <2>6 DEF PollSend, PollReceive, Reader
    <3>7. CASE u = o.th /\ k = o.call
      <4>1. e = o.ev /\ EventOf(u, k, e).op = IF Ev(t).op = "send" THEN "receive" ELSE "send"
        BY <3>1, <3>4, <3>7 DEF GoodOffer
      <4>2. r = o
        BY <3>5, <3>6, <4>1
      <4>3. e \in 1..Len(calls[u][k].data)
        BY <2>3, <3>2, <3>3, <3>7, <4>1 DEF ValidOffer
      <4> QED
        BY <3>2, <3>4, <3>7, <4>1, <4>2, <4>3
    <3>8. CASE u = t /\ k = Now(t)
      <4>1. e = pos[t] /\ Ev(t).op = "receive"
        BY <3>1, <3>4, <3>5, <3>8 DEF Ev
      <4>2. r.th = t /\ r.call = Now(t) /\ r.ev = pos[t]
        BY <3>6, <4>1 DEF Offer
      <4>3. e \in 1..Len(calls[u][k].data)
        BY <2>3, <3>2, <3>3, <3>8, <4>1 DEF NumEvents
      <4> QED
        BY <3>2, <3>4, <3>8, <4>1, <4>2, <4>3
    <3>9. CASE ~(u = o.th /\ k = o.call) /\ ~(u = t /\ k = Now(t))
      <4>1. e = calls[u][k].performed /\ e \in 1..Len(calls[u][k].data)
        BY <2>3, <3>3, <3>4, <3>5, <3>9
      <4>2. calls[u][k].data[e] # NoData
        BY <2>1, <3>3, <3>5, <4>1 DEF DataAt
      <4> QED
        BY <3>2, <3>4, <4>1, <4>2
    <3> QED
      BY <3>7, <3>8, <3>9
  <2>7. CASE UNCHANGED calls
    BY <2>1, <2>2, <2>7 DEF DataAt, Now
  <2> QED
    BY <1>2, <2>4, <2>5, <2>6, <2>7, CallsUnchanged, PollStep DEF Missed, Miss
<1>3. CASE UNCHANGED <<program, calls>>
  BY <1>3 DEF DataInv, EventOf, Now
<1>4. Preempt \/ UNCHANGED vars => UNCHANGED <<program, calls>>
  BY DEF Preempt, vars
<1> QED
  BY <1>2, <1>3, <1>4 DEF Next, Stopped

(* The exceptions thread_wakeup and receive's result could raise. *)
NoFailure == error # "result"

LEMMA FailureStep ==
  ASSUME TypeInv, CallInv, DataInv, NoFailure, [Next]_vars
  PROVE  NoFailure'
<1>1. ASSUME NEW t \in Thread, Step(t) PROVE NoFailure'
  <2>1. CASE Result(t)
    <3>1. Now(t) \in 1..Now(t) /\ pc[t] = "wake"
      BY <2>1, NowType DEF TypeInv, InCall, Result, Running
    <3>2. calls[t][Now(t)].performed # 0
      BY <3>1 DEF CallInv, Unmatched, UnmatchedPc
    <3>3. DataAt(t, Now(t))
      BY <3>1 DEF DataInv, DataAt
    <3> QED
      BY <2>1, <3>2, <3>3 DEF Result, DataAt, NoFailure
  <2>2. CASE LockSleep(t) \/ WaitSleep(t) \/ Exit(t)
    BY <2>2 DEF LockSleep, WaitSleep, Exit, sleep, schedule_thread, NoFailure
  <2>3. CASE Signal(t) \/ Wake(t)
    BY <2>3 DEF Signal, Wake, wakeup, NoFailure
  <2>4. \/ Result(t) \/ LockSleep(t) \/ WaitSleep(t) \/ Exit(t) \/ Signal(t) \/ Wake(t)
        \/ UNCHANGED error
    BY <1>1 DEF Step, Begin, LockFree, LockBusy, PollAlways, PollSend, PollReceive, PollFails,
                Suspend, Wait, Unlock, schedVars
  <2> QED
    BY <2>1, <2>2, <2>3, <2>4 DEF NoFailure
<1>2. CASE Preempt
  BY <1>2 DEF Preempt, schedule_thread, NoFailure
<1>3. CASE UNCHANGED vars
  BY <1>3 DEF vars, schedVars, NoFailure
<1> QED
  BY <1>1, <1>2, <1>3 DEF Next, Stopped

CoreInv ==
  TypeInv /\ LockInv /\ SchedInv /\ WaitInv /\ CallInv /\ QueueInv /\ DataInv /\ NoFailure

LEMMA CoreInit == Init => CoreInv
<1>1. Init => NoFailure
  BY DEF Init, NoFailure
<1> QED
  BY <1>1, TypeInit, LockInit, WaitInit, CallInit DEF CoreInv

LEMMA CoreStep ==
  ASSUME CoreInv, [Next]_vars
  PROVE  CoreInv'
BY TypeStep, LockStep, SchedStep, WaitStep, CallStep, QueueStep, DataStep, FailureStep
   DEF CoreInv

LEMMA HoldersCount == LockInv => Cardinality(Holders) = IF locked THEN 1 ELSE 0
<1> SUFFICES ASSUME LockInv PROVE Cardinality(Holders) = IF locked THEN 1 ELSE 0
  OBVIOUS
<1>1. CASE locked
  <2>1. PICK t \in Thread : pc[t] \in HolderPc
    BY <1>1 DEF LockInv
  <2>2. Holders = {t}
    BY <2>1 DEF LockInv, Holders, HolderPc
  <2> QED
    BY <1>1, <2>2, FS_Singleton
<1>2. CASE ~locked
  <2>1. Holders = {}
    BY <1>2 DEF LockInv, Holders, HolderPc
  <2> QED
    BY <1>2, <2>1, FS_EmptySet
<1> QED
  BY <1>1, <1>2

LEMMA CoreNoLostWakeup == CoreInv => NoLostWakeup
<1> SUFFICES ASSUME CoreInv PROVE NoLostWakeup
  OBVIOUS
<1>1. TypeOK /\ LockInv /\ SchedInv /\ WaitInv /\ CallInv /\ NoFailure
  BY DEF CoreInv, TypeInv
<1>2. error \notin {"wakeup", "result"}
  BY <1>1 DEF SchedInv, NoFailure
<1>3. \A S : \A s \in Seq(S) : \A x : InSeq(x, s) => x \in Range(s) /\ s # <<>>
  BY DEF InSeq, Range
<1>4. ASSUME NEW t \in Thread, status[t] = "SUSPENDED"
      PROVE  \/ locked /\ t \in Range(waiting)
             \/ \E u \in Thread : t \in Range(towake[u])
             \/ /\ <<t, Now(t)>> \in conds
                /\ \/ Offering(t)
                   \/ \E u \in Holders : partner[u] # NoOffer /\ partner[u].th = t
  <2>1. waiting \in Seq(Thread) /\ towake \in [Thread -> Seq(Thread)] /\ Now(t) \in Nat
    BY <1>1, NowType DEF TypeOK
  <2>2. CASE InSeq(t, waiting)
    BY <1>1, <1>3, <2>1, <2>2 DEF WaitInv, InWaiting
  <2>3. CASE \E u \in Thread : InSeq(t, towake[u])
    BY <1>3, <2>1, <2>3
  <2>4. CASE <<t, Now(t)>> \in conds
    <3>1. pc[t] = "relock"
      BY <1>1, <2>1, <2>4 DEF WaitInv, InConds
    <3>2. CASE calls[t][Now(t)].performed = 0
      BY <2>4, <3>1, <3>2 DEF Offering
    <3>3. CASE calls[t][Now(t)].performed # 0
      <4>1. PICK u \in Thread : pc[u] = "signal" /\ partner[u].th = t
        BY <1>1, <2>1, <2>4, <3>3 DEF CallInv, Signalled
      <4>2. partner[u] # NoOffer /\ u \in Holders
        BY <1>1, <4>1, EventConstants DEF CallInv, Partners, Holders
      <4> QED
        BY <2>4, <4>1, <4>2
    <3> QED
      BY <3>2, <3>3
  <2> QED
    BY <1>1, <1>4, <2>2, <2>3, <2>4 DEF WaitInv, Somewhere
<1> QED
  BY <1>1, <1>2, <1>4, HoldersCount DEF NoLostWakeup

(* No wake-up is lost, for every number of threads, every program and      *)
(* every schedule: a thread that sleep (scheduler.c: thread_sleep) has     *)
(* suspended is in the list of the mutex, in the list of a thread that is  *)
(* in the middle of Mutex.unlock, or waits on a condition that somebody is *)
(* about to signal or on an offer that nobody has matched; masterlock has  *)
(* at most one holder; neither of the two exceptions is raised.            *)
THEOREM WakeupsKept == Spec => []NoLostWakeup
<1>1. Spec => []CoreInv
  BY CoreInit, CoreStep, PTL DEF Spec
<1> QED
  BY <1>1, CoreNoLostWakeup, PTL
=============================================================================
