---------------------------- MODULE ClockProofs ----------------------------
(***************************************************************************)
(* Proofs about Clock: the lists of timers, the hardware timers, the locks *)
(* and the time of day, from what the CPUs execute (ClockExec).            *)
(***************************************************************************)
EXTENDS ClockExec

(***************************************************************************)
(* The list of a CPU with an element taken out, and with one put in.       *)
(***************************************************************************)
TimerType == [Timer -> [tt : Cpus \cup {None}, twhen : Nat]]
Sorted(q, tm) ==
  \A i, j \in 1..Len(q) : i < j => tm[q[i]].twhen <= tm[q[j]].twhen /\ q[i] # q[j]

LEMMA InToSet ==
  ASSUME NEW S, NEW s \in Seq(S), NEW t
  PROVE  t \in ToSet(s) <=> InSeq(t, s)
BY LenProperties DEF ToSet, InSeq

LEMMA WithoutSorted ==
  ASSUME NEW tm \in TimerType, NEW q \in Seq(Timer), Sorted(q, tm), NEW i \in 1..Len(q),
         NEW z \in Seq(Timer), Without(z, q, i)
  PROVE  /\ Sorted(z, tm)
         /\ \A u : InSeq(u, z) <=> InSeq(u, q) /\ u # q[i]
         /\ z # <<>> => tm[q[1]].twhen <= tm[z[1]].twhen
         /\ i = 1 /\ Len(q) > 1 => z[1] = q[2]
<1> PICK n : n = Len(q)
  OBVIOUS
<1> DEFINE P(j) == IF j < i THEN j ELSE j + 1
<1>1. /\ n \in Nat \ {0} /\ i \in 1..n /\ Len(z) = n - 1 /\ z \in Seq(Timer)
      /\ \A j \in 1..n : q[j] \in Timer
  BY LenProperties, ElementOfSeq DEF Without
<1>2. \A j \in 1..(n - 1) : P(j) \in 1..n /\ P(j) # i /\ z[j] = q[P(j)]
  BY <1>1 DEF Without
<1>3. \A j, k \in 1..(n - 1) : j < k => P(j) < P(k)
  BY <1>1
<1>4. \A j \in 1..n : j # i => \E k \in 1..(n - 1) : P(k) = j
  <2>1. ASSUME NEW j \in 1..n, j < i PROVE j \in 1..(n - 1) /\ P(j) = j
    BY <1>1, <2>1
  <2>2. ASSUME NEW j \in 1..n, j > i PROVE j - 1 \in 1..(n - 1) /\ P(j - 1) = j
    BY <1>1, <2>2
  <2>3. \A j \in 1..n : j < i \/ j = i \/ j > i
    BY <1>1
  <2> HIDE DEF P
  <2> QED
    BY <2>1, <2>2, <2>3
<1> HIDE DEF P
<1>5. Sorted(z, tm)
  <2> SUFFICES ASSUME NEW j \in 1..(n - 1), NEW k \in 1..(n - 1), j < k
               PROVE  tm[z[j]].twhen <= tm[z[k]].twhen /\ z[j] # z[k]
    BY <1>1 DEF Sorted
  <2> QED
    BY <1>2, <1>3 DEF Sorted
<1>6. ASSUME NEW u PROVE InSeq(u, z) <=> InSeq(u, q) /\ u # q[i]
  <2>1. ASSUME NEW j \in 1..n, j # i PROVE q[j] # q[i]
    <3>1. j < i \/ i < j
      BY <1>1, <2>1
    <3> QED
      BY <3>1 DEF Sorted
  <2>2. ASSUME NEW j \in 1..(n - 1), z[j] = u PROVE InSeq(u, q) /\ u # q[i]
    BY <1>2, <2>1, <2>2 DEF InSeq
  <2>3. ASSUME NEW j \in 1..n, q[j] = u, u # q[i] PROVE InSeq(u, z)
    <3>1. PICK k \in 1..(n - 1) : P(k) = j
      BY <1>4, <2>3
    <3> QED
      BY <1>1, <1>2, <2>3, <3>1 DEF InSeq
  <2> QED
    BY <1>1, <2>2, <2>3 DEF InSeq
<1>7. ASSUME z # <<>> PROVE tm[q[1]].twhen <= tm[z[1]].twhen
  <2>1. 1 \in 1..(n - 1) /\ 1 \in 1..n
    <3>1. Len(z) # 0 /\ Len(z) \in Nat
      BY <1>1, <1>7, EmptySeq, LenProperties
    <3> QED
      BY <1>1, <3>1
  <2>2. z[1] = q[P(1)] /\ P(1) \in 1..n
    BY <1>2, <2>1
  <2>3. tm[q[1]].twhen \in Nat
    BY <1>1, <2>1 DEF TimerType
  <2>4. P(1) = 1 \/ 1 < P(1)
    BY <2>2
  <2> QED
    BY <2>1, <2>2, <2>3, <2>4 DEF Sorted
<1>8. ASSUME i = 1, n > 1 PROVE z[1] = q[2]
  <2>1. 1 \in i..(n - 1) /\ 1 + 1 = 2
    BY <1>1, <1>8
  <2> QED
    BY <2>1 DEF Without
<1> QED
  BY <1>5, <1>6, <1>7, <1>8

(* A list that is not empty without its head is its tail. *)
LEMMA TailWithout ==
  ASSUME NEW q \in Seq(Timer), q # <<>>
  PROVE  Tail(q) \in Seq(Timer) /\ Without(Tail(q), q, 1) /\ 1 \in 1..Len(q)
<1>1. /\ Tail(q) \in Seq(Timer) /\ Len(Tail(q)) = Len(q) - 1 /\ Len(q) \in Nat \ {0}
      /\ \A j \in 1..Len(Tail(q)) : Tail(q)[j] = q[j + 1]
  BY HeadTailProperties, LenProperties, EmptySeq
<1> QED
  BY <1>1 DEF Without

Ascending(w, n) == \A i, j \in 1..n : i < j => w[i] <= w[j]
Above(w, n, x) == {j \in 1..n : w[j] > x}
Splits(p, w, n, x) ==
  /\ p \in 1..n
  /\ \A j \in 1..(p - 1) : j \in 1..n /\ w[j] <= x
  /\ \A j \in p..n : j \in 1..n /\ x <= w[j]

(* In an ascending row of numbers, the first one above a bound splits the row. *)
LEMMA FirstAbove ==
  ASSUME NEW n \in Nat, NEW w \in [1..n -> Nat], NEW x \in Nat,
         Ascending(w, n), NEW S, S = Above(w, n, x), S # {}
  PROVE  Splits(Min(S), w, n, x)
<1> PICK p : p = Min(S)
  OBVIOUS
<1>1. p \in S /\ \A j \in S : p <= j
  <2>1. S \in SUBSET Nat
    BY DEF Above
  <2> QED
    BY <2>1, MinOf
<1>2. p \in 1..n /\ w[p] > x
  BY <1>1 DEF Above
<1>3. ASSUME NEW j \in 1..(p - 1) PROVE j \in 1..n /\ w[j] <= x
  <2>1. j \in 1..n /\ ~(p <= j)
    BY <1>2
  <2>2. j \notin S
    BY <1>1, <2>1
  <2> QED
    BY <2>1, <2>2 DEF Above
<1>4. ASSUME NEW j \in p..n PROVE j \in 1..n /\ x <= w[j]
  <2>1. j \in 1..n /\ w[p] <= w[j]
    BY <1>2 DEF Ascending
  <2> QED
    BY <1>2, <2>1
<1> QED
  BY <1>2, <1>3, <1>4 DEF Splits

LEMMA InsertedSorted ==
  ASSUME timer \in TimerType, NEW q \in Seq(Timer), Sorted(q, timer), NEW e \in Timer, ~InSeq(e, q),
         NEW when \in Nat, NEW tm, tm[e].twhen = when, \A u \in Timer : u # e => tm[u] = timer[u],
         NEW z, z = Inserted(q, e, when)
  PROVE  /\ z \in Seq(Timer) /\ Sorted(z, tm) /\ z # <<>>
         /\ \A u : InSeq(u, z) <=> InSeq(u, q) \/ u = e
         /\ z[1] = e \/ (q # <<>> /\ z[1] = q[1])
<1> PICK n : n = Len(q)
  OBVIOUS
<1>1. n \in Nat /\ \A j \in 1..n : q[j] \in Timer /\ q[j] # e /\ timer[q[j]].twhen \in Nat
  BY LenProperties, ElementOfSeq DEF InSeq, TimerType
<1> DEFINE later == {j \in 1..n : timer[q[j]].twhen > when}
<1>2. PICK p \in 1..(n + 1) : /\ z = InsertAt(q, p, e)
                              /\ \A j \in 1..(p - 1) : timer[q[j]].twhen <= when
                              /\ \A j \in p..n : when <= timer[q[j]].twhen
  <2>1. CASE later = {}
    <3>1. z = InsertAt(q, n + 1, e)
      BY <2>1 DEF Inserted
    <3>2. n + 1 \in 1..(n + 1) /\ n + 1 - 1 = n /\ \A j \in (n + 1)..n : FALSE
      BY <1>1
    <3>3. \A j \in 1..n : timer[q[j]].twhen <= when
      BY <1>1, <2>1
    <3> QED
      BY <3>1, <3>2, <3>3
  <2>2. CASE later # {}
    <3> PICK w : w = [j \in 1..n |-> timer[q[j]].twhen]
      OBVIOUS
    <3>1. n \in Nat /\ w \in [1..n -> Nat] /\ later = Above(w, n, when)
      BY <1>1 DEF Above
    <3>2. Ascending(w, n)
      BY DEF Sorted, Ascending
    <3>3. z = InsertAt(q, Min(later), e)
      BY <2>2 DEF Inserted
    <3> HIDE DEF later
    <3>4. Splits(Min(later), w, n, when)
      BY <2>2, <3>1, <3>2, FirstAbove
    <3>5. Min(later) \in 1..(n + 1)
      BY <1>1, <3>4 DEF Splits
    <3>6. /\ \A j \in 1..(Min(later) - 1) : timer[q[j]].twhen <= when
          /\ \A j \in Min(later)..n : when <= timer[q[j]].twhen
      BY <3>4 DEF Splits
    <3> QED
      BY <3>3, <3>5, <3>6
  <2> QED
    BY <2>1, <2>2
<1> HIDE DEF later
<1>3. /\ z \in Seq(Timer) /\ Len(z) = n + 1 /\ z[p] = e
      /\ \A j \in 1..(p - 1) : z[j] = q[j]
      /\ \A j \in p..n : z[j + 1] = q[j]
  <2>1. z \in Seq(Timer) /\ With(z, q, p, e)
    BY <1>2, InsertedAt
  <2> QED
    BY <2>1 DEF With
<1> DEFINE P(j) == IF j < p THEN j ELSE j - 1
<1>4. ASSUME NEW j \in 1..(n + 1), j # p
      PROVE  P(j) \in 1..n /\ z[j] = q[P(j)] /\ (j < p => P(j) = j /\ j \in 1..(p - 1))
             /\ (p < j => P(j) = j - 1 /\ P(j) \in p..n)
  <2>1. CASE j < p
    <3>1. j \in 1..(p - 1) /\ j \in 1..n /\ P(j) = j /\ ~(p < j)
      BY <1>1, <1>2, <2>1
    <3> QED
      BY <1>3, <2>1, <3>1
  <2>2. CASE p < j
    <3> PICK k : k = j - 1
      OBVIOUS
    <3>1. k \in p..n /\ k \in 1..n /\ k + 1 = j /\ P(j) = k /\ ~(j < p)
      BY <1>1, <1>2, <2>2
    <3>2. z[k + 1] = q[k]
      BY <1>3, <3>1
    <3> QED
      BY <2>2, <3>1, <3>2
  <2> QED
    BY <1>1, <1>2, <1>4, <2>1, <2>2
<1>5. \A j, k \in 1..(n + 1) : j < k /\ j # p /\ k # p => P(j) < P(k)
  BY <1>1, <1>2
<1> HIDE DEF P
<1>6. Sorted(z, tm)
  <2> SUFFICES ASSUME NEW j \in 1..(n + 1), NEW k \in 1..(n + 1), j < k
               PROVE  tm[z[j]].twhen <= tm[z[k]].twhen /\ z[j] # z[k]
    BY <1>3 DEF Sorted
  <2>1. CASE j # p /\ k # p
    <3>1. /\ P(j) \in 1..n /\ P(k) \in 1..n /\ P(j) < P(k) /\ z[j] = q[P(j)] /\ z[k] = q[P(k)]
      BY <1>4, <1>5, <2>1
    <3>2. timer[z[j]].twhen <= timer[z[k]].twhen /\ z[j] # z[k]
      BY <3>1 DEF Sorted
    <3>3. tm[z[j]] = timer[z[j]] /\ tm[z[k]] = timer[z[k]]
      BY <1>1, <3>1
    <3> QED
      BY <3>2, <3>3
  <2>2. CASE j = p
    <3>1. k # p /\ p < k /\ z[j] = e
      BY <1>2, <1>3, <2>2
    <3>2. P(k) \in p..n /\ P(k) \in 1..n /\ z[k] = q[P(k)]
      BY <1>4, <3>1
    <3>3. when <= timer[q[P(k)]].twhen /\ q[P(k)] \in Timer /\ q[P(k)] # e
      BY <1>1, <1>2, <3>2
    <3> QED
      BY <3>1, <3>2, <3>3
  <2>3. CASE k = p
    <3>1. j # p /\ j < p /\ z[k] = e
      BY <1>2, <1>3, <2>3
    <3>2. j \in 1..(p - 1) /\ j \in 1..n /\ z[j] = q[j]
      BY <1>4, <3>1
    <3>3. timer[q[j]].twhen <= when /\ q[j] \in Timer /\ q[j] # e
      BY <1>1, <1>2, <3>2
    <3> QED
      BY <3>1, <3>2, <3>3
  <2> QED
    BY <2>1, <2>2, <2>3
<1>7. ASSUME NEW u PROVE InSeq(u, z) <=> InSeq(u, q) \/ u = e
  <2>1. ASSUME NEW j \in 1..(n + 1), z[j] = u PROVE InSeq(u, q) \/ u = e
    BY <1>3, <1>4, <2>1 DEF InSeq
  <2>2. ASSUME NEW j \in 1..n, q[j] = u PROVE InSeq(u, z)
    <3>1. CASE j < p
      <4>1. j \in 1..(n + 1) /\ j \in 1..(p - 1)
        BY <1>1, <1>2, <3>1
      <4> QED
        BY <1>3, <2>2, <4>1 DEF InSeq
    <3>2. CASE ~(j < p)
      <4>1. j + 1 \in 1..(n + 1) /\ j \in p..n
        BY <1>1, <1>2, <3>2
      <4> QED
        BY <1>3, <2>2, <4>1 DEF InSeq
    <3> QED
      BY <3>1, <3>2
  <2>3. InSeq(e, z)
    BY <1>2, <1>3 DEF InSeq
  <2> QED
    BY <1>3, <2>1, <2>2, <2>3 DEF InSeq
<1>8. z[1] = e \/ (q # <<>> /\ z[1] = q[1])
  <2>1. CASE p = 1
    BY <1>3, <2>1
  <2>2. CASE p # 1
    <3>1. 1 \in 1..(p - 1) /\ n # 0
      BY <1>1, <1>2, <2>2
    <3>2. q # <<>>
      BY <3>1
    <3> QED
      BY <1>3, <3>1, <3>2
  <2> QED
    BY <2>1, <2>2
<1>9. z # <<>>
  <2>1. Len(z) # 0
    BY <1>1, <1>3
  <2> QED
    BY <2>1
<1> QED
  BY <1>3, <1>6, <1>7, <1>8, <1>9

-----------------------------------------------------------------------------
(***************************************************************************)
(* The lists of all CPUs: tadd puts a timer that is on none of them on the *)
(* list of its CPU, tdel and timerintr take one off the list it is on.     *)
(***************************************************************************)
HeadType == [Cpus -> Seq(Timer)]
ListInv ==
  \A c \in Cpus : Sorted(head[c], timer) /\ \A t \in Timer : timer[t].tt = c <=> InSeq(t, head[c])

OtherLists(c) == head' \in HeadType /\ \A d \in Cpus : d # c => head'[d] = head[d]
Links(c, t) ==
  /\ timer' \in TimerType /\ timer'[t].tt = c /\ \A u \in Timer : u # t => timer'[u] = timer[u]
  /\ OtherLists(c) /\ Sorted(head'[c], timer') /\ head'[c] # <<>>
  /\ \A u : InSeq(u, head'[c]) <=> InSeq(u, head[c]) \/ u = t
  /\ head'[c][1] = t \/ (head[c] # <<>> /\ head'[c][1] = head[c][1])
Unlinks(c, t) ==
  /\ timer' \in TimerType /\ timer'[t].tt = None
  /\ \A u \in Timer : timer'[u].twhen = timer[u].twhen /\ (u # t => timer'[u] = timer[u])
  /\ OtherLists(c) /\ Sorted(head'[c], timer)
  /\ \A u : InSeq(u, head'[c]) <=> InSeq(u, head[c]) /\ u # t
  /\ head'[c] # <<>> => head[c] # <<>> /\ timer[head[c][1]].twhen <= timer[head'[c][1]].twhen
  /\ head[c][1] = t /\ Len(head[c]) > 1 => head'[c][1] = head[c][2]

LEMMA ListTypes ==
  ASSUME TypeOK, NEW c \in Cpus
  PROVE  /\ timer \in TimerType /\ head \in HeadType /\ head[c] \in Seq(Timer)
         /\ \A j \in 1..Len(head[c]) : head[c][j] \in Timer
         /\ \A u : InSeq(u, head[c]) => u \in Timer
         /\ c # None
<1>1. timer \in TimerType /\ head \in HeadType /\ head[c] \in Seq(Timer)
  BY DEF TypeOK, TimerType, HeadType
<1>2. \A j \in 1..Len(head[c]) : head[c][j] \in Timer
  BY <1>1, ElementOfSeq
<1>3. c # None
  BY ClockConstants
<1> QED
  BY <1>1, <1>2, <1>3 DEF InSeq

LEMMA DueNat ==
  ASSUME TypeOK, NEW c \in Cpus, NEW nt \in Timer
  PROVE  Due(c, nt) \in Nat
<1>1. \A a, b \in Nat : a * b \in Nat
  OBVIOUS
<1>2. tod.divider \in Nat
  BY DEF TypeOK, TodType
<1>3. TickOf(nt) \in Nat
  BY <1>1, <1>2, ClockConstants DEF TickOf, ns2fastticks
<1> DEFINE same == {t \in ToSet(head[c]) : Periodic(t)}
<1>4. \A t \in same : t \in Timer
  BY InToSet, ListTypes
<1>5. \A t \in Timer : timer[t].twhen \in Nat
  BY DEF TypeOK
<1>6. now \in Nat
  BY DEF TypeOK
<1>7. same # {} => (CHOOSE t \in same : TRUE) \in same
  OBVIOUS
<1> DEFINE from == IF ~Periodic(nt) THEN now
                   ELSE IF timer[nt].twhen # 0 THEN timer[nt].twhen
                   ELSE IF same # {} THEN timer[CHOOSE t \in same : TRUE].twhen ELSE now
<1>8. Due(c, nt) = from + TickOf(nt)
  BY DEF Due
<1>9. from \in Nat
  <2> HIDE DEF same
  <2>1. same # {} => timer[CHOOSE t \in same : TRUE].twhen \in Nat
    BY <1>4, <1>5, <1>7
  <2> QED
    BY <1>5, <1>6, <2>1
<1> HIDE DEF from
<1> QED
  BY <1>3, <1>8, <1>9

LEMMA TaddLinks ==
  ASSUME TypeOK, ListInv, NEW c \in Cpus, NEW nt \in Timer, timer[nt].tt = None, tadd(c, nt)
  PROVE  Links(c, nt) /\ failed' = failed
<1> PICK when, q, z : when = Due(c, nt) /\ q = head[c] /\ z = Inserted(q, nt, when)
  OBVIOUS
<1>1. /\ timer \in TimerType /\ head \in HeadType /\ q \in Seq(Timer) /\ c # None
  BY ListTypes
<1>2. when \in Nat
  BY DueNat
<1>3. /\ failed' = (failed \/ timer[nt].tt # None)
      /\ timer' = [timer EXCEPT ![nt] = [tt |-> c, twhen |-> when]]
      /\ head' = [head EXCEPT ![c] = z]
  BY DEF tadd
<1>4. /\ timer' \in TimerType /\ timer'[nt].tt = c /\ timer'[nt].twhen = when
      /\ \A u \in Timer : u # nt => timer'[u] = timer[u]
  BY <1>1, <1>2, <1>3 DEF TimerType
<1>5. Sorted(q, timer) /\ ~InSeq(nt, q)
  BY <1>1 DEF ListInv
<1> PICK tm : tm = timer'
  OBVIOUS
<1>6. /\ z \in Seq(Timer) /\ Sorted(z, tm) /\ z # <<>>
      /\ \A u : InSeq(u, z) <=> InSeq(u, q) \/ u = nt
      /\ z[1] = nt \/ (q # <<>> /\ z[1] = q[1])
  BY <1>1, <1>2, <1>4, <1>5, InsertedSorted
<1>7. OtherLists(c) /\ head'[c] = z
  BY <1>1, <1>3, <1>6 DEF OtherLists, HeadType
<1>8. failed' = failed
  BY <1>3 DEF TypeOK
<1> QED
  BY <1>4, <1>6, <1>7, <1>8 DEF Links

LEMMA RemovalUnlinks ==
  ASSUME TypeOK, ListInv, NEW c \in Cpus, NEW t \in Timer, NEW i \in 1..Len(head[c]), head[c][i] = t,
         NEW z \in Seq(Timer), Without(z, head[c], i),
         timer' = [timer EXCEPT ![t].tt = None], head' = [head EXCEPT ![c] = z]
  PROVE  Unlinks(c, t)
<1> PICK q : q = head[c]
  OBVIOUS
<1>1. timer \in TimerType /\ head \in HeadType /\ q \in Seq(Timer)
  BY ListTypes
<1>2. /\ Sorted(z, timer)
      /\ \A u : InSeq(u, z) <=> InSeq(u, q) /\ u # t
      /\ z # <<>> => timer[q[1]].twhen <= timer[z[1]].twhen
      /\ i = 1 /\ Len(q) > 1 => z[1] = q[2]
  BY <1>1, WithoutSorted DEF ListInv
<1>3. head'[c] = z /\ OtherLists(c)
  BY <1>1 DEF OtherLists, HeadType
<1>4. /\ timer' \in TimerType /\ timer'[t].tt = None
      /\ \A u \in Timer : timer'[u].twhen = timer[u].twhen /\ (u # t => timer'[u] = timer[u])
  BY <1>1 DEF TimerType
<1>5. q # <<>>
  OBVIOUS
<1>6. q[1] = t => i = 1
  <2>1. i \in Nat /\ 1 \in 1..Len(q) /\ i \in 1..Len(q)
    BY <1>1, LenProperties
  <2>2. i = 1 \/ 1 < i
    BY <2>1
  <2>3. 1 < i => q[1] # q[i]
    BY <2>1 DEF ListInv, Sorted
  <2> QED
    BY <2>2, <2>3
<1> QED
  BY <1>2, <1>3, <1>4, <1>5, <1>6 DEF Unlinks

LEMMA TdelUnlinks ==
  ASSUME TypeOK, ListInv, NEW dt \in Timer, tdel(dt)
  PROVE  \/ timer[dt].tt = None /\ timer' = timer /\ head' = head
         \/ timer[dt].tt \in Cpus /\ Unlinks(timer[dt].tt, dt)
<1>1. CASE timer[dt].tt = None
  BY <1>1 DEF tdel
<1>2. CASE timer[dt].tt # None
  <2> PICK c, q : c = timer[dt].tt /\ q = head[c]
    OBVIOUS
  <2>1. c \in Cpus
    BY <1>2 DEF TypeOK
  <2>2. q \in Seq(Timer) /\ InSeq(dt, q)
    BY <2>1, ListTypes DEF ListInv
  <2>3. dt \in ToSet(q)
    BY <2>2, InToSet
  <2> DEFINE places == {i \in 1..Len(q) : q[i] = dt}
  <2> PICK i : i = Min(places)
    OBVIOUS
  <2>4. i \in places
    <3>1. places \in SUBSET Nat /\ places # {}
      BY <2>2, LenProperties DEF InSeq
    <3> HIDE DEF places
    <3> QED
      BY <3>1, MinOf
  <2>5. RemoveAt(q, i) \in Seq(Timer) /\ Without(RemoveAt(q, i), q, i)
    BY <2>2, <2>4, RemovedAt
  <2>6. timer' = [timer EXCEPT ![dt].tt = None] /\ head' = [head EXCEPT ![c] = RemoveAt(q, i)]
    <3>1. ~(c = None \/ dt \notin ToSet(head[c]))
      BY <1>2, <2>3
    <3> QED
      BY <3>1 DEF tdel
  <2>7. Unlinks(c, dt)
    BY <2>1, <2>4, <2>5, <2>6, RemovalUnlinks
  <2> QED
    BY <2>1, <2>7
<1> QED
  BY <1>1, <1>2

LEMMA ListStep ==
  ASSUME TypeOK, ListInv, NEW c \in Cpus, NEW t \in Timer,
         \/ timer[t].tt = None /\ Links(c, t)
         \/ timer[t].tt = c /\ Unlinks(c, t)
  PROVE  ListInv'
<1> SUFFICES ASSUME NEW d \in Cpus
             PROVE  /\ Sorted(head'[d], timer')
                    /\ \A u \in Timer : timer'[u].tt = d <=> InSeq(u, head'[d])
  BY DEF ListInv, Sorted, InSeq
<1>1. /\ Sorted(head[d], timer) /\ \A u \in Timer : timer[u].tt = d <=> InSeq(u, head[d])
      /\ \A j \in 1..Len(head[d]) : head[d][j] \in Timer
      /\ c # None /\ d # None
  BY ListTypes DEF ListInv
<1>2. CASE d # c
  <2>1. ~InSeq(t, head[d]) /\ timer'[t].tt # d /\ head'[d] = head[d]
        /\ \A u \in Timer : u # t => timer'[u] = timer[u]
    BY <1>1, <1>2 DEF Links, Unlinks, OtherLists
  <2>2. \A j \in 1..Len(head[d]) : timer'[head[d][j]] = timer[head[d][j]]
    BY <1>1, <2>1 DEF InSeq
  <2>3. Sorted(head'[d], timer')
    BY <1>1, <2>1, <2>2 DEF Sorted
  <2>4. \A u \in Timer : timer'[u].tt = d <=> InSeq(u, head'[d])
    BY <1>1, <2>1
  <2> QED
    BY <2>3, <2>4
<1>3. CASE d = c /\ timer[t].tt = None /\ Links(c, t)
  BY <1>1, <1>3 DEF Links
<1>4. CASE d = c /\ timer[t].tt = c /\ Unlinks(c, t)
  <2>1. \A u \in Timer : timer'[u].tt = c <=> InSeq(u, head'[c])
    BY <1>1, <1>4 DEF Unlinks
  <2>2. \A j \in 1..Len(head'[c]) : head'[c][j] \in Timer
    BY <1>4, ElementOfSeq DEF Unlinks, OtherLists, HeadType
  <2>3. Sorted(head'[c], timer')
    BY <1>4, <2>2 DEF Unlinks, Sorted
  <2> QED
    BY <1>4, <2>1, <2>3
<1> QED
  BY <1>2, <1>3, <1>4

-----------------------------------------------------------------------------
(***************************************************************************)
(* The frames that care for where a timer is, and what is known of it      *)
(* while they hold its lock or their handler has taken it off.             *)
(***************************************************************************)
Cares(f) == \/ f.pc \in {"tadd", "tadd locked", "tdel", "del"}
            \/ f.pc = "again" /\ f.t \in Cpus
ArmFrame(f) ==
  /\ f.pc \in {"tadd", "tadd locked"} => timer[f.t].tt = None
  /\ f.pc \in {"tdel", "del"} => timer[f.t].tt \in {None, f.tt}
  /\ f.pc = "again" /\ f.t \in Cpus => timer[f.t].tt = None
ArmInv == \A c \in Cpus : \A k \in 1..Len(stack[c]) : ArmFrame(stack[c][k])

(* The HZ timer of a CPU is on no list but its own, which is empty while    *)
(* the CPU boots.                                                          *)
OwnInv == \A c \in Cpus : /\ timer[c].tt \in {None, c}
                          /\ stack[c][1].pc \in BootPc => head[c] = <<>>

HandPc == {"timerintr", "while", "tf", "again"}
BootKept(c) == stack'[c][1].pc \in BootPc => stack[c][1].pc \in BootPc
HandKept(c) == Handling(c) => Handling(c)'
Calm(c) ==
  /\ OthersKept(c)
  /\ \A k \in 1..Len(stack'[c]) : \/ k \in 1..Depth(c) /\ stack'[c][k] = stack[c][k]
                                  \/ ~Cares(stack'[c][k])

LEMMA ReplacedFacts ==
  ASSUME NEW c \in Cpus, NEW n, NEW g, Situation(c, n, g), NEW f, Replaced(c, f)
  PROVE  /\ f.pc \notin BootPc \/ g.pc \in BootPc => BootKept(c)
         /\ g.pc \notin HandPc \/ f.pc \in HandPc => HandKept(c)
         /\ ~Cares(f) => Calm(c)
         /\ f.pc \in HandPc => Handling(c)'
<1>1. /\ n \in {1, 2, 3} /\ Depth(c) = n /\ Len(stack[c]) = n /\ g = stack[c][n]
      /\ OthersKept(c) /\ Len(stack'[c]) = n /\ stack'[c][n] = f
      /\ \A k \in 1..(n - 1) : stack'[c][k] = stack[c][k]
  BY DEF Situation, Replaced, Below, Depth
<1>2. \A k \in 1..n : k # n => stack'[c][k] = stack[c][k]
  BY <1>1
<1>3. f.pc \notin BootPc \/ g.pc \in BootPc => BootKept(c)
  BY <1>1, <1>2 DEF BootKept
<1>4. f.pc \in HandPc => Handling(c)'
  BY <1>1 DEF Handling, HandPc
<1>5. g.pc \notin HandPc => HandKept(c)
  <2> SUFFICES ASSUME g.pc \notin HandPc, Handling(c) PROVE Handling(c)'
    BY DEF HandKept
  <2>1. PICK k \in 1..n : stack[c][k].pc \in HandPc
    BY <1>1 DEF Handling, HandPc
  <2>2. stack'[c][k] = stack[c][k]
    BY <1>1, <1>2, <2>1
  <2> QED
    BY <1>1, <2>1, <2>2 DEF Handling, HandPc
<1>6. ~Cares(f) => Calm(c)
  BY <1>1, <1>2 DEF Calm
<1> QED
  BY <1>3, <1>4, <1>5, <1>6 DEF HandKept

LEMMA PoppedFacts ==
  ASSUME NEW c \in Cpus, NEW n, NEW g, Situation(c, n, g), Popped(c), n # 1
  PROVE  BootKept(c) /\ Calm(c) /\ (g.pc \notin HandPc => HandKept(c))
<1>1. /\ n \in {2, 3} /\ Depth(c) = n /\ Len(stack[c]) = n /\ g = stack[c][n]
      /\ OthersKept(c) /\ Len(stack'[c]) = n - 1
      /\ \A k \in 1..(n - 1) : stack'[c][k] = stack[c][k]
  BY DEF Situation, Popped, Below, Depth
<1>2. BootKept(c)
  BY <1>1 DEF BootKept
<1>3. g.pc \notin HandPc => HandKept(c)
  <2> SUFFICES ASSUME g.pc \notin HandPc, Handling(c) PROVE Handling(c)'
    BY DEF HandKept
  <2>1. PICK k \in 1..n : stack[c][k].pc \in HandPc
    BY <1>1 DEF Handling, HandPc
  <2>2. k \in 1..(n - 1)
    BY <1>1, <2>1
  <2> QED
    BY <1>1, <2>1, <2>2 DEF Handling, HandPc
<1>4. Calm(c)
  <2>1. ASSUME NEW k \in 1..(n - 1) PROVE k \in 1..n /\ stack'[c][k] = stack[c][k]
    BY <1>1
  <2> QED
    BY <1>1, <2>1 DEF Calm
<1> QED
  BY <1>2, <1>3, <1>4

LEMMA CalledFacts ==
  ASSUME NEW c \in Cpus, NEW n, NEW g, Situation(c, n, g), NEW f, NEW e, Called(c, f, e),
         ~Cares(f), ~Cares(e), f.pc \notin BootPc, g.pc \in HandPc => f.pc \in HandPc
  PROVE  BootKept(c) /\ Calm(c) /\ HandKept(c)
<1>1. /\ n \in {1, 2, 3} /\ Depth(c) = n /\ Len(stack[c]) = n /\ g = stack[c][n]
      /\ OthersKept(c) /\ Len(stack'[c]) = n + 1 /\ stack'[c][n] = f /\ stack'[c][n + 1] = e
      /\ \A k \in 1..(n - 1) : stack'[c][k] = stack[c][k]
  BY DEF Situation, Called, Below, Depth
<1>2. BootKept(c)
  <2>1. CASE n = 1
    BY <1>1, <2>1 DEF BootKept
  <2>2. CASE n # 1
    <3>1. 1 \in 1..(n - 1)
      BY <1>1, <2>2
    <3> QED
      BY <1>1, <3>1 DEF BootKept
  <2> QED
    BY <2>1, <2>2
<1>3. HandKept(c)
  <2> SUFFICES ASSUME Handling(c) PROVE Handling(c)'
    BY DEF HandKept
  <2>1. PICK k \in 1..n : stack[c][k].pc \in HandPc
    BY <1>1 DEF Handling, HandPc
  <2>2. k \in 1..(n + 1) /\ stack'[c][k].pc \in HandPc
    <3>1. k \in 1..(n + 1) /\ (k = n \/ k \in 1..(n - 1))
      BY <1>1
    <3> QED
      BY <1>1, <2>1, <3>1
  <2> QED
    BY <1>1, <2>2 DEF Handling, HandPc
<1>4. ASSUME NEW k \in 1..(n + 1)
      PROVE  (k \in 1..n /\ stack'[c][k] = stack[c][k]) \/ ~Cares(stack'[c][k])
  <2>1. k = n + 1 \/ k = n \/ (k \in 1..(n - 1) /\ k \in 1..n)
    BY <1>1
  <2>2. CASE k = n + 1 \/ k = n
    BY <1>1, <2>2
  <2>3. CASE k \in 1..(n - 1) /\ k \in 1..n
    BY <1>1, <2>3
  <2> QED
    BY <2>1, <2>2, <2>3
<1> QED
  BY <1>1, <1>2, <1>3, <1>4 DEF Calm

LEMMA PushedFacts ==
  ASSUME NEW c \in Cpus, NEW n, NEW g, Situation(c, n, g), NEW f, NEW e, Pushed(c, f, e),
         ~Cares(f), ~Cares(e)
  PROVE  BootKept(c) /\ Calm(c) /\ HandKept(c)
<1>1. /\ n \in {1, 2, 3} /\ Depth(c) = n /\ Len(stack[c]) = n /\ g = stack[c][n]
      /\ OthersKept(c) /\ Len(stack'[c]) = n + 2
      /\ stack'[c][n + 1] = f /\ stack'[c][n + 2] = e
      /\ \A k \in 1..n : stack'[c][k] = stack[c][k]
  BY DEF Situation, Pushed, Depth
<1>2. BootKept(c)
  <2>1. 1 \in 1..n /\ stack'[c][1] = stack[c][1]
    BY <1>1
  <2> QED
    BY <1>1, <2>1 DEF BootKept
<1>3. HandKept(c)
  <2> SUFFICES ASSUME Handling(c) PROVE Handling(c)'
    BY DEF HandKept
  <2>1. PICK k \in 1..n : stack[c][k].pc \in HandPc
    BY <1>1 DEF Handling, HandPc
  <2>2. k \in 1..(n + 2) /\ stack'[c][k].pc \in HandPc
    <3>1. k \in 1..(n + 2)
      BY <1>1
    <3>2. stack'[c][k] = stack[c][k]
      BY <1>1
    <3> QED
      BY <2>1, <3>1, <3>2
  <2> QED
    BY <1>1, <2>2 DEF Handling, HandPc
<1>4. ASSUME NEW k \in 1..(n + 2)
      PROVE  (k \in 1..n /\ stack'[c][k] = stack[c][k]) \/ ~Cares(stack'[c][k])
  <2>1. k = n + 1 \/ k = n + 2 \/ k \in 1..n
    BY <1>1
  <2> QED
    BY <1>1, <2>1
<1> QED
  BY <1>1, <1>2, <1>3, <1>4 DEF Calm

(***************************************************************************)
(* The steps that leave the timers and their lists alone.                  *)
(***************************************************************************)
Quiet(c) == \/ Boot(c) \/ Interrupt(c) \/ AddEnd(c) \/ DelEnd(c) \/ localclockintr(c) \/ IntrLock(c)
            \/ IntrEnd(c) \/ IntrTf(c) \/ todset(c) \/ Slew(c) \/ todget(c) \/ print(c) \/ Start(c)

LEMMA QuietSteps ==
  ASSUME TypeOK, ExecInv, NEW c \in Cpus, Quiet(c)
  PROVE  /\ Calm(c) /\ BootKept(c) /\ timer' = timer /\ head' = head /\ failed' = failed
         /\ IntrEnd(c) \/ HandKept(c)
<1> PICK n \in {1, 2, 3}, g \in FrameType : Situation(c, n, g)
  BY Situated
<1>1. g = Top(c) /\ Depth(c) = n /\ n > 0 /\ g = stack[c][n] /\ stack \in StackType
  BY DEF Situation, TypeOK, StackType
<1>2. timer' = timer /\ head' = head /\ failed' = failed
  BY DEF Quiet, Boot, clockinit, todinit, todsetfreq, timersinit, arch_spllo, Interrupt, AddEnd, DelEnd,
         localclockintr, IntrLock, IntrEnd, IntrTf, todset, Slew, todget, print, fmtfmt, fmtinstall,
         screenputs, screenputc, Start
<1>3. ASSUME NEW p \in Pcs, Jump(c, p), ~(p \in {"tadd", "tadd locked", "tdel", "del", "again"}),
             p \notin BootPc \/ g.pc \in BootPc, g.pc \notin HandPc \/ p \in HandPc
      PROVE  Calm(c) /\ BootKept(c) /\ HandKept(c)
  <2> PICK f \in FrameType : Replaced(c, f) /\ f.pc = p /\ Like(f, g)
    BY <1>3, Jumped
  <2>1. ~Cares(f)
    BY <1>3 DEF Cares
  <2> QED
    BY <1>3, <2>1, ReplacedFacts
<1>4. /\ {"idle", "while", "screenputs", "fmtinstall", "putc", "todinit", "todsetfreq", "timersinit"} \subseteq Pcs
      /\ "idle" \notin BootPc
  BY DEF Pcs, BasePc, LowPc, BootPc, PrintPc, IntrPc
<1>5. ASSUME Finish(c), g.pc \notin HandPc PROVE Calm(c) /\ BootKept(c) /\ HandKept(c)
  <2>1. CASE n = 1
    <3>1. Jump(c, "idle")
      BY <1>1, <1>5, <2>1 DEF Finish, Depth
    <3> QED
      BY <1>3, <1>4, <1>5, <3>1
  <2>2. CASE n # 1
    <3>1. Popped(c)
      BY <1>1, <1>5, <2>2, StackOps DEF Finish, Depth
    <3> QED
      BY <1>5, <2>2, <3>1, PoppedFacts
  <2> QED
    BY <2>1, <2>2
<1>6. CASE clockinit(c) \/ todinit(c) \/ todsetfreq(c)
  <2>1. /\ g.pc \in {"boot", "todinit", "todsetfreq"}
        /\ \E p \in {"todinit", "todsetfreq", "timersinit"} : Jump(c, p)
    BY <1>1, <1>6 DEF clockinit, todinit, todsetfreq, At
  <2> PICK p \in {"todinit", "todsetfreq", "timersinit"} : Jump(c, p)
    BY <2>1
  <2>2. g.pc \in BootPc /\ g.pc \notin HandPc
    BY <2>1 DEF BootPc, HandPc
  <2> QED
    BY <1>2, <1>3, <1>4, <2>2
<1>7. CASE timersinit(c)
  <2> PICK f, e : f = [g EXCEPT !.pc = "spllo"] /\ e = Frame("timeradd", c)
    OBVIOUS
  <2>1. g.pc = "timersinit" /\ stack' = [stack EXCEPT ![c] = Front(@) \o <<f, e>>]
    BY <1>1, <1>7 DEF timersinit, At, Call
  <2>2. f \in FrameType /\ f.pc = "spllo"
    BY DEF FrameType, Pcs, BasePc
  <2>3. e \in FrameType /\ e.pc = "timeradd"
    BY DEF FrameType, Pcs, BasePc, LowPc, Frame, Timer
  <2>4. Called(c, f, e)
    BY <1>1, <2>1, <2>2, <2>3, PushOps
  <2>5. ~Cares(f) /\ ~Cares(e) /\ f.pc \notin BootPc /\ g.pc \notin HandPc
    BY <2>1, <2>2, <2>3 DEF Cares, BootPc, HandPc
  <2> QED
    BY <1>2, <2>4, <2>5, CalledFacts
<1>8. CASE arch_spllo(c) \/ DelEnd(c) \/ todset(c) \/ Slew(c) \/ todget(c)
  <2>1. g.pc \in {"spllo", "timerdel end", "todset", "slew", "todget"} /\ Jump(c, "idle")
    BY <1>1, <1>8 DEF arch_spllo, DelEnd, todset, Slew, todget, At
  <2>2. g.pc \notin HandPc
    BY <2>1 DEF HandPc
  <2> QED
    BY <1>2, <1>3, <1>4, <2>1, <2>2
<1>9. CASE Interrupt(c)
  <2> PICK f, e : f = Frame("localclockintr", None) /\ e = Frame("print", None)
    OBVIOUS
  <2>1. stack' = [stack EXCEPT ![c] = @ \o <<f, e>>]
    BY <1>9 DEF Interrupt
  <2>2. f \in FrameType /\ f.pc = "localclockintr" /\ e \in FrameType /\ e.pc = "print"
    BY DEF Frame, FrameType, Pcs, IntrPc, BasePc, LowPc, PrintPc
  <2>3. Pushed(c, f, e)
    BY <1>1, <2>1, <2>2, PushOps
  <2>4. ~Cares(f) /\ ~Cares(e)
    BY <2>2 DEF Cares
  <2> QED
    BY <1>2, <2>3, <2>4, PushedFacts
<1>10. CASE AddEnd(c)
  <2>1. g.pc = "timeradd end" /\ Finish(c)
    BY <1>1, <1>10 DEF AddEnd, At
  <2> QED
    BY <1>2, <1>5, <2>1 DEF HandPc
<1>11. CASE localclockintr(c)
  <2> PICK f : f = [g EXCEPT !.pc = "timerintr", !.now = now]
    OBVIOUS
  <2>1. Goto(c, f)
    BY <1>1, <1>11 DEF localclockintr, At
  <2>2. f \in FrameType /\ f.pc = "timerintr"
    BY DEF FrameType, Pcs, IntrPc, TypeOK
  <2>3. Replaced(c, f)
    BY <1>1, <2>1, <2>2, StackOps
  <2>4. ~Cares(f) /\ f.pc \notin BootPc /\ f.pc \in HandPc
    BY <2>2 DEF Cares, BootPc, HandPc
  <2> QED
    BY <1>2, <2>3, <2>4, ReplacedFacts
<1>12. CASE IntrLock(c)
  <2>1. Jump(c, "while")
    BY <1>12 DEF IntrLock
  <2>2. "while" \in HandPc /\ "while" \notin BootPc
    BY DEF HandPc, BootPc
  <2> QED
    BY <1>2, <1>3, <1>4, <2>1, <2>2
<1>13. CASE IntrEnd(c)
  <2>1. g.pc = "while" /\ Return(c)
    BY <1>1, <1>13 DEF IntrEnd, At
  <2>2. n # 1 /\ Popped(c)
    BY <1>1, <2>1, StackOps DEF Situation, IntrPc
  <2> QED
    BY <1>2, <1>13, <2>2, PoppedFacts
<1>14. CASE IntrTf(c)
  <2>1. g.pc = "tf" /\ g.t \in Relative /\ n = 2
    BY <1>1, <1>14 DEF IntrTf, At, Situation, IntrPc
  <2>2. g.t \notin Cpus
    BY <2>1, ClockConstants
  <2>3. CASE Jump(c, "again")
    <3> PICK f \in FrameType : Replaced(c, f) /\ f.pc = "again" /\ Like(f, g)
      BY <2>3, Jumped DEF Pcs, IntrPc
    <3>1. ~Cares(f) /\ f.pc \notin BootPc /\ f.pc \in HandPc
      BY <2>2 DEF Cares, BootPc, HandPc, Like
    <3> QED
      BY <1>2, <3>1, ReplacedFacts
  <2>4. CASE Call(c, "again", Frame("timeradd", g.t))
    <3> PICK f, e : f = [g EXCEPT !.pc = "again"] /\ e = Frame("timeradd", g.t)
      OBVIOUS
    <3>1. f \in FrameType /\ f.pc = "again" /\ f.t = g.t
      BY DEF FrameType, Pcs, IntrPc
    <3>2. e \in FrameType /\ e.pc = "timeradd"
      BY DEF FrameType, Pcs, BasePc, LowPc, Frame
    <3>3. Called(c, f, e)
      BY <1>1, <2>4, <3>1, <3>2, PushOps DEF Call
    <3>4. ~Cares(f) /\ ~Cares(e) /\ f.pc \notin BootPc /\ f.pc \in HandPc
      BY <2>2, <3>1, <3>2 DEF Cares, BootPc, HandPc
    <3> QED
      BY <1>2, <3>3, <3>4, CalledFacts
  <2> QED
    BY <1>1, <1>14, <2>3, <2>4 DEF IntrTf
<1>15. CASE print(c)
  <2>1. /\ g.pc \in PrintPc
        /\ Finish(c) \/ \E p \in {"screenputs", "fmtinstall", "putc"} : Jump(c, p)
    BY <1>1, <1>15 DEF print, fmtfmt, fmtinstall, screenputs, screenputc, At, PrintPc
  <2>2. g.pc \notin HandPc
    BY <2>1 DEF PrintPc, HandPc
  <2>3. ASSUME NEW p \in {"screenputs", "fmtinstall", "putc"} PROVE p \notin BootPc /\ p \in Pcs
    BY DEF BootPc, Pcs, BasePc, LowPc, PrintPc
  <2> QED
    BY <1>2, <1>3, <1>5, <2>1, <2>2, <2>3
<1>16. CASE Start(c)
  <2>1. PICK p \in Programs[c] :
         \/ p \in {"timeradd", "timerdel"} /\ \E t \in Relative : Goto(c, Frame(p, t))
         \/ p \notin {"timeradd", "timerdel"} /\ Goto(c, Frame(p, None))
    BY <1>16 DEF Start
  <2>2. p \in {"timeradd", "timerdel", "todset", "slew", "todget", "print"}
    BY ClockConstants
  <2>3. PICK t \in Relative \cup {None} : Goto(c, Frame(p, t))
    BY <2>1
  <2> PICK f : f = Frame(p, t)
    OBVIOUS
  <2>4. f \in FrameType /\ f.pc = p
    <3>1. p \in Pcs
      BY <2>2 DEF Pcs, BasePc, LowPc, PrintPc
    <3> QED
      BY <3>1 DEF FrameType, Frame, Timer
  <2>5. Replaced(c, f)
    BY <1>1, <2>3, <2>4, StackOps
  <2>6. ~Cares(f) /\ f.pc \notin BootPc
    BY <2>2, <2>4 DEF Cares, BootPc
  <2>7. g.pc \notin HandPc
    BY <1>1, <1>16 DEF Start, At, HandPc
  <2> QED
    BY <1>2, <2>5, <2>6, <2>7, ReplacedFacts
<1> QED
  BY <1>6, <1>7, <1>8, <1>9, <1>10, <1>11, <1>12, <1>13, <1>14, <1>15, <1>16 DEF Quiet, Boot

-----------------------------------------------------------------------------
(***************************************************************************)
(* QueueInv: the lists, who knows where a timer is, and the hardware.      *)
(***************************************************************************)
Armed(c) == hw[c].on /\ hw[c].cmp <= timer[head[c][1]].twhen
ArmedInv == \A c \in Cpus : head[c] # <<>> /\ ~Handling(c) => Armed(c)
QueueType == timer \in TimerType /\ head \in HeadType
QueueInv == QueueType /\ ListInv /\ ArmInv /\ OwnInv /\ failed = FALSE /\ ArmedInv

(* The head of a list is relative or the CPU's own. *)
LEMMA Own ==
  ASSUME TypeOK, ListInv, OwnInv, NEW c \in Cpus
  PROVE  HeadOwn(c)
<1> SUFFICES ASSUME head[c] # <<>> PROVE head[c][1] \in Relative \cup {c}
  BY DEF HeadOwn
<1> PICK t : t = head[c][1]
  OBVIOUS
<1>1. head[c] \in Seq(Timer) /\ 1 \in 1..Len(head[c])
  <2>1. head[c] \in Seq(Timer)
    BY ListTypes
  <2>2. Len(head[c]) \in Nat /\ Len(head[c]) # 0
    BY <2>1, LenProperties, EmptySeq
  <2> QED
    BY <2>1, <2>2
<1>2. t \in Timer /\ InSeq(t, head[c])
  BY <1>1, ListTypes DEF InSeq
<1>3. timer[t].tt = c /\ c # None
  BY <1>2, ListTypes DEF ListInv
<1>4. t \in Cpus => timer[t].tt \in {None, t}
  BY DEF OwnInv
<1> QED
  BY <1>2, <1>3, <1>4 DEF Timer

LEMMA FirstIn ==
  ASSUME TypeOK, NEW d \in Cpus, head[d] # <<>>
  PROVE  head[d][1] \in Timer /\ InSeq(head[d][1], head[d])
<1>1. head[d] \in Seq(Timer)
  BY ListTypes
<1>2. 1 \in 1..Len(head[d])
  <2>1. Len(head[d]) \in Nat /\ Len(head[d]) # 0
    BY <1>1, LenProperties, EmptySeq
  <2> QED
    BY <2>1
<1> QED
  BY <1>2, ListTypes DEF InSeq

(* A step of c that leaves timers and lists alone. *)
LEMMA QuietQueue ==
  ASSUME TypeOK, ExecInv, QueueInv, NEW c \in Cpus, Quiet(c)
  PROVE  QueueInv'
<1>1. /\ Calm(c) /\ BootKept(c) /\ timer' = timer /\ head' = head /\ failed' = failed
      /\ IntrEnd(c) \/ HandKept(c)
  BY QuietSteps
<1>2. QueueType' /\ failed' = FALSE
  BY <1>1 DEF QueueType, QueueInv
<1>3. ListInv'
  BY <1>1 DEF QueueInv, ListInv, Sorted, InSeq
<1>4. ArmInv'
  <2> SUFFICES ASSUME NEW d \in Cpus, NEW k \in 1..Len(stack'[d]) PROVE ArmFrame(stack[d][k])'
    BY DEF ArmInv
  <2>1. CASE k \in 1..Len(stack[d]) /\ stack'[d][k] = stack[d][k]
    <3>1. ArmFrame(stack[d][k])
      BY <2>1 DEF QueueInv, ArmInv
    <3> QED
      BY <1>1, <2>1, <3>1 DEF ArmFrame
  <2>2. CASE ~Cares(stack'[d][k])
    BY <2>2 DEF Cares, ArmFrame
  <2> QED
    BY <1>1, <2>1, <2>2 DEF Calm, OthersKept, Depth
<1>5. OwnInv'
  <2>1. \A d \in Cpus : BootKept(d)
    BY <1>1 DEF BootKept, Calm, OthersKept
  <2> QED
    BY <1>1, <2>1 DEF QueueInv, OwnInv, BootKept
<1>6. ArmedInv'
  <2> SUFFICES ASSUME NEW d \in Cpus, head[d] # <<>>, ~Handling(d)' PROVE Armed(d)'
    BY <1>1 DEF ArmedInv
  <2>1. hw \in [Cpus -> [cmp : Nat, on : BOOLEAN]]
    BY DEF TypeOK
  <2>2. CASE d # c
    <3>1. ~Handling(d)
      BY <1>1, <2>2 DEF Calm, OthersKept, Handling
    <3>2. hw'[d] = hw[d]
      BY <2>1, <2>2 DEF Quiet, Boot, clockinit, todinit, todsetfreq, timersinit, arch_spllo, Interrupt,
             AddEnd, DelEnd, localclockintr, IntrLock, IntrEnd, IntrTf, todset, Slew, todget, print,
             fmtfmt, fmtinstall, screenputs, screenputc, Start, arch_timerset
    <3> QED
      BY <1>1, <3>1, <3>2 DEF QueueInv, ArmedInv, Armed
  <2>3. CASE d = c /\ IntrEnd(c)
    <3>1. hw' = [hw EXCEPT ![c] = [cmp |-> timer[head[c][1]].twhen, on |-> TRUE]]
      BY <2>3 DEF IntrEnd, arch_timerset
    <3>2. hw'[c] = [cmp |-> timer[head[c][1]].twhen, on |-> TRUE]
      BY <2>1, <3>1
    <3>3. timer[head[c][1]].twhen \in Nat
      BY <2>3, FirstIn DEF TypeOK
    <3> QED
      BY <1>1, <2>3, <3>2, <3>3 DEF Armed
  <2>4. CASE d = c /\ localclockintr(c)
    <3> PICK n \in {1, 2, 3}, g \in FrameType : Situation(c, n, g)
      BY Situated
    <3> PICK f : f = [g EXCEPT !.pc = "timerintr", !.now = now]
      OBVIOUS
    <3>1. Goto(c, f)
      BY <2>4 DEF localclockintr, Situation
    <3>2. f \in FrameType /\ f.pc = "timerintr"
      BY DEF FrameType, Pcs, IntrPc, TypeOK
    <3>3. Replaced(c, f)
      <4>1. Depth(c) > 0 /\ stack \in StackType
        BY SMTT(30) DEF Situation, TypeOK, StackType
      <4> QED
        BY <3>1, <3>2, <4>1, StackOps
    <3>4. Handling(c)'
      BY <3>2, <3>3, ReplacedFacts DEF HandPc
    <3> QED
      BY <2>4, <3>4
  <2>5. CASE d = c /\ clockinit(c)
    <3> PICK n \in {1, 2, 3}, g \in FrameType : Situation(c, n, g)
      BY Situated
    <3>1. g.pc = "boot" /\ g = stack[c][n]
      BY <2>5 DEF clockinit, At, Situation
    <3>2. n = 1
      BY <3>1 DEF Situation, AddPc, IntrPc, PrintPc
    <3>3. stack[c][1].pc \in BootPc
      BY <3>1, <3>2 DEF BootPc
    <3>4. head[c] = <<>>
      BY <3>3 DEF QueueInv, OwnInv
    <3> QED
      BY <2>5, <3>4
  <2>6. CASE d = c /\ ~IntrEnd(c) /\ ~localclockintr(c) /\ ~clockinit(c)
    <3>1. hw' = hw
      BY <2>6 DEF Quiet, Boot, todinit, todsetfreq, timersinit, arch_spllo, Interrupt,
             AddEnd, DelEnd, IntrLock, IntrTf, todset, Slew, todget, print,
             fmtfmt, fmtinstall, screenputs, screenputc, Start
    <3>2. ~Handling(d)
      BY <1>1, <2>6 DEF HandKept
    <3> QED
      BY <1>1, <3>1, <3>2 DEF QueueInv, ArmedInv, Armed
  <2> QED
    BY <2>2, <2>3, <2>4, <2>5, <2>6
<1> QED
  BY <1>2, <1>3, <1>4, <1>5, <1>6 DEF QueueInv

(* g is about to put its timer on the list of c; f is the frame k of d *)
Adding(c, g) == g.pc = "tadd locked" \/ (g.pc = "again" /\ g.t = c)
Framed(d, k, f) == k \in 1..Len(stack[d]) /\ f = stack[d][k]

(* Nobody else cares for the timer that c is about to put on its list.     *)
LEMMA Alone ==
  ASSUME TypeOK, ExecInv, NEW c \in Cpus, NEW n, NEW g, Situation(c, n, g),
         Adding(c, g), NEW d \in Cpus, NEW k \in Nat, NEW f, Framed(d, k, f), Cares(f), f.t = g.t
  PROVE  d = c /\ k = n
<1>1. FrameInv(d, k) /\ Shape(d) /\ Len(stack[d]) \in {1, 2, 3}
  <2>1. FrameInv(d, k) /\ Shape(d)
    BY DEF ExecInv, StackInv, Framed
  <2>2. Len(stack[d]) \in {1, 2, 3}
    BY <2>1 DEF Shape
  <2> QED
    BY <2>1, <2>2
<1>2. n \in {1, 2, 3} /\ g = stack[c][n] /\ Len(stack[c]) = n
  BY DEF Situation, Depth
<1>3. f.pc # "again" => f.pc \in TimerPc /\ f.pc \in AddPc \cup DelPc
  BY DEF Cares, TimerPc, AddPc, DelPc
<1>4. /\ f.pc \in AddPc \cup DelPc => f.t \in Timer /\ (f.t \in Cpus => f.t = d /\ stack[d][1].pc = "spllo")
      /\ f.pc = "again" => f.t \in Cpus /\ f.t = d
  <2>1. f.pc = "again" => f.t \in Cpus
    BY DEF Cares
  <2> QED
    BY <1>1, <2>1 DEF FrameInv, Framed
<1>5. ASSUME f.pc = "again" PROVE k = 2 /\ stack[d][1].pc \in LowPc
  <2>1. "again" \notin BasePc \cup LowPc \cup AddPc \cup PrintPc
    BY DEF BasePc, BootPc, LowPc, PrintPc, TimerPc, AddPc
  <2>2. k = 1 \/ k = 2 \/ k = 3
    BY <1>1 DEF Framed
  <2>3. k # 1
    BY <1>1, <1>5, <2>1 DEF Shape, Framed
  <2>4. k # 3
    BY <1>1, <1>5, <2>1 DEF Shape, Framed
  <2> QED
    BY <1>1, <1>5, <2>1, <2>2, <2>3, <2>4 DEF Shape, Framed
<1>6. CASE g.pc = "tadd locked"
  <2>1. g.t \in Timer /\ (g.t \in Cpus => stack[c][1].pc = "spllo" /\ g.t = c)
    BY <1>6, ClockConstants DEF Situation, AddPc
  <2>2. CASE f.pc = "again"
    <3>1. d = c /\ stack[c][1].pc \in LowPc /\ stack[c][1].pc = "spllo"
      BY <1>4, <1>5, <2>1, <2>2
    <3> QED
      BY <3>1, PcSets
  <2>3. CASE f.pc # "again"
    <3> PICK l : l = TimerLock(g.t)
      OBVIOUS
    <3>1. l \in Locks
      BY <2>1, LocksOf
    <3>2. Holds(c, n, l)
      <4>1. n \in 1..n
        BY <1>2
      <4>2. g.pc \in TimerPc
        BY <1>6 DEF TimerPc
      <4> QED
        BY <1>2, <4>1, <4>2 DEF Holds, FrameHolds
    <3>3. Holds(d, k, l)
      BY <1>3, <2>3 DEF Holds, FrameHolds, Framed
    <3>4. lk[l].by = <<c, n>> /\ lk[l].by = <<d, k>>
      <4>1. n \in Nat
        BY <1>2
      <4> QED
        BY <1>1, <3>1, <3>2, <3>3, <4>1 DEF ExecInv, HeldInv
    <3>5. <<c, n>> = <<d, k>>
      BY <3>4
    <3> QED
      BY <3>5
  <2> QED
    BY <2>2, <2>3
<1>7. CASE g.pc = "again" /\ g.t = c
  <2>1. n = 2 /\ stack[c][1].pc \in LowPc
    BY <1>7 DEF Situation, IntrPc
  <2>2. CASE f.pc = "again"
    BY <1>4, <1>5, <1>7, <2>1, <2>2
  <2>3. CASE f.pc # "again"
    <3>1. d = c /\ stack[d][1].pc = "spllo"
      BY <1>3, <1>4, <1>7, <2>3
    <3> QED
      BY <2>1, <3>1, PcSets
  <2> QED
    BY <2>2, <2>3
<1> QED
  BY <1>6, <1>7 DEF Adding

(* The frames go on knowing where their timers are, if the one at the top  *)
(* does and the step moves no timer that another frame cares for.          *)
LEMMA ArmReplaced ==
  ASSUME ArmInv, NEW c \in Cpus, NEW n, NEW g, Situation(c, n, g), NEW f, Replaced(c, f), ArmFrame(f)',
         \A d \in Cpus : \A k \in 1..Len(stack[d]) :
            Cares(stack[d][k]) /\ ~(d = c /\ k = n)
              => timer'[stack[d][k].t].tt \in {None, timer[stack[d][k].t].tt}
  PROVE  ArmInv'
<1> SUFFICES ASSUME NEW d \in Cpus, NEW k \in 1..Len(stack'[d]) PROVE ArmFrame(stack[d][k])'
  BY DEF ArmInv
<1>1. /\ n \in {1, 2, 3} /\ Len(stack[c]) = n
      /\ OthersKept(c) /\ Len(stack'[c]) = n /\ stack'[c][n] = f
      /\ \A i \in 1..(n - 1) : stack'[c][i] = stack[c][i]
  BY DEF Situation, Replaced, Below, Depth
<1>2. CASE d = c /\ k = n
  BY <1>1, <1>2 DEF ArmFrame
<1>3. CASE ~(d = c /\ k = n)
  <2>1. k \in 1..Len(stack[d]) /\ stack'[d][k] = stack[d][k]
    <3>1. CASE d = c
      <4>1. k \in 1..(n - 1)
        BY <1>1, <1>3, <3>1
      <4> QED
        BY <1>1, <3>1, <4>1
    <3>2. CASE d # c
      BY <1>1, <3>2 DEF OthersKept
    <3> QED
      BY <3>1, <3>2
  <2> PICK e : e = stack[d][k]
    OBVIOUS
  <2>2. ArmFrame(e)
    BY <2>1 DEF ArmInv
  <2>3. Cares(e) => timer'[e.t].tt \in {None, timer[e.t].tt}
    BY <1>3, <2>1
  <2>4. ArmFrame(e)'
    BY <2>2, <2>3 DEF ArmFrame, Cares
  <2> QED
    BY <2>1, <2>4 DEF ArmFrame
<1> QED
  BY <1>2, <1>3

(* What remains of QueueInv' when the lists and the frames are right. *)
LEMMA OwnStep ==
  ASSUME TypeOK, OwnInv, NEW c \in Cpus, OthersKept(c), BootKept(c), NEW x \in Cpus, NEW t \in Timer,
         \/ timer' = timer /\ head' = head
         \/ Unlinks(x, t)
         \/ Links(x, t) /\ x = c /\ (t \in Cpus => t = c) /\ stack'[c][1].pc \notin BootPc
  PROVE  OwnInv'
<1> SUFFICES ASSUME NEW d \in Cpus
             PROVE  /\ timer'[d].tt \in {None, d}
                    /\ stack'[d][1].pc \in BootPc => head'[d] = <<>>
  BY DEF OwnInv
<1>1. d \in Timer /\ timer[d].tt \in {None, d} /\ (stack[d][1].pc \in BootPc => head[d] = <<>>)
  BY DEF OwnInv, Timer
<1>2. stack'[d][1].pc \in BootPc => stack[d][1].pc \in BootPc
  BY DEF OthersKept, BootKept
<1>3. CASE timer' = timer /\ head' = head
  BY <1>1, <1>2, <1>3
<1>4. CASE Unlinks(x, t)
  <2>1. timer'[d].tt \in {None, d}
    BY <1>1, <1>4 DEF Unlinks
  <2>2. head[d] = <<>> => head'[d] = <<>>
    BY <1>4 DEF Unlinks, OtherLists
  <2> QED
    BY <1>1, <1>2, <2>1, <2>2
<1>5. CASE Links(x, t) /\ x = c /\ (t \in Cpus => t = c) /\ stack'[c][1].pc \notin BootPc
  <2>1. timer'[d].tt \in {None, d}
    BY <1>1, <1>5 DEF Links
  <2>2. d # c => head'[d] = head[d]
    BY <1>5 DEF Links, OtherLists
  <2> QED
    BY <1>1, <1>2, <1>5, <2>1, <2>2
<1> QED
  BY <1>3, <1>4, <1>5

(* A timer taken off: the deadline of the head of a list only grows. *)
LEMMA UnlinkArmed ==
  ASSUME TypeOK, ListInv, ArmedInv, NEW c \in Cpus, OthersKept(c), HandKept(c),
         NEW x \in Cpus, NEW t \in Timer, Unlinks(x, t), NEW d \in Cpus, head'[d] # <<>>, ~Handling(d)'
  PROVE  hw[d].on /\ hw[d].cmp <= timer'[head'[d][1]].twhen
<1>1. ~Handling(d)
  BY DEF HandKept, OthersKept, Handling
<1>2. head[d] # <<>>
  BY DEF Unlinks, OtherLists
<1>3. hw[d].on /\ hw[d].cmp <= timer[head[d][1]].twhen
  BY <1>1, <1>2 DEF ArmedInv, Armed
<1>4. head[d][1] \in Timer
  BY <1>2, FirstIn
<1>5. head'[d][1] \in Timer
  <2>1. head'[d] \in Seq(Timer)
    BY DEF Unlinks, OtherLists, HeadType
  <2>2. Len(head'[d]) \in Nat /\ Len(head'[d]) # 0
    BY <2>1, LenProperties, EmptySeq
  <2>3. 1 \in 1..Len(head'[d])
    BY <2>2
  <2> QED
    BY <2>1, <2>3, ElementOfSeq
<1>6. timer[head[d][1]].twhen <= timer[head'[d][1]].twhen
  <2>1. CASE d = x
    BY <2>1 DEF Unlinks
  <2>2. CASE d # x
    <3>1. head'[d] = head[d]
      BY <2>2 DEF Unlinks, OtherLists
    <3>2. timer[head[d][1]].twhen \in Nat
      BY <1>4 DEF TypeOK
    <3> QED
      BY <3>1, <3>2
  <2> QED
    BY <2>1, <2>2
<1>7. timer'[head'[d][1]].twhen = timer[head'[d][1]].twhen
  BY <1>5 DEF Unlinks
<1>8. hw[d].cmp \in Nat /\ timer[head[d][1]].twhen \in Nat /\ timer[head'[d][1]].twhen \in Nat
  BY <1>4, <1>5 DEF TypeOK
<1> QED
  BY <1>3, <1>6, <1>7, <1>8

(* A timer put on: the lists of the other CPUs stay as they are. *)
LEMMA LinkOthers ==
  ASSUME TypeOK, ListInv, NEW c \in Cpus, NEW t \in Timer, timer[t].tt = None, Links(c, t)
  PROVE  /\ \A d \in Cpus : head[d] # <<>> => timer'[head[d][1]] = timer[head[d][1]]
         /\ \A d \in Cpus : d # c => head'[d] = head[d]
<1>1. ASSUME NEW d \in Cpus, head[d] # <<>> PROVE timer'[head[d][1]] = timer[head[d][1]]
  <2>1. head[d][1] \in Timer /\ InSeq(head[d][1], head[d])
    BY <1>1, FirstIn
  <2>2. timer[head[d][1]].tt = d /\ d # None
    BY <2>1, ListTypes DEF ListInv
  <2> QED
    BY <2>1, <2>2 DEF Links
<1> QED
  BY <1>1 DEF Links, OtherLists

(***************************************************************************)
(* QueueInv is kept by the steps that know, take off or put on a timer.    *)
(***************************************************************************)
Stays == timer' = timer /\ head' = head /\ failed' = failed /\ hw' = hw

LEMMA StillQueue ==
  ASSUME TypeOK, ExecInv, QueueInv, NEW c \in Cpus, NEW n, NEW g, Situation(c, n, g), NEW f, Replaced(c, f),
         Stays, ArmFrame(f), f.pc \notin BootPc, g.pc \in HandPc => f.pc \in HandPc
  PROVE  QueueInv'
<1>1. BootKept(c) /\ HandKept(c) /\ OthersKept(c)
  BY ReplacedFacts DEF Replaced
<1>2. QueueType' /\ failed' = FALSE
  BY DEF QueueType, QueueInv, Stays
<1>3. ListInv'
  BY DEF QueueInv, ListInv, Sorted, InSeq, Stays
<1>4. ArmInv'
  <2>1. ArmFrame(f)'
    BY DEF ArmFrame, Stays
  <2> QED
    BY <2>1, ArmReplaced DEF QueueInv, Stays
<1>5. OwnInv'
  <2>1. \A d \in Cpus : BootKept(d)
    BY <1>1 DEF BootKept, OthersKept
  <2> QED
    BY <2>1 DEF QueueInv, OwnInv, BootKept, Stays
<1>6. ArmedInv'
  <2> SUFFICES ASSUME NEW d \in Cpus, head[d] # <<>>, ~Handling(d)' PROVE Armed(d)'
    BY DEF ArmedInv, Stays
  <2>1. ~Handling(d)
    BY <1>1 DEF HandKept, OthersKept, Handling
  <2> QED
    BY <2>1 DEF QueueInv, ArmedInv, Armed, Stays
<1> QED
  BY <1>2, <1>3, <1>4, <1>5, <1>6 DEF QueueInv

(* A timer is taken off the list of x: the hardware timers stay, or the     *)
(* one of c is set for what is then the head.                              *)
ArmedOr(c) == \A d \in Cpus : hw'[d] = hw[d] \/ (d = c /\ (head'[c] # <<>> => Armed(c)'))
LEMMA UnlinkQueue ==
  ASSUME TypeOK, ExecInv, QueueInv, NEW c \in Cpus, NEW n, NEW g, Situation(c, n, g), NEW f, Replaced(c, f),
         NEW x \in Cpus, NEW t \in Timer, timer[t].tt = x, Unlinks(x, t), failed' = failed, ArmFrame(f)',
         f.pc \notin BootPc, g.pc \in HandPc => f.pc \in HandPc,
         ArmedOr(c)
  PROVE  QueueInv'
<1>1. BootKept(c) /\ HandKept(c) /\ OthersKept(c)
  BY ReplacedFacts DEF Replaced
<1>2. QueueType' /\ failed' = FALSE
  BY DEF QueueType, QueueInv, Unlinks, OtherLists
<1>3. ListInv'
  BY ListStep DEF QueueInv
<1>4. ArmInv'
  <2> SUFFICES ASSUME NEW d \in Cpus, NEW k \in 1..Len(stack[d]), Cares(stack[d][k])
               PROVE  timer'[stack[d][k].t].tt \in {None, timer[stack[d][k].t].tt}
    BY ArmReplaced DEF QueueInv
  <2> PICK e : e = stack[d][k]
    OBVIOUS
  <2>1. e.t \in Timer
    <3>1. FrameInv(d, k)
      BY DEF ExecInv, StackInv
    <3> QED
      BY <3>1 DEF FrameInv, Cares, AddPc, DelPc
  <2> QED
    BY <2>1 DEF Unlinks
<1>5. OwnInv'
  BY <1>1, OwnStep DEF QueueInv
<1>6. ArmedInv'
  <2> SUFFICES ASSUME NEW d \in Cpus, head'[d] # <<>>, ~Handling(d)' PROVE Armed(d)'
    BY DEF ArmedInv
  <2>1. hw[d].on /\ hw[d].cmp <= timer'[head'[d][1]].twhen
    BY <1>1, UnlinkArmed DEF QueueInv
  <2> QED
    BY <2>1 DEF Armed, ArmedOr
<1> QED
  BY <1>2, <1>3, <1>4, <1>5, <1>6 DEF QueueInv

(* The timer of c's frame is put on the list of c. *)
LEMMA LinkQueue ==
  ASSUME TypeOK, ExecInv, QueueInv, NEW c \in Cpus, NEW n, NEW g, Situation(c, n, g), NEW f, Replaced(c, f),
         Adding(c, g), g.t \in Timer, g.t \in Cpus => g.t = c, timer[g.t].tt = None, Links(c, g.t),
         failed' = failed, ~Cares(f), f.pc \notin BootPc, stack'[c][1].pc \notin BootPc,
         g.pc \in HandPc => f.pc \in HandPc,
         \A d \in Cpus : d # c => hw'[d] = hw[d], Handling(c)' \/ Armed(c)'
  PROVE  QueueInv'
<1> PICK t : t = g.t
  OBVIOUS
<1>1. BootKept(c) /\ HandKept(c) /\ OthersKept(c)
  BY ReplacedFacts DEF Replaced
<1>2. QueueType' /\ failed' = FALSE
  BY DEF QueueType, QueueInv, Links, OtherLists
<1>3. ListInv'
  BY ListStep DEF QueueInv
<1>4. ArmInv'
  <2>1. ArmFrame(f)'
    BY DEF Cares, ArmFrame
  <2> SUFFICES ASSUME NEW d \in Cpus, NEW k \in 1..Len(stack[d]), Cares(stack[d][k]), ~(d = c /\ k = n)
               PROVE  timer'[stack[d][k].t].tt \in {None, timer[stack[d][k].t].tt}
    BY <2>1, ArmReplaced DEF QueueInv
  <2> PICK e : e = stack[d][k]
    OBVIOUS
  <2>2. e.t \in Timer
    <3>1. FrameInv(d, k)
      BY DEF ExecInv, StackInv
    <3> QED
      BY <3>1 DEF FrameInv, Cares, AddPc, DelPc
  <2>3. k \in Nat /\ Framed(d, k, e)
    BY DEF Framed
  <2>4. e.t # t
    BY <2>3, Alone
  <2> QED
    BY <2>2, <2>4 DEF Links
<1>5. OwnInv'
  BY <1>1, OwnStep DEF QueueInv
<1>6. ArmedInv'
  <2> SUFFICES ASSUME NEW d \in Cpus, d # c, head'[d] # <<>>, ~Handling(d)' PROVE Armed(d)'
    BY DEF ArmedInv
  <2>1. head'[d] = head[d] /\ timer'[head[d][1]] = timer[head[d][1]]
    BY LinkOthers DEF QueueInv
  <2>2. ~Handling(d)
    BY <1>1 DEF OthersKept, Handling
  <2> QED
    BY <2>1, <2>2 DEF Armed, QueueInv, ArmedInv
<1> QED
  BY <1>2, <1>3, <1>4, <1>5, <1>6 DEF QueueInv

AddsOrDels(c) == AddLock(c) \/ DelLock(c) \/ AddAddLock(c) \/ AddDel(c) \/ DelDel(c) \/ AddAdd(c)

LEMMA AddQueue ==
  ASSUME TypeOK, ExecInv, QueueInv, NEW c \in Cpus, AddsOrDels(c)
  PROVE  QueueInv'
<1> PICK n \in {1, 2, 3}, g \in FrameType : Situation(c, n, g)
  BY Situated
<1>1. g = Top(c) /\ Depth(c) = n /\ n > 0 /\ g = stack[c][n] /\ Len(stack[c]) = n /\ stack \in StackType
  BY DEF Situation, TypeOK, StackType, Depth
<1>2. /\ g.pc \in AddPc \cup DelPc => g.t \in Timer /\ (g.t \in Cpus => g.t = c)
      /\ \A t \in Timer : timer[t].tt \in Cpus \cup {None}
  BY ClockConstants DEF Situation, Timer, TypeOK
<1>3. ArmFrame(g) /\ ListInv
  <2>1. n \in 1..n
    OBVIOUS
  <2> QED
    BY <1>1, <2>1 DEF QueueInv, ArmInv
<1>4. CASE AddLock(c) \/ DelLock(c)
  <2> PICK f : f = [g EXCEPT !.tt = timer[g.t].tt,
                             !.pc = IF g.pc = "timeradd"
                                    THEN IF timer[g.t].tt = None THEN "tadd" ELSE "tdel"
                                    ELSE IF timer[g.t].tt = None THEN "timerdel end" ELSE "del"]
    OBVIOUS
  <2>1. g.pc \in {"timeradd", "timerdel"} /\ Goto(c, f) /\ Stays
    BY <1>1, <1>4 DEF AddLock, DelLock, At, Stays
  <2>2. g.t \in Timer /\ timer[g.t].tt \in Cpus \cup {None}
    BY <1>2, <2>1 DEF AddPc, DelPc
  <2>3. /\ f \in FrameType /\ f.t = g.t /\ f.tt = timer[g.t].tt
        /\ f.pc \in {"tadd", "tdel", "timerdel end", "del"}
        /\ f.pc = "tadd" => timer[g.t].tt = None
    BY <2>2 DEF FrameType, Pcs, BasePc, TimerPc
  <2>4. Replaced(c, f)
    BY <1>1, <2>1, <2>3, StackOps
  <2>5. ArmFrame(f) /\ f.pc \notin BootPc /\ g.pc \notin HandPc
    BY <2>1, <2>3 DEF ArmFrame, BootPc, HandPc
  <2> QED
    BY <2>1, <2>4, <2>5, StillQueue
<1>5. CASE AddAddLock(c)
  <2>1. g.pc = "tadd" /\ Jump(c, "tadd locked") /\ Stays
    BY <1>1, <1>5 DEF AddAddLock, At, Stays
  <2> PICK f \in FrameType : Replaced(c, f) /\ f.pc = "tadd locked" /\ Like(f, g)
    BY <2>1, Jumped DEF Pcs, BasePc, TimerPc
  <2>2. ArmFrame(f) /\ f.pc \notin BootPc /\ g.pc \notin HandPc
    BY <1>3, <2>1 DEF ArmFrame, BootPc, HandPc, Like
  <2> QED
    BY <2>1, <2>2, StillQueue
<1>6. CASE AddDel(c) \/ DelDel(c)
  <2> PICK t : t = g.t
    OBVIOUS
  <2>1. /\ g.pc \in {"tdel", "del"} /\ tdel(t) /\ failed' = failed
        /\ g.pc = "tdel" => Jump(c, "tadd") /\ hw' = hw
        /\ g.pc = "del" => Jump(c, "timerdel end") /\ DelDel(c)
    BY <1>1, <1>6 DEF AddDel, DelDel, At
  <2>2. t \in Timer
    BY <1>2, <2>1 DEF AddPc, DelPc
  <2>3. \E p \in {"tadd", "timerdel end"} : Jump(c, p)
    BY <2>1
  <2>9. PICK p : p \in {"tadd", "timerdel end"} /\ Jump(c, p)
    BY <2>3
  <2>0. PICK f \in FrameType : Replaced(c, f) /\ f.pc = p /\ Like(f, g)
    BY <2>9, Jumped DEF Pcs, BasePc, TimerPc
  <2>4. f.t = t /\ f.pc \notin BootPc /\ g.pc \notin HandPc
    BY <2>0, <2>1, <2>9 DEF Like, BootPc, HandPc
  <2>5. hw \in [Cpus -> [cmp : Nat, on : BOOLEAN]]
    BY DEF TypeOK
  <2>6. timer[t].tt \in {None, g.tt} /\ g.tt \in Cpus
    BY <1>3, <2>1 DEF ArmFrame, Situation
  <2>7. CASE timer[t].tt = None /\ timer' = timer /\ head' = head
    <3>1. hw' = hw
      BY <1>1, <2>1, <2>7 DEF DelDel
    <3>2. Stays
      BY <2>1, <2>7, <3>1 DEF Stays
    <3>3. ArmFrame(f)
      BY <2>0, <2>4, <2>7 DEF ArmFrame
    <3> QED
      BY <2>0, <2>4, <3>2, <3>3, StillQueue
  <2>8. CASE timer[t].tt \in Cpus /\ Unlinks(timer[t].tt, t)
    <3> PICK x : x = timer[t].tt
      OBVIOUS
    <3>1. x \in Cpus /\ Unlinks(x, t) /\ x = g.tt
      BY <2>6, <2>8, ListTypes
    <3>2. ArmFrame(f)'
      <4>1. timer'[t].tt = None
        BY <3>1 DEF Unlinks
      <4> QED
        BY <2>0, <2>4, <4>1 DEF ArmFrame
    <3>3. ArmedOr(c)
      <4>1. CASE hw' = hw
        BY <4>1 DEF ArmedOr
      <4>2. CASE hw' # hw
        <5> PICK q : q = head[c]
          OBVIOUS
        <5>1. DelDel(c)
          BY <2>1, <4>2
        <5>2. x = c /\ Len(q) > 1 /\ q[1] = t /\ hw' = [hw EXCEPT ![c] = [cmp |-> timer[q[2]].twhen, on |-> TRUE]]
          BY <1>1, <3>1, <4>2, <5>1 DEF DelDel, arch_timerset
        <5>3. hw'[c] = [cmp |-> timer[q[2]].twhen, on |-> TRUE] /\ \A d \in Cpus : d # c => hw'[d] = hw[d]
          BY <2>5, <5>2
        <5>4. head'[c][1] = q[2]
          BY <3>1, <5>2 DEF Unlinks
        <5>5. q[2] \in Timer
          <6> PICK m : m = Len(q)
            OBVIOUS
          <6>1. q \in Seq(Timer) /\ m \in Nat
            BY ListTypes, LenProperties
          <6>2. 2 \in 1..m
            <7>1. m > 1
              BY <5>2
            <7> QED
              BY <6>1, <7>1
          <6> QED
            BY <6>1, <6>2, ElementOfSeq
        <5>6. timer'[q[2]].twhen = timer[q[2]].twhen /\ timer[q[2]].twhen \in Nat
          BY <3>1, <5>5 DEF Unlinks, TypeOK
        <5>7. Armed(c)'
          <6>1. hw'[c].on = TRUE /\ hw'[c].cmp = timer[q[2]].twhen
            BY <5>3
          <6>2. hw'[c].cmp <= timer'[head'[c][1]].twhen
            BY <5>4, <5>6, <6>1
          <6> QED
            BY <6>1, <6>2 DEF Armed
        <5> QED
          BY <5>3, <5>7 DEF ArmedOr
      <4> QED
        BY <4>1, <4>2
    <3> QED
      BY <2>0, <2>1, <2>2, <2>4, <3>1, <3>2, <3>3, UnlinkQueue
  <2> QED
    BY <1>3, <2>1, <2>2, <2>7, <2>8, TdelUnlinks
<1>7. CASE AddAdd(c)
  <2> PICK t : t = g.t
    OBVIOUS
  <2>1. /\ g.pc = "tadd locked" /\ tadd(c, t) /\ Jump(c, "timeradd end")
        /\ hw' = IF Head(head'[c]) = t THEN arch_timerset(c, timer'[t].twhen) ELSE hw
    BY <1>1, <1>7 DEF AddAdd, At
  <2>0. PICK f \in FrameType : Replaced(c, f) /\ f.pc = "timeradd end" /\ Like(f, g)
    BY <2>1, Jumped DEF Pcs, BasePc, TimerPc
  <2>2. t \in Timer /\ (t \in Cpus => t = c) /\ Adding(c, g)
    BY <1>2, <2>1 DEF AddPc, Adding
  <2>3. timer[t].tt = None
    BY <1>3, <2>1 DEF ArmFrame
  <2>4. Links(c, t) /\ failed' = failed
    BY <1>3, <2>1, <2>2, <2>3, TaddLinks
  <2>5. ~Cares(f) /\ f.pc \notin BootPc /\ g.pc \notin HandPc
    BY <2>0, <2>1 DEF Cares, BootPc, HandPc
  <2>6. stack'[c][1].pc \notin BootPc
    <3>1. stack[c][1].pc \notin BootPc
      <4>1. CASE n = 1
        BY <1>1, <2>1, <4>1 DEF BootPc
      <4>2. CASE n = 2
        BY <1>1, <4>2, <2>1 DEF Situation, AddPc, BootPc
      <4>3. CASE n = 3
        <5>1. Shape(c)
          BY DEF ExecInv, StackInv
        <5>2. stack[c][1].pc \in LowPc
          <6>1. Len(stack[c]) = 3
            BY <1>1, <4>3
          <6> QED
            BY <5>1, <6>1 DEF Shape
        <5> QED
          BY <5>2 DEF LowPc, PrintPc, BootPc
      <4> QED
        BY <4>1, <4>2, <4>3
    <3>2. BootKept(c)
      BY <2>0, <2>5, ReplacedFacts
    <3> QED
      BY <3>1, <3>2 DEF BootKept
  <2>7. hw \in [Cpus -> [cmp : Nat, on : BOOLEAN]]
    BY DEF TypeOK
  <2>8. Head(head'[c]) = head'[c][1]
    <3> PICK q : q = head'[c]
      OBVIOUS
    <3>1. q \in Seq(Timer) /\ q # <<>>
      BY <2>4 DEF Links, OtherLists, HeadType
    <3> QED
      BY <3>1, HeadTailProperties
  <2>9. (\A d \in Cpus : d # c => hw'[d] = hw[d]) /\ (Handling(c)' \/ Armed(c)')
    <3>1. CASE head'[c][1] = t
      <4>1. hw' = [hw EXCEPT ![c] = [cmp |-> timer'[t].twhen, on |-> TRUE]]
        BY <2>1, <2>8, <3>1 DEF arch_timerset
      <4>2. hw'[c] = [cmp |-> timer'[t].twhen, on |-> TRUE] /\ \A d \in Cpus : d # c => hw'[d] = hw[d]
        BY <2>7, <4>1
      <4>3. timer'[t].twhen \in Nat
        BY <2>2, <2>4 DEF Links, TimerType
      <4>4. hw'[c].on = TRUE /\ hw'[c].cmp = timer'[t].twhen
        BY <4>2
      <4>5. hw'[c].cmp <= timer'[head'[c][1]].twhen
        BY <3>1, <4>3, <4>4
      <4> QED
        BY <4>2, <4>4, <4>5 DEF Armed
    <3>2. CASE head'[c][1] # t
      <4>1. hw' = hw
        BY <2>1, <2>8, <3>2
      <4>2. head[c] # <<>> /\ head'[c][1] = head[c][1]
        BY <2>4, <3>2 DEF Links
      <4>3. timer'[head[c][1]] = timer[head[c][1]]
        BY <1>3, <2>2, <2>3, <2>4, <4>2, LinkOthers
      <4>4. HandKept(c)
        BY <2>0, <2>5, ReplacedFacts
      <4>5. ~Handling(c) => Armed(c)
        BY <4>2 DEF QueueInv, ArmedInv
      <4>6. Armed(c) => Armed(c)'
        BY <4>1, <4>2, <4>3 DEF Armed
      <4> QED
        BY <4>1, <4>4, <4>5, <4>6 DEF HandKept
    <3> QED
      BY <3>1, <3>2
  <2> QED
    BY <2>0, <2>2, <2>3, <2>4, <2>5, <2>6, <2>9, LinkQueue
<1> QED
  BY <1>4, <1>5, <1>6, <1>7 DEF AddsOrDels

LEMMA IntrQueue ==
  ASSUME TypeOK, ExecInv, QueueInv, NEW c \in Cpus, IntrPop(c) \/ IntrReadd(c)
  PROVE  QueueInv'
<1> PICK n \in {1, 2, 3}, g \in FrameType : Situation(c, n, g)
  BY Situated
<1>1. g = Top(c) /\ Depth(c) = n /\ n > 0 /\ g = stack[c][n] /\ Len(stack[c]) = n /\ stack \in StackType
  BY DEF Situation, TypeOK, StackType, Depth
<1>2. ArmFrame(g) /\ ListInv
  <2>1. n \in 1..n
    OBVIOUS
  <2> QED
    BY <1>1, <2>1 DEF QueueInv, ArmInv
<1>3. CASE IntrPop(c)
  <2> PICK t : t = head[c][1]
    OBVIOUS
  <2> PICK f : f = [g EXCEPT !.t = t, !.hz = @ \/ Periodic(t), !.pc = IF Periodic(t) THEN "again" ELSE "tf"]
    OBVIOUS
  <2>1. /\ head[c] # <<>> /\ Goto(c, f) /\ hw' = hw /\ failed' = (failed \/ timer[t].tt # c)
        /\ timer' = [timer EXCEPT ![t].tt = None] /\ head' = [head EXCEPT ![c] = Tail(head[c])]
    BY <1>1, <1>3 DEF IntrPop
  <2>2. t \in Timer /\ InSeq(t, head[c])
    BY <2>1, FirstIn
  <2>3. timer[t].tt = c /\ failed' = failed
    <3>1. timer[t].tt = c
      BY <1>2, <2>2 DEF ListInv
    <3> QED
      BY <2>1, <3>1 DEF TypeOK
  <2>4. Unlinks(c, t)
    <3>1. head[c] \in Seq(Timer)
      BY ListTypes
    <3>2. Tail(head[c]) \in Seq(Timer) /\ Without(Tail(head[c]), head[c], 1) /\ 1 \in 1..Len(head[c])
      BY <2>1, <3>1, TailWithout
    <3> QED
      BY <1>2, <2>1, <2>2, <3>2, RemovalUnlinks
  <2>5. f \in FrameType /\ f.t = t /\ f.pc \in {"again", "tf"}
    <3>1. "again" \in Pcs /\ "tf" \in Pcs
      BY DEF Pcs, IntrPc
    <3>2. (g.hz \/ Periodic(t)) \in BOOLEAN
      OBVIOUS
    <3> QED
      BY <2>2, <3>1, <3>2 DEF FrameType
  <2>6. Replaced(c, f)
    BY <1>1, <2>1, <2>5, StackOps
  <2>7. ArmFrame(f)' /\ f.pc \notin BootPc /\ f.pc \in HandPc
    <3>1. timer'[t].tt = None
      BY <2>4 DEF Unlinks
    <3> QED
      BY <2>5, <3>1 DEF ArmFrame, BootPc, HandPc
  <2>8. ArmedOr(c)
    BY <2>1 DEF ArmedOr
  <2> QED
    BY <2>2, <2>3, <2>4, <2>6, <2>7, <2>8, UnlinkQueue
<1>4. CASE IntrReadd(c)
  <2> PICK t : t = g.t
    OBVIOUS
  <2>1. /\ g.pc = "again" /\ Jump(c, "while") /\ hw' = hw
        /\ IF Periodic(t) THEN tadd(c, t) ELSE timer' = timer /\ head' = head /\ failed' = failed
    BY <1>1, <1>4 DEF IntrReadd, At
  <2> PICK f \in FrameType : Replaced(c, f) /\ f.pc = "while" /\ Like(f, g)
    BY <2>1, Jumped DEF Pcs, IntrPc
  <2>2. ArmFrame(f) /\ ~Cares(f) /\ f.pc \notin BootPc /\ f.pc \in HandPc
    BY DEF ArmFrame, Cares, BootPc, HandPc
  <2>3. CASE ~Periodic(t)
    <3>1. Stays
      BY <2>1, <2>3 DEF Stays
    <3> QED
      BY <2>2, <3>1, StillQueue
  <2>4. CASE Periodic(t)
    <3>1. t \in Cpus /\ t = c /\ t \in Timer /\ Adding(c, g)
      BY <2>1, <2>4, ClockConstants DEF Periodic, Situation, Timer, Adding
    <3>2. timer[t].tt = None
      BY <1>2, <2>1, <3>1 DEF ArmFrame
    <3>3. Links(c, t) /\ failed' = failed
      BY <1>2, <2>1, <2>4, <3>1, <3>2, TaddLinks
    <3>4. stack'[c][1].pc \notin BootPc
      <4>1. stack[c][1].pc \in LowPc
        BY <2>1 DEF Situation, IntrPc
      <4>2. stack[c][1].pc \notin BootPc
        BY <4>1 DEF LowPc, PrintPc, BootPc
      <4>3. BootKept(c)
        BY <2>2, ReplacedFacts
      <4> QED
        BY <4>2, <4>3 DEF BootKept
    <3>5. Handling(c)'
      BY <2>2, ReplacedFacts
    <3>6. \A d \in Cpus : d # c => hw'[d] = hw[d]
      BY <2>1
    <3> QED
      BY <2>2, <3>1, <3>2, <3>3, <3>4, <3>5, <3>6, LinkQueue
  <2> QED
    BY <2>3, <2>4
<1> QED
  BY <1>3, <1>4

LEMMA QueueStep ==
  ASSUME TypeOK, ExecInv, QueueInv, [Next]_vars
  PROVE  QueueInv'
<1>1. CASE UNCHANGED vars \/ Tick
  <2>1. hw' = hw /\ stack' = stack /\ timer' = timer /\ head' = head /\ failed' = failed
    BY <1>1 DEF vars, Tick
  <2>2. QueueType' /\ failed' = FALSE
    BY <2>1 DEF QueueInv, QueueType
  <2>4. ListInv'
    BY <2>1 DEF QueueInv, ListInv, Sorted, InSeq
  <2>5. ArmInv'
    BY <2>1 DEF QueueInv, ArmInv, ArmFrame
  <2>3. OwnInv' /\ ArmedInv'
    BY <2>1 DEF QueueInv, OwnInv, ArmedInv, Armed, Handling
  <2> QED
    BY <2>2, <2>3, <2>4, <2>5 DEF QueueInv
<1>2. ASSUME NEW c \in Cpus, Interrupt(c) \/ Step(c) \/ Start(c) PROVE QueueInv'
  <2>1. CASE Quiet(c)
    BY <2>1, QuietQueue
  <2>2. CASE AddsOrDels(c)
    BY <2>2, AddQueue
  <2>3. CASE IntrPop(c) \/ IntrReadd(c)
    BY <2>3, IntrQueue
  <2> QED
    BY <1>2, <2>1, <2>2, <2>3 DEF Step, Quiet, timerintr, timeradd, timerdel, AddsOrDels
<1> QED
  BY <1>1, <1>2 DEF Next

LEMMA QueueInit == Init => QueueInv
<1> SUFFICES ASSUME Init PROVE QueueInv
  OBVIOUS
<1>1. \A c \in Cpus : head[c] = <<>> /\ c # None
  BY ClockConstants DEF Init
<1>2. \A t \in Timer : timer[t].tt = None
  BY DEF Init
<1>3. QueueType /\ failed = FALSE
  BY DEF Init, QueueType, TimerType, HeadType
<1>4. ListInv
  BY <1>1, <1>2 DEF ListInv, Sorted, InSeq
<1>5. ArmInv
  <2>1. \A c \in Cpus : Len(stack[c]) = 1 /\ stack[c][1].pc = "boot"
    BY DEF Init, Frame
  <2> SUFFICES ASSUME NEW c \in Cpus, NEW k \in 1..Len(stack[c]) PROVE ArmFrame(stack[c][k])
    BY DEF ArmInv
  <2>2. k = 1
    <3>1. Len(stack[c]) = 1
      BY <2>1
    <3> QED
      BY <3>1
  <2> QED
    BY <2>1, <2>2 DEF ArmFrame
<1>6. OwnInv /\ ArmedInv
  BY <1>1, <1>2 DEF OwnInv, ArmedInv, Timer
<1> QED
  BY <1>3, <1>4, <1>5, <1>6 DEF QueueInv

-----------------------------------------------------------------------------
(***************************************************************************)
(* The time of day.  SeenInv: what was last returned is what tod           *)
(* remembers, and fits a vlong.                                            *)
(***************************************************************************)
SeenInv == seen = tod.lasttime /\ tod.lasttime \in -Half..(Half - 1)
Forward == seen' >= seen \/ (\E c \in Cpus : todset(c)) \/ Wraps
Tells(c) == todinit(c) \/ todsetfreq(c) \/ todset(c) \/ Slew(c) \/ todget(c)

(* A number as a uvlong and as a vlong. *)
LEMMA Representation ==
  ASSUME NEW n \in Int
  PROVE  /\ Unsigned(n) \in 0..(Wide - 1) /\ Signed(n) \in -Half..(Half - 1)
         /\ Unsigned(n) < Half => Signed(n) = Unsigned(n)
         /\ Unsigned(n) >= Half => Signed(n) = Unsigned(n) - Wide
<1>1. Half \in Nat \ {0} /\ Wide = 2 * Half
  BY ClockConstants DEF Wide
<1> PICK w : w = Wide
  OBVIOUS
<1>2. w \in Nat \ {0} /\ w = 2 * Half
  BY <1>1
<1>3. n % w \in 0..(w - 1)
  BY <1>2
<1> PICK u : u = n % w
  OBVIOUS
<1>4. u \in 0..(w - 1) /\ Unsigned(n) = u
  BY <1>3 DEF Unsigned
<1>5. Signed(n) = IF u >= Half THEN u - w ELSE u
  BY <1>4 DEF Signed
<1> QED
  BY <1>1, <1>2, <1>4, <1>5

(* A number that is a vlong keeps its value; its uvlong orders it after    *)
(* every number that is not negative when it is negative.                  *)
LEMMA OwnRepresentation ==
  ASSUME NEW n \in -Half..(Half - 1)
  PROVE  Unsigned(n) = IF n < 0 THEN n + Wide ELSE n
<1>1. Half \in Nat \ {0} /\ Wide = 2 * Half
  BY ClockConstants DEF Wide
<1> PICK w : w = Wide
  OBVIOUS
<1>2. w \in Nat \ {0} /\ w = 2 * Half
  BY <1>1
<1>3. CASE n < 0
  <2>1. n + w \in 0..(w - 1)
    BY <1>1, <1>2, <1>3
  <2>2. n % w = n + w
    BY <1>2, <1>3, <2>1
  <2> QED
    BY <1>3, <2>2 DEF Unsigned
<1>4. CASE n >= 0
  <2>1. n \in 0..(w - 1)
    BY <1>1, <1>2, <1>4
  <2>2. n % w = n
    BY <1>2, <2>1
  <2> QED
    BY <1>1, <1>4, <2>2 DEF Unsigned
<1> QED
  BY <1>1, <1>3, <1>4

LEMMA CorrectedType ==
  ASSUME TypeOK
  PROVE  Corrected \in TodType /\ Corrected.lasttime = tod.lasttime
<1>1. tod \in TodType /\ ticks \in Int /\ tod.send \in Int /\ tod.sstart \in Int /\ tod.delta \in Int /\ tod.off \in Int
  BY DEF TypeOK, TodType
<1> PICK t : t = IF ticks >= tod.send THEN tod.send ELSE ticks
  OBVIOUS
<1>2. t \in Int
  BY <1>1
<1>3. \A a, b \in Int : a * b \in Int
  OBVIOUS
<1> PICK v : v = tod.off + tod.delta * (t - tod.sstart)
  OBVIOUS
<1> PICK o : o = Signed(v)
  OBVIOUS
<1>4. t - tod.sstart \in Int
  BY <1>1, <1>2
<1>5. o \in Int
  <2>1. tod.delta * (t - tod.sstart) \in Int
    BY <1>1, <1>3, <1>4
  <2>2. v \in Int
    BY <1>1, <2>1
  <2> QED
    BY <2>2, Representation, ClockConstants
<1>6. Corrected = tod \/ Corrected = [tod EXCEPT !.off = o, !.sstart = t]
  BY DEF Corrected
<1>7. [tod EXCEPT !.off = o, !.sstart = t] \in TodType /\ [tod EXCEPT !.off = o, !.sstart = t].lasttime = tod.lasttime
  BY <1>1, <1>2, <1>5 DEF TodType
<1> QED
  BY <1>1, <1>6, <1>7

(* A slew lasts at least a tick. *)
LEMMA SlewType ==
  ASSUME NEW d \in Int, NEW n \in Int
  PROVE  SlewTicks(d, n) \in Nat \ {0} /\ PerTick(d, SlewTicks(d, n)) \in Int
<1> PICK m : m = Magnitude(d)
  OBVIOUS
<1> PICK j : j = IF n <= 0 THEN 1 ELSE n
  OBVIOUS
<1>1. m \in Nat /\ (d # 0 => m > 0) /\ j \in Nat \ {0} /\ HZ \in Nat \ {0}
  BY ClockConstants DEF Magnitude
<1>2. \A a, b \in Nat \ {0} : a * b \in Nat \ {0}
  OBVIOUS
<1> PICK h : h = j * HZ
  OBVIOUS
<1>3. h \in Nat \ {0}
  BY <1>1, <1>2
<1> PICK k : k = SlewTicks(d, n)
  OBVIOUS
<1>4. k = IF d # 0 /\ h > m THEN m ELSE h
  BY DEF SlewTicks
<1>5. k \in Nat \ {0}
  BY <1>1, <1>3, <1>4
<1>6. \A a \in Nat, b \in Nat \ {0} : a \div b \in Int
  OBVIOUS
<1>7. CASE d < 0
  <2>1. m \div k \in Int
    BY <1>1, <1>5, <1>6
  <2>2. PerTick(d, k) = -(m \div k)
    BY <1>7 DEF PerTick
  <2> QED
    BY <1>5, <2>1, <2>2
<1>8. CASE ~(d < 0)
  <2>1. d \div k \in Int
    BY <1>5, <1>6, <1>8
  <2>2. PerTick(d, k) = d \div k
    BY <1>8 DEF PerTick
  <2> QED
    BY <1>5, <2>1, <2>2
<1> QED
  BY <1>7, <1>8

LEMMA TodStep ==
  ASSUME TypeOK, SeenInv, [Next]_vars
  PROVE  tod' \in TodType /\ SeenInv' /\ Forward
<1>1. /\ tod \in TodType /\ now \in Nat /\ ticks \in Nat
      /\ tod.lasttime \in Int /\ tod.send \in Int /\ tod.last \in Nat /\ seen = tod.lasttime
      /\ seen \in Int /\ tod.lasttime \in -Half..(Half - 1) /\ Half \in Nat \ {0}
  BY ClockConstants DEF TypeOK, TodType, SeenInv
<1>2. CASE tod' = tod /\ seen' = seen
  BY <1>1, <1>2 DEF SeenInv, Forward
<1>3. ASSUME NEW c \in Cpus, todinit(c) PROVE tod' \in TodType /\ SeenInv' /\ Forward
  <2>1. tod' = [tod EXCEPT !.init = TRUE, !.last = now] /\ seen' = seen
    BY <1>3 DEF todinit
  <2>2. tod' \in TodType /\ tod'.lasttime = tod.lasttime
    BY <1>1, <2>1 DEF TodType
  <2> QED
    BY <1>1, <2>1, <2>2 DEF SeenInv, Forward
<1>4. ASSUME NEW c \in Cpus, todsetfreq(c) PROVE tod' \in TodType /\ SeenInv' /\ Forward
  <2>1. tod' = [tod EXCEPT !.divider = 1] /\ seen' = seen
    BY <1>4 DEF todsetfreq
  <2>2. tod' \in TodType /\ tod'.lasttime = tod.lasttime
    BY <1>1, <2>1 DEF TodType
  <2> QED
    BY <1>1, <2>1, <2>2 DEF SeenInv, Forward
<1>5. ASSUME NEW c \in Cpus, todset(c) PROVE tod' \in TodType /\ SeenInv' /\ Forward
  <2> PICK o \in Times :
        tod' = [tod EXCEPT !.off = o, !.last = now, !.lasttime = 0, !.delta = 0, !.sstart = tod.send]
    BY <1>5 DEF todset
  <2>1. seen' = 0
    BY <1>5 DEF todset
  <2>2. tod' \in TodType /\ tod'.lasttime = 0
    <3>1. o \in Int /\ 0 \in Int /\ now \in Nat /\ tod.send \in Int
      BY <1>1, ClockConstants
    <3>2. ASSUME NEW z \in Int, NEW v \in Int
          PROVE  /\ [tod EXCEPT !.off = o, !.last = now, !.lasttime = z, !.delta = z, !.sstart = v] \in TodType
                 /\ [tod EXCEPT !.off = o, !.last = now, !.lasttime = z, !.delta = z, !.sstart = v].lasttime = z
      BY <1>1, <3>1 DEF TodType
    <3> QED
      BY <3>1, <3>2
  <2>3. 0 \in -Half..(Half - 1)
    BY <1>1
  <2> QED
    BY <1>5, <2>1, <2>2, <2>3 DEF SeenInv, Forward
<1>6. ASSUME NEW c \in Cpus, Slew(c) PROVE tod' \in TodType /\ SeenInv' /\ Forward
  <2>1. seen' = seen
    BY <1>6 DEF Slew
  <2>2. PICK a \in Slews : tod' = [tod EXCEPT !.delta = PerTick(a[1], SlewTicks(a[1], a[2])),
                                              !.sstart = ticks, !.send = ticks + SlewTicks(a[1], a[2])]
    BY <1>6 DEF Slew
  <2>3. a[1] \in Int /\ a[2] \in Int
    BY ClockConstants
  <2>4. PICK k, p : k = SlewTicks(a[1], a[2]) /\ p = PerTick(a[1], SlewTicks(a[1], a[2]))
    OBVIOUS
  <2>5. k \in Nat \ {0} /\ p \in Int
    BY <2>3, <2>4, SlewType
  <2>6. ticks \in Int /\ ticks + k \in Int
    BY <1>1, <2>5
  <2>7. tod' \in TodType /\ tod'.lasttime = tod.lasttime
    BY <1>1, <2>2, <2>4, <2>5, <2>6 DEF TodType
  <2> QED
    BY <1>1, <2>1, <2>7 DEF SeenInv, Forward
<1>7. ASSUME NEW c \in Cpus, todget(c) PROVE tod' \in TodType /\ SeenInv' /\ Forward
  <2>1. PICK s : s = Corrected
    OBVIOUS
  <2>2. s \in TodType /\ s.lasttime = tod.lasttime /\ s.off \in Int
    BY <2>1, CorrectedType DEF TodType
  <2>3. Elapsed \in Int
    BY <1>1 DEF Elapsed
  <2>4. PICK x : x = Epoch(s)
    OBVIOUS
  <2>5. PICK e : e = Elapsed + s.off
    OBVIOUS
  <2>6. e \in Int /\ x = Unsigned(e)
    BY <2>2, <2>3, <2>4, <2>5 DEF Epoch
  <2>7. Wide = 2 * Half /\ x \in 0..(Wide - 1)
    BY <2>6, Representation DEF Wide
  <2>8. PICK y : y = Signed(x)
    OBVIOUS
  <2>9. x < Half => y = x
    <3>1. ASSUME x < Half PROVE x \in -Half..(Half - 1) /\ ~(x < 0)
      BY <1>1, <2>7, <3>1
    <3>2. ASSUME x < Half PROVE Unsigned(x) = x
      BY <3>1, <3>2, OwnRepresentation
    <3> QED
      BY <2>7, <2>8, <3>2, Representation
  <2>10. x >= Half => y = x - Wide
    <3>1. x % Wide = x
      BY <1>1, <2>7
    <3>2. Unsigned(x) = x
      BY <3>1 DEF Unsigned
    <3> QED
      BY <2>7, <2>8, <3>2, Representation
  <2>11. y \in -Half..(Half - 1)
    BY <2>7, <2>8, Representation
  <2>12. PICK b : b = tod.lasttime
    OBVIOUS
  <2>13. PICK u : u = Unsigned(b)
    OBVIOUS
  <2>14. b \in -Half..(Half - 1) /\ u = IF b < 0 THEN b + Wide ELSE b
    BY <1>1, <2>12, <2>13, OwnRepresentation
  <2>15. PICK l : l = IF x < u THEN b ELSE y
    OBVIOUS
  <2>16. l \in -Half..(Half - 1)
    BY <2>11, <2>14, <2>15
  <2>17. l >= b \/ (b >= 0 /\ x >= Half)
    <3>1. CASE x < u
      BY <1>1, <2>14, <2>15, <3>1
    <3>2. CASE ~(x < u) /\ x >= Half
      BY <1>1, <2>7, <2>10, <2>14, <2>15, <3>2
    <3>3. CASE ~(x < u) /\ x < Half
      BY <1>1, <2>7, <2>9, <2>14, <2>15, <3>3
    <3> QED
      BY <1>1, <2>7, <3>1, <3>2, <3>3
  <2>18. tod' = [s EXCEPT !.lasttime = l] /\ seen' = tod'.lasttime
    BY <1>7, <2>1, <2>2, <2>4, <2>8, <2>12, <2>13, <2>15 DEF todget, Todget
  <2>19. tod' \in TodType /\ tod'.lasttime = l
    BY <1>1, <2>2, <2>16, <2>18 DEF TodType
  <2>20. l >= b \/ Wraps
    BY <2>1, <2>4, <2>12, <2>17 DEF Wraps
  <2> QED
    BY <1>1, <2>12, <2>16, <2>18, <2>19, <2>20 DEF SeenInv, Forward
<1>8. ASSUME NEW c \in Cpus, Interrupt(c) \/ Step(c) \/ Start(c), ~Tells(c) PROVE tod' = tod /\ seen' = seen
  BY <1>8 DEF Tells, Step, Boot, clockinit, timersinit, arch_spllo, Interrupt, localclockintr, Start,
     timeradd, AddLock, AddDel, AddAddLock, AddAdd, AddEnd, timerdel, DelLock, DelDel, DelEnd,
     timerintr, IntrLock, IntrEnd, IntrPop, IntrTf, IntrReadd, print, fmtfmt, fmtinstall, screenputs, screenputc
<1>9. ASSUME NEW c \in Cpus, Interrupt(c) \/ Step(c) \/ Start(c) PROVE tod' \in TodType /\ SeenInv' /\ Forward
  BY <1>2, <1>3, <1>4, <1>5, <1>6, <1>7, <1>8, <1>9 DEF Tells
<1>10. UNCHANGED vars \/ Tick => tod' = tod /\ seen' = seen
  BY DEF vars, Tick
<1> QED
  BY <1>2, <1>9, <1>10 DEF Next

(***************************************************************************)
(* Types.                                                                  *)
(***************************************************************************)
HwType == [Cpus -> [cmp : Nat, on : BOOLEAN]]
CountType == now \in Nat /\ ticks \in Nat /\ vctl \subseteq Cpus /\ ops \in Nat

LEMMA HwStep ==
  ASSUME TypeOK, ExecInv, QueueInv, QueueType', [Next]_vars
  PROVE  hw' \in HwType
<1>1. hw \in HwType /\ timer \in TimerType /\ timer' \in TimerType
  BY DEF TypeOK, HwType, TimerType, QueueType
<1>2. ASSUME NEW c \in Cpus, NEW t \in Timer, hw' = arch_timerset(c, timer[t].twhen) PROVE hw' \in HwType
  BY <1>1, <1>2 DEF arch_timerset, HwType, TimerType
<1>3. ASSUME NEW c \in Cpus, NEW t \in Timer, hw' = arch_timerset(c, timer'[t].twhen) PROVE hw' \in HwType
  BY <1>1, <1>3 DEF arch_timerset, HwType, TimerType
<1>4. ASSUME NEW c \in Cpus, hw' = [hw EXCEPT ![c].on = FALSE] PROVE hw' \in HwType
  BY <1>1, <1>4 DEF HwType
<1>5. ASSUME NEW c \in Cpus, AddAdd(c), hw' # hw PROVE hw' \in HwType
  <2> PICK n \in {1, 2, 3}, g \in FrameType : Situation(c, n, g)
    BY Situated
  <2>1. g.pc = "tadd locked" /\ hw' = arch_timerset(c, timer'[g.t].twhen)
    BY <1>5 DEF AddAdd, At, Situation
  <2>2. g.t \in Timer
    BY <2>1 DEF Situation, AddPc
  <2> QED
    BY <1>3, <2>1, <2>2
<1>6. ASSUME NEW c \in Cpus, DelDel(c), hw' # hw PROVE hw' \in HwType
  <2> PICK q : q = head[c]
    OBVIOUS
  <2>1. Len(q) > 1 /\ hw' = arch_timerset(c, timer[q[2]].twhen)
    BY <1>6 DEF DelDel
  <2> PICK m : m = Len(q)
    OBVIOUS
  <2>2. q \in Seq(Timer) /\ m \in Nat /\ m > 1
    BY <2>1, ListTypes, LenProperties
  <2>3. 2 \in 1..m
    BY <2>2
  <2>4. q[2] \in Timer
    BY <2>2, <2>3, ElementOfSeq
  <2> QED
    BY <1>2, <2>1, <2>4
<1>7. ASSUME NEW c \in Cpus, IntrEnd(c), hw' # hw PROVE hw' \in HwType
  <2>1. head[c] # <<>> /\ hw' = arch_timerset(c, timer[head[c][1]].twhen)
    BY <1>7 DEF IntrEnd
  <2>2. head[c][1] \in Timer
    BY <2>1, FirstIn
  <2> QED
    BY <1>2, <2>1, <2>2
<1>8. ASSUME NEW c \in Cpus, clockinit(c) \/ localclockintr(c) PROVE hw' \in HwType
  BY <1>4, <1>8 DEF clockinit, localclockintr
<1>9. ASSUME NEW c \in Cpus, Interrupt(c) \/ Step(c) \/ Start(c), ~clockinit(c), ~localclockintr(c), ~AddAdd(c),
             ~DelDel(c), ~IntrEnd(c)
      PROVE  hw' = hw
  BY <1>9 DEF Step, Boot, todinit, todsetfreq, timersinit, arch_spllo, Interrupt, Start,
     timeradd, AddLock, AddDel, AddAddLock, AddEnd, timerdel, DelLock, DelEnd, todset, Slew, todget,
     timerintr, IntrLock, IntrPop, IntrTf, IntrReadd, print, fmtfmt, fmtinstall, screenputs, screenputc
<1>10. UNCHANGED vars \/ Tick => hw' = hw
  BY DEF vars, Tick
<1>11. ASSUME NEW c \in Cpus, Interrupt(c) \/ Step(c) \/ Start(c) PROVE hw' \in HwType
  BY <1>1, <1>5, <1>6, <1>7, <1>8, <1>9, <1>11
<1> QED
  BY <1>1, <1>10, <1>11 DEF Next

LEMMA CountStep ==
  ASSUME CountType, [Next]_vars
  PROVE  CountType'
<1>1. ASSUME NEW c \in Cpus, Interrupt(c) \/ Step(c) \/ Start(c)
      PROVE  /\ now' = now
             /\ ticks' = ticks \/ ticks' = ticks + 1
             /\ vctl' = vctl \/ vctl' = vctl \cup {c}
             /\ ops' = ops \/ ops' = ops + 1
  <2>1. CASE Interrupt(c) \/ localclockintr(c) \/ Start(c) \/ Boot(c)
    BY <2>1 DEF Interrupt, localclockintr, Start, Boot, clockinit, irqenable, todinit, todsetfreq, timersinit, arch_spllo
  <2>2. CASE timeradd(c) \/ timerdel(c)
    BY <2>2 DEF timeradd, AddLock, AddDel, AddAddLock, AddAdd, AddEnd, timerdel, DelLock, DelDel, DelEnd
  <2>3. CASE timerintr(c)
    BY <2>3 DEF timerintr, IntrLock, IntrEnd, IntrPop, IntrTf, IntrReadd
  <2>4. CASE todset(c) \/ Slew(c) \/ todget(c) \/ print(c)
    BY <2>4 DEF todset, Slew, todget, print, fmtfmt, fmtinstall, screenputs, screenputc
  <2> QED
    BY <1>1, <2>1, <2>2, <2>3, <2>4 DEF Step
<1>2. CASE UNCHANGED vars \/ Tick
  BY <1>2 DEF vars, Tick, CountType
<1>3. ASSUME NEW c \in Cpus, Interrupt(c) \/ Step(c) \/ Start(c) PROVE CountType'
  BY <1>1, <1>3 DEF CountType
<1> QED
  BY <1>2, <1>3 DEF Next

LEMMA TypeInit == Init => TypeOK
<1> SUFFICES ASSUME Init PROVE TypeOK
  OBVIOUS
<1>1. ExecType /\ QueueType /\ failed = FALSE
  BY ExecInit, QueueInit DEF ExecInv, QueueInv
<1>2. CountType
  BY DEF Init, CountType
<1>3. hw \in HwType
  BY DEF Init, HwType
<1>4. tod \in TodType
  BY DEF Init, TodType
<1> QED
  BY <1>1, <1>2, <1>3, <1>4 DEF TypeOK, ExecType, QueueType, CountType, HwType, TimerType, HeadType

(***************************************************************************)
(* ClockInv, all of it, is inductive.                                      *)
(***************************************************************************)
ClockInv == TypeOK /\ ExecInv /\ QueueInv /\ SeenInv

LEMMA ClockStep ==
  ASSUME ClockInv, [Next]_vars
  PROVE  ClockInv' /\ Forward
<1>1. TypeOK /\ ExecInv /\ QueueInv /\ SeenInv
  BY DEF ClockInv
<1>2. \A c \in Cpus : HeadOwn(c)
  BY <1>1, Own DEF QueueInv
<1>3. ExecInv'
  BY <1>1, <1>2, ExecStep
<1>4. QueueInv'
  BY <1>1, QueueStep
<1>5. tod' \in TodType /\ SeenInv' /\ Forward
  BY <1>1, TodStep
<1>6. hw' \in HwType
  BY <1>1, <1>4, HwStep DEF QueueInv
<1>7. CountType'
  BY <1>1, CountStep DEF CountType, TypeOK
<1>8. ExecType' /\ QueueType' /\ failed' = FALSE
  BY <1>3, <1>4 DEF ExecInv, QueueInv
<1>9. TypeOK'
  BY <1>5, <1>6, <1>7, <1>8 DEF TypeOK, ExecType, QueueType, CountType, HwType, TimerType, HeadType
<1> QED
  BY <1>3, <1>4, <1>5, <1>9 DEF ClockInv

LEMMA ClockInvariant == Spec => []ClockInv
<1>1. Init => ClockInv
  <2>1. 0 \in -Half..(Half - 1)
    BY ClockConstants
  <2>2. Init => SeenInv
    BY <2>1 DEF SeenInv, Init
  <2> QED
    BY <2>2, TypeInit, ExecInit, QueueInit DEF ClockInv
<1>2. ClockInv /\ [Next]_vars => ClockInv'
  BY ClockStep
<1> QED
  BY <1>1, <1>2, PTL DEF Spec

LEMMA QueueFacts ==
  ASSUME ClockInv
  PROVE  QueuesExact /\ HeadArmed
<1>1. TypeOK /\ ListInv /\ ArmedInv /\ failed = FALSE
  BY DEF ClockInv, QueueInv
<1>2. \A c \in Cpus : head[c] \in Seq(Timer)
  BY <1>1, ListTypes
<1>3. \A c \in Cpus : \A t \in Timer : (timer[t].tt = c) = (t \in ToSet(head[c]))
  BY <1>1, <1>2, InToSet DEF ListInv
<1>4. QueuesExact
  BY <1>1, <1>3 DEF QueuesExact, ListInv, Sorted
<1>5. HeadArmed
  BY <1>1 DEF HeadArmed, ArmedInv, Armed
<1> QED
  BY <1>4, <1>5

(* The variables of the kernel keep their types: no list, stack, deadline   *)
(* or time of day becomes something the code does not handle.               *)
THEOREM TypeCorrect == Spec => []TypeOK
<1>1. ClockInv => TypeOK
  BY DEF ClockInv
<1> QED
  BY <1>1, ClockInvariant, PTL

(* timeradd, timerdel and timerintr keep every timer on exactly the list   *)
(* its tt names and every list sorted, and no assertion of portclock.c      *)
(* fails, on any number of CPUs.                                            *)
THEOREM QueuesCorrect == Spec => []QueuesExact
<1>1. ClockInv => QueuesExact
  BY QueueFacts
<1> QED
  BY <1>1, ClockInvariant, PTL

(* A CPU with timers is interrupted by the deadline of the first of them:  *)
(* its hardware timer is set whenever its list is free and its handler is  *)
(* not running.                                                            *)
THEOREM HardwareArmed == Spec => []HeadArmed
<1>1. ClockInv => HeadArmed
  BY QueueFacts
<1> QED
  BY <1>1, ClockInvariant, PTL

(* A clock interrupt never waits for a lock that the code under it holds,  *)
(* except for the lock of the format table.                                *)
THEOREM HandlersNotStuck == Spec => []NoSelfDeadlock
<1>1. ClockInv => NoSelfDeadlock
  BY NotOwn DEF ClockInv
<1> QED
  BY <1>1, ClockInvariant, PTL

(* todget never returns less than it last returned, until todset sets the  *)
(* time, whichever CPUs ask and however the clock is slewed, but for the   *)
(* one case Wraps: the unsigned comparison of tod.c:167 takes a time below *)
(* 0, or above the largest vlong, for a later one.                         *)
THEOREM TimeMonotonic == Spec => TimeForward
<1>1. ClockInv /\ [Next]_vars => Forward
  BY ClockStep
<1>2. Forward => [seen' >= seen \/ (\E c \in Cpus : todset(c)) \/ Wraps]_vars
  BY DEF Forward
<1> QED
  BY <1>1, <1>2, ClockInvariant, PTL DEF Spec, TimeForward

(* Mutual exclusion: a lock is held by exactly the frame whose code is      *)
(* between its acquisition and its release, and by no second one; a CPU     *)
(* takes interrupts exactly while main or a program runs outside ilock and  *)
(* no handler is on its stack (taslock.c, trap.c).                          *)
THEOREM LocksExact == Spec => [](HeldInv /\ SplInv)
<1>1. ClockInv => HeldInv /\ SplInv
  BY DEF ClockInv, ExecInv
<1> QED
  BY <1>1, ClockInvariant, PTL
=============================================================================
