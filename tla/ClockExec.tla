----------------------------- MODULE ClockExec -----------------------------
(***************************************************************************)
(* What the CPUs of Clock execute: the frames on their stacks, the locks   *)
(* these hold and whether interrupts are enabled.  ExecInv says it, and    *)
(* every step keeps it, for any number of CPUs and timers, every program   *)
(* and every moment at which a CPU is interrupted.                         *)
(***************************************************************************)
EXTENDS Clock, SeqLemmas

(***************************************************************************)
(* What a CPU may be doing.                                                *)
(***************************************************************************)
BootPc == {"boot", "todinit", "todsetfreq", "timersinit"}
AddPc == {"timeradd", "tdel", "tadd", "tadd locked", "timeradd end"}
DelPc == {"timerdel", "del", "timerdel end"}
PrintPc == {"print", "fmtinstall", "screenputs", "putc"}
IntrPc == {"localclockintr", "timerintr", "while", "tf", "again"}
(* what runs with interrupts enabled, and what holds the lock of a timer *)
LowPc == {"idle", "timeradd", "timerdel", "todset", "slew", "todget"} \cup PrintPc
TimerPc == {"tdel", "tadd", "tadd locked", "timeradd end", "del", "timerdel end"}
ListPc == {"tadd locked", "while"}
BasePc == BootPc \cup {"spllo"} \cup LowPc \cup TimerPc
Pcs == BasePc \cup IntrPc

FrameType == [pc : Pcs, t : Timer \cup {None}, tt : Cpus \cup {None}, now : Nat, hz : BOOLEAN]
Splx == {"lo", "hi"}
LockType == [by : (Cpus \X Nat) \cup {None}, sr : Splx]
TodType == [init : BOOLEAN, divider : Nat, last : Nat, off : Int, lasttime : Int, delta : Int,
            sstart : Int, send : Int]

TypeOK ==
  /\ now \in Nat /\ hw \in [Cpus -> [cmp : Nat, on : BOOLEAN]] /\ spl \in [Cpus -> Splx]
  /\ lk \in [Locks -> LockType] /\ stack \in [Cpus -> Seq(FrameType)]
  /\ timer \in [Timer -> [tt : Cpus \cup {None}, twhen : Nat]] /\ head \in [Cpus -> Seq(Timer)]
  /\ tod \in TodType /\ ticks \in Nat /\ vctl \subseteq Cpus /\ ops \in Nat
  /\ failed \in BOOLEAN

(* The stack of a CPU: what main or a program does; at boot, timeradd      *)
(* under main; after an interrupt, the handler, and above it print or the  *)
(* timeradd of a timer's function.                                         *)
Shape(c) ==
  LET s == stack[c] IN
  \/ Len(s) = 1 /\ s[1].pc \in BasePc
  \/ Len(s) = 2 /\ s[1].pc = "spllo" /\ s[2].pc \in AddPc
  \/ Len(s) = 2 /\ s[1].pc \in LowPc /\ s[2].pc \in IntrPc
  \/ Len(s) = 3 /\ s[1].pc \in LowPc /\ s[2].pc = "localclockintr" /\ s[3].pc \in PrintPc
  \/ Len(s) = 3 /\ s[1].pc \in LowPc /\ s[2].pc = "again" /\ s[2].t \in Relative /\ s[3].pc \in AddPc

(* Interrupts are enabled only while main or a program runs. *)
SplInv == \A c \in Cpus : spl[c] = "lo" <=> Len(stack[c]) = 1 /\ stack[c][1].pc \in LowPc

(* The timer a frame works on: the HZ timer of a CPU is armed by its boot   *)
(* and again by its handler, and by nobody else.                           *)
FrameInv(c, k) ==
  LET f == stack[c][k] IN
  /\ f.pc \in AddPc \cup DelPc =>
       f.t \in Timer /\ (f.t \in Cpus => f.t = c /\ stack[c][1].pc = "spllo")
  /\ f.pc = "tf" => f.t \in Relative
  /\ f.pc = "again" => f.t \in Timer /\ (f.t \in Cpus => f.t = c)
  /\ f.pc \in {"tdel", "del"} => f.tt \in Cpus

StackInv == \A c \in Cpus : Shape(c) /\ \A k \in 1..Len(stack[c]) : FrameInv(c, k)

(* The locks that a frame of a CPU holds, and that they are held by it; what *)
(* iunlock will restore.                                                    *)
FrameHolds(f, c, l) ==
  \/ f.pc \in TimerPc /\ l = TimerLock(f.t)
  \/ f.pc \in ListPc /\ l = TimersLock(c)
  \/ f.pc = "putc" /\ l = Screenlock
  \/ f.pc = "fmtinstall" /\ l = Fmtl
Holds(c, k, l) == k \in 1..Len(stack[c]) /\ FrameHolds(stack[c][k], c, l)
HeldInv == \A c \in Cpus : \A l \in Locks : \A k \in Nat : lk[l].by = <<c, k>> <=> Holds(c, k, l)
Saved(c, k, f) ==
  /\ f.pc \in TimerPc => lk[TimerLock(f.t)].sr = IF k = 1 THEN "lo" ELSE "hi"
  /\ f.pc \in ListPc => lk[TimersLock(c)].sr = "hi"
SavedInv == \A c \in Cpus : \A k \in 1..Len(stack[c]) : Saved(c, k, stack[c][k])

-----------------------------------------------------------------------------
(***************************************************************************)
(* What the steps do to the stack of the CPU c.                            *)
(***************************************************************************)
StackType == [Cpus -> Seq(FrameType)]
Depth(c) == Len(stack[c])
Below(c) == \A k \in 1..(Depth(c) - 1) : stack'[c][k] = stack[c][k]
OthersKept(c) == stack' \in StackType /\ \A d \in Cpus : d # c => stack'[d] = stack[d]

Replaced(c, f) ==
  /\ OthersKept(c) /\ Below(c) /\ Len(stack'[c]) = Depth(c) /\ stack'[c][Depth(c)] = f
Called(c, f, e) ==
  /\ OthersKept(c) /\ Below(c) /\ Len(stack'[c]) = Depth(c) + 1
  /\ stack'[c][Depth(c)] = f /\ stack'[c][Depth(c) + 1] = e
Popped(c) == OthersKept(c) /\ Below(c) /\ Len(stack'[c]) = Depth(c) - 1
Pushed(c, f, e) ==
  /\ OthersKept(c) /\ Len(stack'[c]) = Depth(c) + 2
  /\ \A k \in 1..Depth(c) : stack'[c][k] = stack[c][k]
  /\ stack'[c][Depth(c) + 1] = f /\ stack'[c][Depth(c) + 2] = e

LEMMA FrontOf ==
  ASSUME NEW S, NEW s \in Seq(S), Len(s) > 0
  PROVE  /\ Front(s) \in Seq(S) /\ Len(Front(s)) = Len(s) - 1
         /\ \A k \in 1..(Len(s) - 1) : Front(s)[k] = s[k]
         /\ Last(s) \in S
<1>1. Len(s) \in Nat \ {0}
  BY LenProperties
<1>2. \A k \in 1..(Len(s) - 1) : s[k] \in S
  BY <1>1, ElementOfSeq
<1>3. Last(s) \in S
  BY <1>1, ElementOfSeq DEF Last
<1> PICK m : m = Len(s) - 1
  OBVIOUS
<1>4. m \in Nat /\ \A k \in 1..m : s[k] \in S
  BY <1>1, <1>2
<1>5. /\ SubSeq(s, 1, m) \in Seq(S) /\ Len(SubSeq(s, 1, m)) = m
      /\ \A k \in 1..m : SubSeq(s, 1, m)[k] = s[k]
  BY <1>4, SubSeqProperties
<1> QED
  BY <1>3, <1>5 DEF Front

LEMMA StackOps ==
  ASSUME stack \in StackType, NEW c \in Cpus, Depth(c) > 0
  PROVE  /\ Depth(c) \in Nat \ {0} /\ Top(c) \in FrameType /\ Top(c) = stack[c][Depth(c)]
         /\ \A f \in FrameType : Goto(c, f) => Replaced(c, f)
         /\ Return(c) => Popped(c)
<1>1. stack[c] \in Seq(FrameType) /\ Depth(c) \in Nat \ {0}
  BY LenProperties DEF StackType, Depth
<1> PICK q, n : q = Front(stack[c]) /\ n = Depth(c)
  OBVIOUS
<1>2. /\ q \in Seq(FrameType) /\ Len(q) = n - 1 /\ \A k \in 1..(n - 1) : q[k] = stack[c][k]
      /\ Top(c) \in FrameType /\ Top(c) = stack[c][n]
  BY <1>1, FrontOf DEF Top, Last, Depth
<1>3. ASSUME NEW s \in Seq(FrameType), stack' = [stack EXCEPT ![c] = s]
      PROVE  OthersKept(c) /\ stack'[c] = s
  BY <1>3 DEF OthersKept, StackType
<1>4. ASSUME NEW f \in FrameType, Goto(c, f) PROVE Replaced(c, f)
  <2>1. /\ Append(q, f) \in Seq(FrameType) /\ Len(Append(q, f)) = n
        /\ Append(q, f)[n] = f /\ \A k \in 1..(n - 1) : Append(q, f)[k] = stack[c][k]
    BY <1>1, <1>2, AppendProperties
  <2>2. stack' = [stack EXCEPT ![c] = Append(q, f)]
    BY <1>4 DEF Goto
  <2> QED
    BY <1>3, <2>1, <2>2 DEF Replaced, Below, Depth
<1>5. ASSUME Return(c) PROVE Popped(c)
  BY <1>2, <1>3, <1>5 DEF Return, Popped, Below, Depth
<1> QED
  BY <1>1, <1>2, <1>4, <1>5

LEMMA PushOps ==
  ASSUME stack \in StackType, NEW c \in Cpus, Depth(c) > 0, NEW f \in FrameType, NEW e \in FrameType
  PROVE  /\ stack' = [stack EXCEPT ![c] = Front(@) \o <<f, e>>] => Called(c, f, e)
         /\ stack' = [stack EXCEPT ![c] = @ \o <<f, e>>] => Pushed(c, f, e)
<1>1. stack[c] \in Seq(FrameType) /\ Depth(c) \in Nat \ {0}
  BY LenProperties DEF StackType, Depth
<1> PICK q, n, p, s : q = Front(stack[c]) /\ n = Depth(c) /\ p = <<f, e>> /\ s = stack[c]
  OBVIOUS
<1>2. /\ q \in Seq(FrameType) /\ Len(q) = n - 1 /\ \A k \in 1..(n - 1) : q[k] = s[k]
      /\ s \in Seq(FrameType) /\ Len(s) = n /\ n \in Nat \ {0}
  BY <1>1, FrontOf DEF Depth
<1>3. p \in Seq(FrameType) /\ Len(p) = 2 /\ p[1] = f /\ p[2] = e
  OBVIOUS
<1>4. ASSUME NEW z \in Seq(FrameType), stack' = [stack EXCEPT ![c] = z]
      PROVE  OthersKept(c) /\ stack'[c] = z
  BY <1>4 DEF OthersKept, StackType
<1>5. ASSUME stack' = [stack EXCEPT ![c] = q \o p] PROVE Called(c, f, e)
  <2>1. /\ q \o p \in Seq(FrameType) /\ Len(q \o p) = n + 1
        /\ \A k \in 1..(n - 1) : (q \o p)[k] = s[k]
        /\ (q \o p)[n] = f /\ (q \o p)[n + 1] = e
    BY <1>2, <1>3, ConcatProperties
  <2> QED
    BY <1>4, <1>5, <2>1 DEF Called, Below, Depth
<1>6. ASSUME stack' = [stack EXCEPT ![c] = s \o p] PROVE Pushed(c, f, e)
  <2>1. /\ s \o p \in Seq(FrameType) /\ Len(s \o p) = n + 2
        /\ \A k \in 1..n : (s \o p)[k] = s[k]
        /\ (s \o p)[n + 1] = f /\ (s \o p)[n + 2] = e
    <3>1. /\ s \o p \in Seq(FrameType) /\ Len(s \o p) = n + 2
          /\ \A k \in 1..(n + 2) : (s \o p)[k] = IF k <= n THEN s[k] ELSE p[k - n]
      BY <1>2, <1>3, ConcatProperties
    <3>2. n + 1 \in 1..(n + 2) /\ n + 2 \in 1..(n + 2) /\ \A k \in 1..n : k \in 1..(n + 2)
      BY <1>2
    <3>3. n + 1 - n = 1 /\ n + 2 - n = 2 /\ ~(n + 1 <= n) /\ ~(n + 2 <= n)
      BY <1>2
    <3>4. \A k \in 1..n : (s \o p)[k] = s[k]
      BY <1>2, <3>1, <3>2
    <3>5. (s \o p)[n + 1] = p[1]
      <4> PICK m : m = n + 1
        OBVIOUS
      <4>1. m \in 1..(n + 2) /\ ~(m <= n) /\ m - n = 1
        BY <1>2
      <4>2. (s \o p)[m] = p[m - n]
        BY <3>1, <4>1
      <4> QED
        BY <4>1, <4>2
    <3>6. (s \o p)[n + 2] = p[2]
      BY <3>1, <3>2, <3>3
    <3> QED
      BY <1>3, <3>1, <3>4, <3>5, <3>6
  <2> QED
    BY <1>4, <1>6, <2>1 DEF Pushed, Depth
<1> QED
  BY <1>5, <1>6

-----------------------------------------------------------------------------
(***************************************************************************)
(* What the steps do to the locks.                                         *)
(***************************************************************************)
LocksType == [Locks -> LockType]
Acquires(c, l) ==
  /\ l \in Locks /\ lk[l].by = None /\ lk' \in LocksType
  /\ lk'[l].by = <<c, Depth(c)>> /\ \A x \in Locks : x # l => lk'[x] = lk[x]
Releases(c, l) ==
  /\ l \in Locks /\ lk' \in LocksType
  /\ lk'[l].by = None /\ lk'[l].sr = lk[l].sr /\ \A x \in Locks : x # l => lk'[x] = lk[x]
SplSet(c, v) == spl' \in [Cpus -> Splx] /\ spl'[c] = v /\ \A d \in Cpus : d # c => spl'[d] = spl[d]

LEMMA LockOps ==
  ASSUME TypeOK, NEW c \in Cpus, NEW l \in Locks, Depth(c) \in Nat
  PROVE  /\ ilock(c, l) => Acquires(c, l) /\ lk'[l].sr = spl[c] /\ SplSet(c, "hi")
         /\ lock(c, l) => Acquires(c, l) /\ lk'[l].sr = lk[l].sr /\ SplSet(c, spl[c])
         /\ iunlock(c, l) => Releases(c, l) /\ SplSet(c, lk[l].sr)
         /\ unlock(c, l) => Releases(c, l) /\ SplSet(c, spl[c])
         /\ lk' = [lk EXCEPT ![l].by = None] => Releases(c, l)
<1>1. /\ lk \in LocksType /\ spl \in [Cpus -> Splx] /\ spl[c] \in Splx
      /\ lk[l] \in LockType /\ lk[l].sr \in Splx
  BY DEF TypeOK, LocksType, LockType
<1>2. Holder(c) = <<c, Depth(c)>> /\ <<c, Depth(c)>> \in Cpus \X Nat
  BY DEF Holder, Depth
<1>3. \A b \in (Cpus \X Nat) \cup {None}, sr \in Splx : [by |-> b, sr |-> sr] \in LockType
  BY DEF LockType
<1>4. \A b \in (Cpus \X Nat) \cup {None} : [lk[l] EXCEPT !.by = b] = [by |-> b, sr |-> lk[l].sr]
  BY <1>1 DEF LockType
<1>5. ASSUME ilock(c, l) PROVE Acquires(c, l) /\ lk'[l].sr = spl[c] /\ SplSet(c, "hi")
  <2>1. lk' = [lk EXCEPT ![l] = [by |-> <<c, Depth(c)>>, sr |-> spl[c]]] /\ lk[l].by = None
    BY <1>2, <1>5 DEF ilock, Held
  <2>2. [by |-> <<c, Depth(c)>>, sr |-> spl[c]] \in LockType
    BY <1>1, <1>2, <1>3
  <2>3. Acquires(c, l) /\ lk'[l].sr = spl[c]
    BY <1>1, <2>1, <2>2 DEF Acquires, LocksType
  <2>4. SplSet(c, "hi")
    BY <1>1, <1>5 DEF ilock, SplSet, Splx
  <2> QED
    BY <2>3, <2>4
<1>6. ASSUME lock(c, l) PROVE Acquires(c, l) /\ lk'[l].sr = lk[l].sr /\ SplSet(c, spl[c])
  <2>1. lk' = [lk EXCEPT ![l] = [by |-> <<c, Depth(c)>>, sr |-> lk[l].sr]] /\ lk[l].by = None
    BY <1>1, <1>2, <1>4, <1>6 DEF lock, Held
  <2>2. [by |-> <<c, Depth(c)>>, sr |-> lk[l].sr] \in LockType
    BY <1>1, <1>2, <1>3
  <2>3. Acquires(c, l) /\ lk'[l].sr = lk[l].sr
    BY <1>1, <2>1, <2>2 DEF Acquires, LocksType
  <2>4. SplSet(c, spl[c])
    BY <1>1, <1>6 DEF lock, SplSet
  <2> QED
    BY <2>3, <2>4
<1>7. lk' = [lk EXCEPT ![l].by = None] => Releases(c, l)
  <2>1. lk' = [lk EXCEPT ![l].by = None] => lk' = [lk EXCEPT ![l] = [by |-> None, sr |-> lk[l].sr]]
    BY <1>1, <1>4
  <2>2. [by |-> None, sr |-> lk[l].sr] \in LockType
    BY <1>1, <1>3
  <2> QED
    BY <1>1, <2>1, <2>2 DEF Releases, LocksType
<1>8. iunlock(c, l) => SplSet(c, lk[l].sr)
  BY <1>1 DEF iunlock, SplSet
<1>9. unlock(c, l) => SplSet(c, spl[c])
  BY <1>1 DEF unlock, SplSet
<1> QED
  BY <1>5, <1>6, <1>7, <1>8, <1>9 DEF iunlock, unlock

(* A step takes one lock, releases one or leaves the locks alone: `before' *)
(* is the frame at the top of c, `after' what becomes of it.               *)
LockMove(c, before, after) ==
  \/ lk' = lk /\ \A l \in Locks : FrameHolds(after, c, l) <=> FrameHolds(before, c, l)
  \/ \E x \in Locks : /\ Acquires(c, x)
                      /\ \A l \in Locks : FrameHolds(after, c, l) <=> FrameHolds(before, c, l) \/ l = x
  \/ \E x \in Locks : /\ Releases(c, x) /\ FrameHolds(before, c, x)
                      /\ \A l \in Locks : FrameHolds(after, c, l) <=> FrameHolds(before, c, l) /\ l # x

(* The frame at the top of c holds what `after' does, the others what they did. *)
HoldsAfter(c, after) ==
  \A l \in Locks : \A k \in Nat :
    Holds(c, k, l)' <=> IF k = Depth(c) THEN FrameHolds(after, c, l) ELSE Holds(c, k, l)

LEMMA HeldStep ==
  ASSUME TypeOK, HeldInv, NEW c \in Cpus, Depth(c) \in Nat \ {0}, OthersKept(c), NEW after,
         HoldsAfter(c, after), LockMove(c, stack[c][Depth(c)], after)
  PROVE  HeldInv'
<1> SUFFICES ASSUME NEW d \in Cpus, NEW l \in Locks, NEW k \in Nat
             PROVE  lk'[l].by = <<d, k>> <=> Holds(d, k, l)'
  BY DEF HeldInv
<1> PICK n, before : n = Depth(c) /\ before = stack[c][n]
  OBVIOUS
<1>1. /\ lk[l].by = <<d, k>> <=> Holds(d, k, l)
      /\ lk[l].by = <<c, n>> <=> FrameHolds(before, c, l)
  <2>1. lk[l].by = <<c, n>> <=> Holds(c, n, l)
    BY DEF HeldInv
  <2> QED
    BY <2>1 DEF HeldInv, Holds, Depth
<1>2. Holds(d, k, l)' <=> IF d = c /\ k = n THEN FrameHolds(after, c, l) ELSE Holds(d, k, l)
  <2>1. CASE d = c
    BY <2>1 DEF HoldsAfter
  <2>2. CASE d # c
    BY <2>2 DEF OthersKept, Holds
  <2> QED
    BY <2>1, <2>2
<1>3. None # <<d, k>> /\ (<<c, n>> = <<d, k>> <=> d = c /\ k = n)
  BY ClockConstants
<1>4. CASE lk' = lk /\ \A x \in Locks : FrameHolds(after, c, x) <=> FrameHolds(before, c, x)
  BY <1>1, <1>2, <1>3, <1>4
<1>5. ASSUME NEW x \in Locks, Acquires(c, x),
             \A y \in Locks : FrameHolds(after, c, y) <=> FrameHolds(before, c, y) \/ y = x
      PROVE  lk'[l].by = <<d, k>> <=> Holds(d, k, l)'
  <2>1. CASE l = x
    BY <1>1, <1>2, <1>3, <1>5, <2>1 DEF Acquires
  <2>2. CASE l # x
    BY <1>1, <1>2, <1>3, <1>5, <2>2 DEF Acquires
  <2> QED
    BY <2>1, <2>2
<1>6. ASSUME NEW x \in Locks, Releases(c, x), FrameHolds(before, c, x),
             \A y \in Locks : FrameHolds(after, c, y) <=> FrameHolds(before, c, y) /\ y # x
      PROVE  lk'[l].by = <<d, k>> <=> Holds(d, k, l)'
  <2>1. CASE l = x
    <3>1. lk[l].by = <<c, n>> /\ lk'[l].by = None
      BY <1>1, <1>6, <2>1 DEF Releases
    <3> QED
      BY <1>1, <1>2, <1>3, <1>6, <2>1, <3>1
  <2>2. CASE l # x
    BY <1>1, <1>2, <1>3, <1>6, <2>2 DEF Releases
  <2> QED
    BY <2>1, <2>2
<1> QED
  BY <1>4, <1>5, <1>6 DEF LockMove

(***************************************************************************)
(* What the CPUs execute, the locks they hold and whether they can be      *)
(* interrupted: one lemma for each thing a step can do to a stack.         *)
(***************************************************************************)
ExecType == spl \in [Cpus -> Splx] /\ lk \in [Locks -> LockType] /\ stack \in [Cpus -> Seq(FrameType)]
ExecInv == ExecType /\ StackInv /\ SplInv /\ HeldInv /\ SavedInv

CpuInv(c) ==
  /\ Shape(c)
  /\ \A k \in 1..Len(stack[c]) : FrameInv(c, k)
  /\ spl[c] = "lo" <=> Len(stack[c]) = 1 /\ stack[c][1].pc \in LowPc

(* The frames of c that a step leaves, and the locks saved for the others. *)
SavedAfter(c) ==
  \A k \in 1..Len(stack'[c]) : \/ k < Depth(c) /\ stack'[c][k] = stack[c][k]
                               \/ Saved(c, k, stack[c][k])'

LEMMA SavedStep ==
  ASSUME TypeOK, ExecInv, NEW c \in Cpus, Depth(c) \in Nat \ {0}, OthersKept(c), NEW after,
         LockMove(c, stack[c][Depth(c)], after), SavedAfter(c)
  PROVE  SavedInv'
<1> SUFFICES ASSUME NEW d \in Cpus, NEW k \in 1..Len(stack'[d]) PROVE Saved(d, k, stack[d][k])'
  BY DEF SavedInv
<1>1. ASSUME NEW l \in Locks, Holds(d, k, l) PROVE lk'[l].sr = lk[l].sr
  <2>1. k \in Nat
    OBVIOUS
  <2>2. lk[l].by = <<d, k>>
    BY <1>1, <2>1 DEF ExecInv, HeldInv
  <2>3. <<d, k>> # None
    BY <2>1, ClockConstants
  <2>4. lk[l].by # None
    BY <2>2, <2>3
  <2>5. \A x \in Locks : Acquires(c, x) => lk'[l] = lk[l]
    BY <2>4 DEF Acquires
  <2>6. \A x \in Locks : Releases(c, x) => lk'[l].sr = lk[l].sr
    BY DEF Releases
  <2> QED
    BY <2>5, <2>6 DEF LockMove
<1>2. ASSUME k \in 1..Len(stack[d]), stack'[d][k] = stack[d][k] PROVE Saved(d, k, stack[d][k])'
  <2> PICK f : f = stack[d][k]
    OBVIOUS
  <2>1. Saved(d, k, f)
    BY <1>2 DEF ExecInv, SavedInv
  <2>2. f.pc \in TimerPc => f.t \in Timer
    <3>1. FrameInv(d, k)
      BY <1>2 DEF ExecInv, StackInv
    <3> QED
      BY <3>1 DEF FrameInv, TimerPc, AddPc, DelPc
  <2>3. f.pc \in TimerPc => lk'[TimerLock(f.t)].sr = lk[TimerLock(f.t)].sr
    <3>1. f.pc \in TimerPc => TimerLock(f.t) \in Locks /\ Holds(d, k, TimerLock(f.t))
      BY <1>2, <2>2 DEF Holds, FrameHolds, Locks
    <3> QED
      BY <1>1, <3>1
  <2>4. f.pc \in ListPc => lk'[TimersLock(d)].sr = lk[TimersLock(d)].sr
    <3>1. f.pc \in ListPc => TimersLock(d) \in Locks /\ Holds(d, k, TimersLock(d))
      BY <1>2 DEF Holds, FrameHolds, Locks
    <3> QED
      BY <1>1, <3>1
  <2>5. Saved(d, k, f)'
    BY <2>1, <2>3, <2>4 DEF Saved
  <2> QED
    BY <1>2, <2>5 DEF Saved
<1>3. CASE d # c
  BY <1>2, <1>3 DEF OthersKept
<1>4. CASE d = c
  BY <1>2, <1>4 DEF SavedAfter, Depth
<1> QED
  BY <1>3, <1>4

LEMMA ExecTyped ==
  ASSUME TypeOK, NEW c, OthersKept(c), NEW v, SplSet(c, v), NEW f, NEW g, LockMove(c, g, f)
  PROVE  ExecType'
<1>1. lk' \in [Locks -> LockType]
  BY DEF LockMove, Acquires, Releases, LocksType, TypeOK
<1> QED
  BY <1>1 DEF ExecType, OthersKept, SplSet, StackType

LEMMA CpuStep ==
  ASSUME StackInv, SplInv, NEW c \in Cpus, OthersKept(c), NEW v, SplSet(c, v), CpuInv(c)'
  PROVE  StackInv' /\ SplInv'
<1>1. ASSUME NEW d \in Cpus, d # c PROVE CpuInv(d)'
  <2>1. CpuInv(d) /\ stack'[d] = stack[d] /\ spl'[d] = spl[d]
    BY <1>1 DEF StackInv, SplInv, CpuInv, OthersKept, SplSet
  <2> QED
    BY <2>1 DEF CpuInv, Shape, FrameInv
<1>2. \A d \in Cpus : CpuInv(d)'
  BY <1>1
<1> QED
  BY <1>2 DEF CpuInv, StackInv, SplInv

(* Where a CPU is, from what it executes. *)
Situation(c, n, g) ==
  /\ g = Top(c) /\ g = stack[c][n] /\ n = Depth(c) /\ g \in FrameType /\ n \in {1, 2, 3}
  /\ g.pc \in AddPc => /\ g.t \in Timer
                       /\ \/ n = 1 /\ g.t \in Relative
                          \/ n = 2 /\ stack[c][1].pc = "spllo" /\ (g.t \in Relative \/ g.t = c)
                          \/ n = 3 /\ stack[c][2].pc = "again" /\ g.t \in Relative
  /\ g.pc \in DelPc => n = 1 /\ g.t \in Relative
  /\ g.pc \in IntrPc => n = 2 /\ stack[c][1].pc \in LowPc
  /\ g.pc = "tf" => g.t \in Relative
  /\ g.pc = "again" => g.t \in Relative \/ g.t = c
  /\ g.pc \in PrintPc => n = 1 \/ (n = 3 /\ stack[c][2].pc = "localclockintr")
  /\ g.pc \notin AddPc \cup IntrPc \cup PrintPc => n = 1
  /\ g.pc \in {"tdel", "del"} => g.tt \in Cpus
  /\ spl[c] = "lo" <=> n = 1 /\ g.pc \in LowPc
  /\ Saved(c, n, g)

LEMMA Situated ==
  ASSUME TypeOK, ExecInv, NEW c \in Cpus
  PROVE  \E n \in {1, 2, 3} : \E g \in FrameType : Situation(c, n, g)
<1> PICK n, g : n = Depth(c) /\ g = stack[c][n]
  OBVIOUS
<1>1. Shape(c) /\ (\A k \in 1..Len(stack[c]) : FrameInv(c, k)) /\ stack \in StackType
  BY DEF TypeOK, StackType, ExecInv, StackInv
<1>2. n \in {1, 2, 3}
  BY <1>1 DEF Shape, Depth
<1>3. n > 0 /\ n \in 1..Len(stack[c])
  <2>1. n > 0 /\ n \in 1..n
    BY <1>2
  <2> QED
    BY <2>1 DEF Depth
<1>4. g = Top(c) /\ g \in FrameType
  BY <1>1, <1>3, StackOps
<1>5. FrameInv(c, n) /\ Saved(c, n, g)
  BY <1>1, <1>3 DEF ExecInv, SavedInv
<1>6. g.pc \in AddPc => \/ n = 1
                        \/ n = 2 /\ stack[c][1].pc = "spllo"
                        \/ n = 3 /\ stack[c][2].pc = "again" /\ stack[c][1].pc \in LowPc
  BY <1>1, <1>2 DEF Shape, Depth, AddPc, IntrPc, PrintPc
<1>7. /\ g.pc \in DelPc => n = 1
      /\ g.pc \in IntrPc => n = 2 /\ stack[c][1].pc \in LowPc
      /\ g.pc \in PrintPc => n = 1 \/ (n = 3 /\ stack[c][2].pc = "localclockintr")
      /\ g.pc \notin AddPc \cup IntrPc \cup PrintPc => n = 1
  BY <1>1, <1>2 DEF Shape, Depth, AddPc, IntrPc, PrintPc, DelPc, BasePc, BootPc, LowPc, TimerPc
<1>8. g.pc \in AddPc \cup DelPc =>
        g.t \in Timer /\ (g.t \in Relative \/ (g.t = c /\ n = 2 /\ stack[c][1].pc = "spllo"))
  <2>1. g.pc \in AddPc \cup DelPc =>
          g.t \in Timer /\ (g.t \in Cpus => g.t = c /\ stack[c][1].pc = "spllo")
    BY <1>5 DEF FrameInv
  <2>2. "spllo" \notin LowPc \cup AddPc \cup DelPc
    BY DEF LowPc, PrintPc, AddPc, DelPc
  <2> QED
    BY <1>6, <1>7, <2>1, <2>2 DEF Timer
<1>9. /\ g.pc = "tf" => g.t \in Relative
      /\ g.pc = "again" => g.t \in Relative \/ g.t = c
      /\ g.pc \in {"tdel", "del"} => g.tt \in Cpus
  BY <1>5 DEF FrameInv, Timer
<1>10. spl[c] = "lo" <=> n = 1 /\ g.pc \in LowPc
  BY DEF ExecInv, SplInv, Depth
<1>11. Situation(c, n, g)
  BY <1>2, <1>4, <1>5, <1>6, <1>7, <1>8, <1>9, <1>10 DEF Situation
<1> QED
  BY <1>2, <1>4, <1>11

LEMMA PcSets ==
  /\ AddPc \cap IntrPc = {} /\ AddPc \cap PrintPc = {} /\ IntrPc \cap PrintPc = {}
  /\ DelPc \cap IntrPc = {} /\ DelPc \cap PrintPc = {} /\ DelPc \cap AddPc = {}
  /\ LowPc \cap TimerPc = {} /\ LowPc \cap IntrPc = {} /\ "spllo" \notin LowPc
  BY DEF AddPc, IntrPc, PrintPc, DelPc, LowPc, TimerPc

(* The frame at the top goes on to f, within what it executes. *)
Along(c, g, f) ==
  \/ Depth(c) = 1 /\ f.pc \in BasePc
  \/ g.pc \in AddPc /\ f.pc \in AddPc
  \/ g.pc \in PrintPc /\ f.pc \in PrintPc
  \/ g.pc \in IntrPc /\ f.pc \in IntrPc
GoodFrame(c, f) ==
  /\ f.pc \in AddPc \cup DelPc => f.t \in Relative \/ (f.t = c /\ Depth(c) = 2)
  /\ f.pc = "tf" => f.t \in Relative
  /\ f.pc = "again" => f.t \in Relative \/ f.t = c
  /\ f.pc \in {"tdel", "del"} => f.tt \in Cpus

LEMMA ReplacedInv ==
  ASSUME TypeOK, ExecInv, NEW c \in Cpus, NEW n, NEW g, Situation(c, n, g),
         NEW f, NEW v, Replaced(c, f), SplSet(c, v), Along(c, g, f), GoodFrame(c, f),
         v = "lo" <=> n = 1 /\ f.pc \in LowPc,
         LockMove(c, g, f), Saved(c, n, f)'
  PROVE  ExecInv'
<1>1. /\ n \in {1, 2, 3} /\ Depth(c) = n /\ Len(stack[c]) = n /\ g = stack[c][n]
      /\ OthersKept(c) /\ Len(stack'[c]) = n /\ stack'[c][n] = f
      /\ \A k \in 1..(n - 1) : stack'[c][k] = stack[c][k]
  BY DEF Situation, Replaced, Below, Depth
<1>2. Shape(c) /\ \A k \in 1..n : FrameInv(c, k)
  BY <1>1 DEF ExecInv, StackInv
<1>3. Shape(c)'
  <2>1. CASE n = 1
    <3>1. f.pc \in BasePc
      BY <1>1, <1>2, <2>1 DEF Along, Situation, BasePc, AddPc, PrintPc, LowPc, TimerPc, IntrPc, BootPc
    <3> QED
      BY <1>1, <2>1, <3>1 DEF Shape
  <2>2. CASE n = 2
    <3>1. stack'[c][1] = stack[c][1]
      BY <1>1, <2>2
    <3>2. \/ stack[c][1].pc = "spllo" /\ g.pc \in AddPc
          \/ stack[c][1].pc \in LowPc /\ g.pc \in IntrPc
      BY <1>1, <1>2, <2>2 DEF Shape
    <3>3. \/ stack[c][1].pc = "spllo" /\ f.pc \in AddPc
          \/ stack[c][1].pc \in LowPc /\ f.pc \in IntrPc
      BY <1>1, <2>2, <3>2, PcSets DEF Along
    <3> QED
      BY <1>1, <2>2, <3>1, <3>3 DEF Shape
  <2>3. CASE n = 3
    <3>1. stack'[c][1] = stack[c][1] /\ stack'[c][2] = stack[c][2]
      BY <1>1, <2>3
    <3>2. stack[c][1].pc \in LowPc
          /\ \/ stack[c][2].pc = "localclockintr" /\ g.pc \in PrintPc
             \/ stack[c][2].pc = "again" /\ stack[c][2].t \in Relative /\ g.pc \in AddPc
      BY <1>1, <1>2, <2>3 DEF Shape
    <3>3. \/ stack[c][2].pc = "localclockintr" /\ f.pc \in PrintPc
          \/ stack[c][2].pc = "again" /\ stack[c][2].t \in Relative /\ f.pc \in AddPc
      BY <1>1, <2>3, <3>2, PcSets DEF Along
    <3> QED
      BY <1>1, <2>3, <3>1, <3>2, <3>3 DEF Shape
  <2> QED
    BY <1>1, <2>1, <2>2, <2>3
<1>4. ASSUME NEW k \in 1..n PROVE FrameInv(c, k)'
  <2>1. CASE k = n
    <3>1. Depth(c) = 2 /\ f.pc \in AddPc \cup DelPc => stack'[c][1].pc = "spllo"
      <4>1. CASE n = 2
        <5>1. stack'[c][1] = stack[c][1]
          BY <1>1, <4>1
        <5> QED
          BY <1>1, <1>3, <4>1, PcSets DEF Shape
      <4> QED
        BY <1>1, <4>1
    <3>2. c \in Timer /\ Relative \subseteq Timer /\ Relative \cap Cpus = {}
      BY ClockConstants DEF Timer
    <3> QED
      BY <1>1, <2>1, <3>1, <3>2 DEF FrameInv, GoodFrame
  <2>2. CASE k # n
    <3>1. stack'[c][k] = stack[c][k] /\ stack'[c][1] = stack[c][1]
      BY <1>1, <2>2
    <3> QED
      BY <1>2, <3>1 DEF FrameInv
  <2> QED
    BY <2>1, <2>2
<1>5. spl'[c] = "lo" <=> Len(stack'[c]) = 1 /\ stack'[c][1].pc \in LowPc
  BY <1>1 DEF SplSet
<1>6. StackInv' /\ SplInv'
  BY <1>1, <1>3, <1>4, <1>5, CpuStep DEF CpuInv, ExecInv
<1>7. HoldsAfter(c, f)
  BY <1>1 DEF HoldsAfter, Holds
<1>8. HeldInv'
  BY <1>1, <1>7, HeldStep DEF ExecInv
<1>9. SavedAfter(c)
  <2>1. ASSUME NEW k \in 1..n PROVE (k < n /\ stack'[c][k] = stack[c][k]) \/ Saved(c, k, stack[c][k])'
    BY <1>1, <2>1 DEF Saved
  <2> QED
    BY <1>1, <2>1 DEF SavedAfter
<1>10. SavedInv'
  BY <1>1, <1>9, SavedStep
<1> QED
  BY <1>1, <1>6, <1>8, <1>10, ExecTyped DEF ExecInv

(* The frame at the top returns; what it held it has released. *)
Nothing(c, after) == \A l \in Locks : ~FrameHolds(after, c, l)

LEMMA PoppedInv ==
  ASSUME TypeOK, ExecInv, NEW c \in Cpus, NEW n, NEW g, Situation(c, n, g), n # 1,
         NEW v, Popped(c), SplSet(c, v), v = "lo" <=> n = 2 /\ stack[c][1].pc \in LowPc,
         NEW after, Nothing(c, after), LockMove(c, g, after)
  PROVE  ExecInv'
<1>1. /\ n \in {2, 3} /\ Depth(c) = n /\ Len(stack[c]) = n /\ g = stack[c][n]
      /\ OthersKept(c) /\ Len(stack'[c]) = n - 1
      /\ \A k \in 1..(n - 1) : stack'[c][k] = stack[c][k]
  BY DEF Situation, Popped, Below, Depth
<1>2. Shape(c) /\ \A k \in 1..n : FrameInv(c, k)
  BY <1>1 DEF ExecInv, StackInv
<1>3. stack'[c][1] = stack[c][1]
  BY <1>1
<1>4. Shape(c)'
  <2>1. CASE n = 2
    <3>1. Len(stack'[c]) = 1 /\ Len(stack[c]) = 2
      BY <1>1, <2>1
    <3>2. stack[c][1].pc = "spllo" \/ stack[c][1].pc \in LowPc
      BY <1>2, <3>1 DEF Shape
    <3>3. stack'[c][1].pc \in BasePc
      BY <1>3, <3>2 DEF BasePc
    <3> QED
      BY <3>1, <3>3 DEF Shape
  <2>2. CASE n = 3
    <3>1. Len(stack'[c]) = 2 /\ Len(stack[c]) = 3 /\ stack'[c][2] = stack[c][2]
      BY <1>1, <2>2
    <3>2. stack[c][1].pc \in LowPc /\ stack[c][2].pc \in IntrPc
      BY <1>2, <3>1 DEF Shape, IntrPc
    <3> QED
      BY <1>3, <3>1, <3>2 DEF Shape
  <2> QED
    BY <1>1, <2>1, <2>2
<1>5. ASSUME NEW k \in 1..Len(stack'[c]) PROVE FrameInv(c, k)'
  <2>1. k \in 1..(n - 1) /\ k \in 1..n
    BY <1>1
  <2>2. FrameInv(c, k) /\ stack'[c][k] = stack[c][k]
    BY <1>1, <1>2, <2>1
  <2> QED
    BY <1>3, <2>2 DEF FrameInv
<1>6. spl'[c] = "lo" <=> Len(stack'[c]) = 1 /\ stack'[c][1].pc \in LowPc
  BY <1>1, <1>3 DEF SplSet
<1>7. StackInv' /\ SplInv'
  BY <1>1, <1>4, <1>5, <1>6, CpuStep DEF CpuInv, ExecInv
<1>8. HoldsAfter(c, after)
  BY <1>1 DEF HoldsAfter, Holds, Nothing
<1>9. HeldInv'
  BY <1>1, <1>8, HeldStep DEF ExecInv
<1>10. SavedAfter(c)
  BY <1>1 DEF SavedAfter
<1>11. SavedInv'
  BY <1>1, <1>10, SavedStep
<1> QED
  BY <1>1, <1>7, <1>9, <1>11, ExecTyped DEF ExecInv

(* The frame at the top calls timeradd: at boot, or for a timer's function. *)
LEMMA CalledInv ==
  ASSUME TypeOK, ExecInv, NEW c \in Cpus, NEW n, NEW g, Situation(c, n, g),
         NEW f, NEW e, Called(c, f, e), e.pc = "timeradd",
         \/ g.pc = "timersinit" /\ f.pc = "spllo" /\ e.t = c
         \/ g.pc = "tf" /\ f.pc = "again" /\ f.t = g.t /\ e.t = g.t,
         lk' = lk, spl' = spl
  PROVE  ExecInv'
<1>1. /\ n \in {1, 2} /\ Depth(c) = n /\ Len(stack[c]) = n /\ g = stack[c][n]
      /\ OthersKept(c) /\ Len(stack'[c]) = n + 1 /\ stack'[c][n] = f /\ stack'[c][n + 1] = e
      /\ \A k \in 1..(n - 1) : stack'[c][k] = stack[c][k]
      /\ g.pc = "timersinit" => n = 1
      /\ g.pc = "tf" => n = 2 /\ g.t \in Relative /\ stack[c][1].pc \in LowPc
  BY DEF Situation, Called, Below, Depth, AddPc, IntrPc, PrintPc
<1>2. \A k \in 1..n : FrameInv(c, k)
  BY <1>1 DEF ExecInv, StackInv
<1>3. Relative \subseteq Timer /\ Cpus \subseteq Timer /\ Relative \cap Cpus = {}
  BY ClockConstants DEF Timer
<1>4. "timeradd" \in AddPc
  BY DEF AddPc
<1>5. spl[c] # "lo"
  <2>1. spl[c] = "lo" <=> n = 1 /\ g.pc \in LowPc
    BY DEF Situation
  <2>2. "timersinit" \notin LowPc
    BY DEF LowPc, PrintPc
  <2> QED
    BY <1>1, <2>1, <2>2
<1>6. CpuInv(c)'
  <2>1. CASE g.pc = "timersinit"
    <3>1. /\ Len(stack'[c]) = 2 /\ stack'[c][1].pc = "spllo"
          /\ stack'[c][2].pc = "timeradd" /\ stack'[c][2].t = c
      BY <1>1, <2>1
    <3>2. Shape(c)'
      BY <1>4, <3>1 DEF Shape
    <3>3. FrameInv(c, 1)' /\ FrameInv(c, 2)'
      BY <1>3, <3>1 DEF FrameInv, AddPc, DelPc
    <3>4. \A k \in 1..Len(stack'[c]) : FrameInv(c, k)'
      <4>1. \A k \in 1..2 : k = 1 \/ k = 2
        OBVIOUS
      <4> QED
        BY <3>1, <3>3, <4>1
    <3> QED
      BY <1>5, <3>1, <3>2, <3>4 DEF CpuInv
  <2>2. CASE g.pc = "tf"
    <3>1. /\ Len(stack'[c]) = 3 /\ stack'[c][1] = stack[c][1] /\ stack[c][1].pc \in LowPc
          /\ stack'[c][2].pc = "again" /\ stack'[c][2].t \in Relative
          /\ stack'[c][3].pc = "timeradd" /\ stack'[c][3].t \in Relative
      BY <1>1, <2>2
    <3>2. Shape(c)'
      BY <1>4, <3>1 DEF Shape
    <3>3. FrameInv(c, 1)'
      BY <1>1, <1>2, <3>1 DEF FrameInv
    <3>4. FrameInv(c, 2)' /\ FrameInv(c, 3)'
      BY <1>3, <3>1 DEF FrameInv, AddPc, DelPc
    <3>5. \A k \in 1..Len(stack'[c]) : FrameInv(c, k)'
      <4>1. \A k \in 1..3 : k = 1 \/ k = 2 \/ k = 3
        OBVIOUS
      <4> QED
        BY <3>1, <3>3, <3>4, <4>1
    <3> QED
      BY <1>5, <3>1, <3>2, <3>5 DEF CpuInv
  <2> QED
    BY <2>1, <2>2
<1>7. SplSet(c, spl[c])
  BY DEF SplSet, TypeOK
<1>8. StackInv' /\ SplInv'
  BY <1>1, <1>6, <1>7, CpuStep DEF ExecInv
<1>9. Nothing(c, g) /\ Nothing(c, f) /\ Nothing(c, e)
  BY DEF Nothing, FrameHolds, TimerPc, ListPc
<1>10. HoldsAfter(c, f)
  <2>1. ASSUME NEW l \in Locks, NEW k \in Nat
        PROVE  Holds(c, k, l)' <=> IF k = n THEN FrameHolds(f, c, l) ELSE Holds(c, k, l)
    <3>1. CASE k = n
      BY <1>1, <3>1 DEF Holds
    <3>2. CASE k = n + 1
      BY <1>1, <1>9, <3>2 DEF Holds, Nothing
    <3>3. CASE k < n
      BY <1>1, <3>3 DEF Holds
    <3>4. CASE k > n + 1
      BY <1>1, <3>4 DEF Holds
    <3> QED
      BY <1>1, <3>1, <3>2, <3>3, <3>4
  <2> QED
    BY <1>1, <2>1 DEF HoldsAfter
<1>11. LockMove(c, g, f)
  BY <1>9 DEF LockMove, Nothing
<1>12. HeldInv'
  BY <1>1, <1>10, <1>11, HeldStep DEF ExecInv
<1>13. SavedAfter(c)
  <2>1. Saved(c, n, stack[c][n])' /\ Saved(c, n + 1, stack[c][n + 1])'
    BY <1>1 DEF Saved, TimerPc, ListPc
  <2>2. ASSUME NEW k \in 1..(n + 1)
        PROVE  (k < n /\ stack'[c][k] = stack[c][k]) \/ Saved(c, k, stack[c][k])'
    <3>1. k < n \/ k = n \/ k = n + 1
      BY <1>1
    <3> QED
      BY <1>1, <2>1, <3>1
  <2> QED
    BY <1>1, <2>2 DEF SavedAfter
<1>14. SavedInv'
  BY <1>1, <1>11, <1>13, SavedStep
<1> QED
  BY <1>1, <1>7, <1>8, <1>11, <1>12, <1>14, ExecTyped DEF ExecInv

(* The hardware interrupts what runs with interrupts enabled. *)
LEMMA PushedInv ==
  ASSUME TypeOK, ExecInv, NEW c \in Cpus, NEW n, NEW g, Situation(c, n, g),
         NEW f, NEW e, Pushed(c, f, e), f.pc = "localclockintr", e.pc = "print",
         spl[c] = "lo", SplSet(c, "hi"), lk' = lk
  PROVE  ExecInv'
<1>1. /\ n = 1 /\ Depth(c) = 1 /\ Len(stack[c]) = 1 /\ g = stack[c][1] /\ g.pc \in LowPc
      /\ OthersKept(c) /\ Len(stack'[c]) = 3
      /\ stack'[c][1] = stack[c][1] /\ stack'[c][2] = f /\ stack'[c][3] = e
  BY DEF Situation, Pushed, Depth
<1>2. FrameInv(c, 1)
  BY <1>1 DEF ExecInv, StackInv
<1>3. \A k \in 1..3 : k = 1 \/ k = 2 \/ k = 3
  OBVIOUS
<1>4. Shape(c)'
  BY <1>1 DEF Shape, PrintPc
<1>5. FrameInv(c, 1)' /\ FrameInv(c, 2)' /\ FrameInv(c, 3)'
  <2>1. FrameInv(c, 1)'
    BY <1>1, <1>2 DEF FrameInv
  <2>2. FrameInv(c, 2)' /\ FrameInv(c, 3)'
    BY <1>1 DEF FrameInv, AddPc, DelPc
  <2> QED
    BY <2>1, <2>2
<1>6. CpuInv(c)'
  BY <1>1, <1>3, <1>4, <1>5 DEF CpuInv, SplSet
<1>7. StackInv' /\ SplInv'
  BY <1>1, <1>6, CpuStep DEF ExecInv
<1>8. Nothing(c, f) /\ Nothing(c, e)
  BY DEF Nothing, FrameHolds, TimerPc, ListPc
<1>9. HoldsAfter(c, g)
  <2>1. ASSUME NEW l \in Locks, NEW k \in Nat
        PROVE  Holds(c, k, l)' <=> IF k = 1 THEN FrameHolds(g, c, l) ELSE Holds(c, k, l)
    <3>1. CASE k = 1
      BY <1>1, <3>1 DEF Holds
    <3>2. CASE k = 2
      BY <1>1, <1>8, <3>2 DEF Holds, Nothing
    <3>3. CASE k = 3
      BY <1>1, <1>8, <3>3 DEF Holds, Nothing
    <3>4. CASE k \notin {1, 2, 3}
      BY <1>1, <3>4 DEF Holds
    <3> QED
      BY <3>1, <3>2, <3>3, <3>4
  <2> QED
    BY <1>1, <2>1 DEF HoldsAfter
<1>10. LockMove(c, g, g)
  BY DEF LockMove
<1>11. HeldInv'
  BY <1>1, <1>9, <1>10, HeldStep DEF ExecInv
<1>12. SavedAfter(c)
  <2>1. Saved(c, 1, stack[c][1])'
    <3>1. Saved(c, 1, g) /\ lk' = lk /\ stack'[c][1] = g
      BY <1>1 DEF Situation
    <3> QED
      BY <3>1 DEF Saved
  <2>2. Saved(c, 2, stack[c][2])' /\ Saved(c, 3, stack[c][3])'
    BY <1>1 DEF Saved, TimerPc, ListPc
  <2> QED
    BY <1>1, <1>3, <2>1, <2>2 DEF SavedAfter
<1>13. SavedInv'
  BY <1>1, <1>10, <1>12, SavedStep
<1> QED
  BY <1>1, <1>7, <1>10, <1>11, <1>13, ExecTyped DEF ExecInv

-----------------------------------------------------------------------------
(***************************************************************************)
(* Each action keeps ExecInv.                                              *)
(***************************************************************************)
Like(f, g) == f \in FrameType /\ f.t = g.t /\ f.tt = g.tt /\ f.now = g.now /\ f.hz = g.hz

LEMMA Jumped ==
  ASSUME TypeOK, NEW c \in Cpus, NEW n, NEW g, Situation(c, n, g), NEW p \in Pcs, Jump(c, p)
  PROVE  \E f \in FrameType : Replaced(c, f) /\ f.pc = p /\ Like(f, g)
<1> PICK f : f = [g EXCEPT !.pc = p]
  OBVIOUS
<1>1. g \in FrameType /\ g = Top(c) /\ Depth(c) > 0 /\ stack \in StackType
  BY DEF Situation, TypeOK, StackType
<1>2. f \in FrameType /\ f.pc = p /\ Like(f, g)
  BY <1>1 DEF FrameType, Like
<1>3. Goto(c, f)
  BY <1>1 DEF Jump
<1>4. Replaced(c, f)
  BY <1>1, <1>2, <1>3, StackOps
<1> QED
  BY <1>2, <1>4

(* What a frame holds, from where it is. *)
LEMMA HoldsOf ==
  ASSUME NEW f, NEW c, NEW l
  PROVE  /\ f.pc \in {"tdel", "tadd", "timeradd end", "del", "timerdel end"}
              => (FrameHolds(f, c, l) <=> l = TimerLock(f.t))
         /\ f.pc = "tadd locked" => (FrameHolds(f, c, l) <=> l = TimerLock(f.t) \/ l = TimersLock(c))
         /\ f.pc = "while" => (FrameHolds(f, c, l) <=> l = TimersLock(c))
         /\ f.pc = "putc" => (FrameHolds(f, c, l) <=> l = Screenlock)
         /\ f.pc = "fmtinstall" => (FrameHolds(f, c, l) <=> l = Fmtl)
         /\ f.pc \notin TimerPc \cup ListPc \cup {"putc", "fmtinstall"} => ~FrameHolds(f, c, l)
  BY DEF FrameHolds, TimerPc, ListPc

LEMMA LocksOf ==
  /\ \A t \in Timer : TimerLock(t) \in Locks
  /\ \A c \in Cpus : TimersLock(c) \in Locks
  /\ Screenlock \in Locks /\ Fmtl \in Locks
  /\ \A t, c : TimerLock(t) # TimersLock(c)
  /\ Relative \subseteq Timer /\ Cpus \subseteq Timer
  BY DEF Locks, TimerLock, TimersLock, Timer

(* A step that neither takes nor releases a lock. *)
LEMMA PlainInv ==
  ASSUME TypeOK, ExecInv, NEW c \in Cpus, NEW n, NEW g, Situation(c, n, g),
         NEW f, Replaced(c, f), Along(c, g, f), GoodFrame(c, f),
         lk' = lk, spl' = spl, n = 1 => (f.pc \in LowPc <=> g.pc \in LowPc),
         \/ /\ f.pc \notin TimerPc \cup ListPc \cup {"putc", "fmtinstall"}
            /\ g.pc \notin TimerPc \cup ListPc \cup {"putc", "fmtinstall"}
         \/ /\ f.pc \in TimerPc \ {"tadd locked"} /\ g.pc \in TimerPc \ {"tadd locked"} /\ f.t = g.t
  PROVE  ExecInv'
<1>1. spl[c] = "lo" <=> n = 1 /\ f.pc \in LowPc
  BY DEF Situation
<1>2. SplSet(c, spl[c])
  BY DEF SplSet, TypeOK
<1>3. \A l \in Locks : FrameHolds(f, c, l) <=> FrameHolds(g, c, l)
  BY HoldsOf DEF TimerPc, ListPc
<1>4. LockMove(c, g, f)
  BY <1>3 DEF LockMove
<1>5. Saved(c, n, f)'
  <2>1. Saved(c, n, g)
    BY DEF Situation
  <2> QED
    BY <2>1 DEF Saved, TimerPc, ListPc
<1> QED
  BY <1>1, <1>2, <1>4, <1>5, ReplacedInv

LEMMA AddExec ==
  ASSUME TypeOK, ExecInv, NEW c \in Cpus, timeradd(c) \/ timerdel(c)
  PROVE  ExecInv'
<1> PICK n \in {1, 2, 3}, g \in FrameType : Situation(c, n, g)
  BY Situated
<1>1. g = Top(c) /\ Depth(c) = n /\ n \in Nat /\ n > 0 /\ g = stack[c][n] /\ stack \in StackType
  BY DEF Situation, TypeOK, StackType
<1>2. /\ g.pc \in AddPc \cup DelPc => g.t \in Timer /\ (g.t \in Relative \/ (g.t = c /\ n = 2))
      /\ g.pc \in DelPc => n = 1
      /\ spl[c] = "lo" <=> n = 1 /\ g.pc \in LowPc
      /\ spl[c] \in Splx
      /\ Saved(c, n, g)
  BY DEF Situation, Timer, TypeOK
<1>3. /\ TimersLock(c) \in Locks /\ \A t \in Timer : TimerLock(t) \in Locks
      /\ \A t \in Timer : timer[t].tt \in Cpus \cup {None}
      /\ \A t, d : TimerLock(t) # TimersLock(d)
  BY LocksOf DEF TypeOK
<1>4. CASE AddLock(c) \/ DelLock(c)
  <2> PICK x, f : /\ x = TimerLock(g.t)
                  /\ f = [g EXCEPT !.tt = timer[g.t].tt,
                                   !.pc = IF g.pc = "timeradd"
                                          THEN IF timer[g.t].tt = None THEN "tadd" ELSE "tdel"
                                          ELSE IF timer[g.t].tt = None THEN "timerdel end" ELSE "del"]
    OBVIOUS
  <2>1. g.pc \in {"timeradd", "timerdel"} /\ ilock(c, x) /\ Goto(c, f)
    BY <1>1, <1>4 DEF AddLock, DelLock, At
  <2>2. g.t \in Timer /\ x \in Locks /\ timer[g.t].tt \in Cpus \cup {None}
        /\ (g.t \in Relative \/ (g.t = c /\ n = 2))
        /\ (g.pc = "timerdel" => n = 1)
    BY <1>2, <1>3, <2>1 DEF AddPc, DelPc
  <2>3. /\ f \in FrameType /\ f.t = g.t /\ f.tt = timer[g.t].tt
        /\ g.pc = "timeradd" => f.pc = IF timer[g.t].tt = None THEN "tadd" ELSE "tdel"
        /\ g.pc # "timeradd" => f.pc = IF timer[g.t].tt = None THEN "timerdel end" ELSE "del"
    BY <2>2 DEF FrameType, Pcs, BasePc, TimerPc
  <2>4. /\ f.pc \in {"tadd", "tdel", "timerdel end", "del"} /\ f.pc \in TimerPc \ ListPc
        /\ f.pc \in {"tdel", "del"} => f.tt \in Cpus
    <3>1. CASE timer[g.t].tt = None
      BY <2>3, <3>1 DEF TimerPc, ListPc
    <3>2. CASE timer[g.t].tt # None
      BY <2>2, <2>3, <3>2 DEF TimerPc, ListPc
    <3> QED
      BY <3>1, <3>2
  <2>5. Replaced(c, f)
    BY <1>1, <2>1, <2>3, StackOps
  <2>6. Acquires(c, x) /\ lk'[x].sr = spl[c] /\ SplSet(c, "hi")
    BY <1>1, <2>1, <2>2, LockOps
  <2>7. Along(c, g, f)
    BY <1>1, <2>1, <2>2, <2>3 DEF Along, AddPc, DelPc, BasePc, TimerPc
  <2>8. GoodFrame(c, f)
    <3>1. f.pc \notin {"tf", "again"}
      BY <2>4
    <3> QED
      BY <1>1, <2>2, <2>3, <2>4, <3>1 DEF GoodFrame
  <2>9. \A l \in Locks : FrameHolds(f, c, l) <=> FrameHolds(g, c, l) \/ l = x
    <3>1. \A l \in Locks : FrameHolds(f, c, l) <=> l = x
      <4>1. f.pc \in {"tdel", "tadd", "timeradd end", "del", "timerdel end"} /\ x = TimerLock(f.t)
        BY <2>3, <2>4
      <4> QED
        BY <4>1, HoldsOf
    <3>2. \A l \in Locks : ~FrameHolds(g, c, l)
      <4>1. g.pc \notin TimerPc \cup ListPc \cup {"putc", "fmtinstall"}
        BY <2>1 DEF TimerPc, ListPc
      <4> QED
        BY <4>1, HoldsOf
    <3> QED
      BY <3>1, <3>2
  <2>10. LockMove(c, g, f)
    BY <2>2, <2>6, <2>9 DEF LockMove
  <2>11. Saved(c, n, f)'
    <3>1. lk'[x].sr = IF n = 1 THEN "lo" ELSE "hi"
      BY <1>2, <2>1, <2>6 DEF LowPc, Splx
    <3> QED
      BY <2>3, <2>4, <3>1 DEF Saved
  <2>12. f.pc \notin LowPc
    BY <2>4, PcSets
  <2> QED
    BY <2>5, <2>6, <2>7, <2>8, <2>10, <2>11, <2>12, ReplacedInv
<1>5. CASE AddDel(c)
  <2>1. g.pc = "tdel" /\ Jump(c, "tadd") /\ lk' = lk /\ spl' = spl
    BY <1>1, <1>5 DEF AddDel, At
  <2> PICK f \in FrameType : Replaced(c, f) /\ f.pc = "tadd" /\ Like(f, g)
    BY <2>1, Jumped DEF Pcs, BasePc, TimerPc
  <2>2. Along(c, g, f) /\ GoodFrame(c, f) /\ f.t = g.t
    BY <1>1, <1>2, <2>1 DEF Along, GoodFrame, AddPc, Like, DelPc
  <2> QED
    BY <2>1, <2>2, PlainInv DEF TimerPc, LowPc, PrintPc
<1>6. CASE AddAddLock(c)
  <2> PICK x : x = TimersLock(c)
    OBVIOUS
  <2>1. g.pc = "tadd" /\ Jump(c, "tadd locked") /\ ilock(c, x)
    BY <1>1, <1>6 DEF AddAddLock, At
  <2> PICK f \in FrameType : Replaced(c, f) /\ f.pc = "tadd locked" /\ Like(f, g)
    BY <2>1, Jumped DEF Pcs, BasePc, TimerPc
  <2>2. Along(c, g, f) /\ GoodFrame(c, f) /\ f.t = g.t
    BY <1>1, <1>2, <2>1 DEF Along, GoodFrame, AddPc, Like, DelPc
  <2>3. Acquires(c, x) /\ lk'[x].sr = spl[c] /\ SplSet(c, "hi")
    BY <1>1, <1>3, <2>1, LockOps
  <2>4. spl[c] = "hi" /\ f.pc \notin LowPc
    BY <1>2, <2>1 DEF LowPc, PrintPc, Splx
  <2>5. \A l \in Locks : FrameHolds(f, c, l) <=> FrameHolds(g, c, l) \/ l = x
    BY <2>1, <2>2, HoldsOf
  <2>6. LockMove(c, g, f)
    BY <1>3, <2>3, <2>5 DEF LockMove
  <2>7. Saved(c, n, f)'
    <3>1. g.t \in Timer /\ TimerLock(g.t) \in Locks /\ TimerLock(g.t) # x
      BY <1>2, <1>3, <2>1 DEF AddPc
    <3>2. lk'[TimerLock(g.t)] = lk[TimerLock(g.t)]
      BY <2>3, <3>1 DEF Acquires
    <3> QED
      BY <1>2, <2>1, <2>2, <2>3, <2>4, <3>2 DEF Saved, TimerPc
  <2> QED
    BY <2>2, <2>3, <2>4, <2>6, <2>7, ReplacedInv
<1>7. CASE AddAdd(c)
  <2> PICK x : x = TimersLock(c)
    OBVIOUS
  <2>1. g.pc = "tadd locked" /\ Jump(c, "timeradd end") /\ iunlock(c, x)
    BY <1>1, <1>7 DEF AddAdd, At
  <2> PICK f \in FrameType : Replaced(c, f) /\ f.pc = "timeradd end" /\ Like(f, g)
    BY <2>1, Jumped DEF Pcs, BasePc, TimerPc
  <2>2. Along(c, g, f) /\ GoodFrame(c, f) /\ f.t = g.t
    BY <1>1, <1>2, <2>1 DEF Along, GoodFrame, AddPc, Like, DelPc
  <2>3. Releases(c, x) /\ SplSet(c, lk[x].sr)
    BY <1>1, <1>3, <2>1, LockOps
  <2>4. lk[x].sr = "hi" /\ f.pc \notin LowPc
    BY <1>2, <2>1 DEF LowPc, PrintPc, Saved, ListPc
  <2>5. \A l \in Locks : FrameHolds(f, c, l) <=> FrameHolds(g, c, l) /\ l # x
    BY <1>3, <2>1, <2>2, HoldsOf, ZenonT(60)
  <2>6. LockMove(c, g, f)
    BY <1>3, <2>1, <2>3, <2>5, HoldsOf DEF LockMove
  <2>7. Saved(c, n, f)'
    <3>1. g.t \in Timer /\ TimerLock(g.t) \in Locks /\ TimerLock(g.t) # x
      BY <1>2, <1>3, <2>1 DEF AddPc
    <3>2. lk'[TimerLock(g.t)] = lk[TimerLock(g.t)]
      BY <2>3, <3>1 DEF Releases
    <3> QED
      BY <1>2, <2>1, <2>2, <3>2 DEF Saved, TimerPc, ListPc
  <2> QED
    BY <2>2, <2>3, <2>4, <2>6, <2>7, ReplacedInv
<1>8. CASE AddEnd(c) \/ DelEnd(c)
  <2> PICK x : x = TimerLock(g.t)
    OBVIOUS
  <2>1. /\ g.pc \in {"timeradd end", "timerdel end"} /\ iunlock(c, x)
        /\ (n = 1 /\ Jump(c, "idle")) \/ (n # 1 /\ Return(c) /\ g.pc = "timeradd end")
    BY <1>1, <1>2, <1>8 DEF AddEnd, DelEnd, At, Finish, Depth, DelPc
  <2>2. x \in Locks
    BY <1>2, <1>3, <2>1 DEF AddPc, DelPc
  <2>3. Releases(c, x) /\ SplSet(c, lk[x].sr)
    BY <1>1, <2>1, <2>2, LockOps
  <2>4. lk[x].sr = IF n = 1 THEN "lo" ELSE "hi"
    BY <1>2, <2>1 DEF Saved, TimerPc
  <2>5. ASSUME NEW f, f.pc = "idle" PROVE LockMove(c, g, f) /\ Nothing(c, f)
    <3>1. \A l \in Locks : ~FrameHolds(f, c, l)
      BY <2>5, HoldsOf DEF TimerPc, ListPc
    <3>2. \A l \in Locks : FrameHolds(g, c, l) <=> l = x
      BY <2>1, HoldsOf
    <3> QED
      BY <2>2, <2>3, <3>1, <3>2 DEF LockMove, Nothing
  <2>6. CASE n = 1
    <3> PICK f \in FrameType : Replaced(c, f) /\ f.pc = "idle" /\ Like(f, g)
      BY <2>1, <2>6, Jumped DEF Pcs, BasePc, LowPc
    <3>1. Along(c, g, f) /\ GoodFrame(c, f)
      BY <1>1, <2>6 DEF Along, GoodFrame, AddPc, DelPc, BasePc, LowPc
    <3>2. Saved(c, n, f)' /\ f.pc \in LowPc
      BY DEF Saved, TimerPc, ListPc, LowPc
    <3> QED
      BY <2>3, <2>4, <2>5, <2>6, <3>1, <3>2, ReplacedInv
  <2>7. CASE n # 1
    <3> PICK f : f = [pc |-> "idle"]
      OBVIOUS
    <3>1. Popped(c)
      BY <1>1, <2>1, <2>7, StackOps
    <3>2. n = 2 => stack[c][1].pc \notin LowPc
      BY <2>1, <2>7, PcSets DEF Situation, AddPc
    <3>3. LockMove(c, g, f) /\ Nothing(c, f)
      BY <2>5
    <3> QED
      BY <2>3, <2>4, <2>7, <3>1, <3>2, <3>3, PoppedInv
  <2> QED
    BY <2>6, <2>7
<1>9. CASE DelDel(c)
  <2>1. g.pc = "del" /\ Jump(c, "timerdel end") /\ lk' = lk /\ spl' = spl
    BY <1>1, <1>9 DEF DelDel, At
  <2> PICK f \in FrameType : Replaced(c, f) /\ f.pc = "timerdel end" /\ Like(f, g)
    BY <2>1, Jumped DEF Pcs, BasePc, TimerPc
  <2>2. Along(c, g, f) /\ GoodFrame(c, f) /\ f.t = g.t
    BY <1>1, <1>2, <2>1 DEF Along, GoodFrame, AddPc, Like, DelPc, BasePc, TimerPc
  <2> QED
    BY <2>1, <2>2, PlainInv DEF TimerPc, LowPc, PrintPc
<1> QED
  BY <1>4, <1>5, <1>6, <1>7, <1>8, <1>9 DEF timeradd, timerdel

(* The timers on the list of a CPU are relative ones, and its own. *)
HeadOwn(c) == head[c] # <<>> => head[c][1] \in Relative \cup {c}

LEMMA IntrExec ==
  ASSUME TypeOK, ExecInv, NEW c \in Cpus, HeadOwn(c), localclockintr(c) \/ timerintr(c)
  PROVE  ExecInv'
<1> PICK n \in {1, 2, 3}, g \in FrameType : Situation(c, n, g)
  BY Situated
<1>1. g = Top(c) /\ Depth(c) = n /\ n \in Nat /\ n > 0 /\ g = stack[c][n] /\ stack \in StackType
  BY DEF Situation, TypeOK, StackType
<1>2. /\ g.pc \in IntrPc => n = 2 /\ stack[c][1].pc \in LowPc
      /\ g.pc = "tf" => g.t \in Relative
      /\ g.pc = "again" => g.t \in Relative \/ g.t = c
      /\ spl[c] = "lo" <=> n = 1 /\ g.pc \in LowPc
      /\ spl[c] \in Splx
      /\ Saved(c, n, g)
  BY DEF Situation, TypeOK
<1>3. TimersLock(c) \in Locks
  BY LocksOf
<1>4. ASSUME NEW f \in FrameType, f.pc \in IntrPc PROVE f.pc \notin LowPc \cup TimerPc \cup {"putc", "fmtinstall"}
  BY <1>4 DEF IntrPc, LowPc, PrintPc, TimerPc
<1>5. CASE localclockintr(c)
  <2> PICK f : f = [g EXCEPT !.pc = "timerintr", !.now = now]
    OBVIOUS
  <2>1. g.pc = "localclockintr" /\ Goto(c, f) /\ lk' = lk /\ spl' = spl
    BY <1>1, <1>5 DEF localclockintr, At
  <2>2. f \in FrameType /\ f.pc = "timerintr"
    BY DEF FrameType, Pcs, IntrPc, TypeOK
  <2>3. Replaced(c, f)
    BY <1>1, <2>1, <2>2, StackOps
  <2>4. Along(c, g, f) /\ GoodFrame(c, f) /\ n = 2
    BY <1>1, <1>2, <2>1, <2>2 DEF Along, GoodFrame, IntrPc, AddPc, DelPc
  <2>5. /\ f.pc \notin TimerPc \cup ListPc \cup {"putc", "fmtinstall"}
        /\ g.pc \notin TimerPc \cup ListPc \cup {"putc", "fmtinstall"}
    BY <2>1, <2>2 DEF TimerPc, ListPc
  <2>6. n = 1 => (f.pc \in LowPc <=> g.pc \in LowPc)
    BY <2>4
  <2> QED
    BY <2>1, <2>3, <2>4, <2>5, <2>6, PlainInv
<1>6. CASE IntrLock(c) \/ IntrReadd(c)
  <2> PICK x : x = TimersLock(c)
    OBVIOUS
  <2>1. g.pc \in {"timerintr", "again"} /\ ilock(c, x) /\ Jump(c, "while")
    BY <1>1, <1>6 DEF IntrLock, IntrReadd, At
  <2> PICK f \in FrameType : Replaced(c, f) /\ f.pc = "while" /\ Like(f, g)
    BY <2>1, Jumped DEF Pcs, IntrPc
  <2>2. Along(c, g, f) /\ GoodFrame(c, f) /\ n = 2
    BY <1>1, <1>2, <2>1 DEF Along, GoodFrame, IntrPc, AddPc, DelPc
  <2>3. Acquires(c, x) /\ lk'[x].sr = spl[c] /\ SplSet(c, "hi")
    BY <1>1, <1>3, <2>1, LockOps
  <2>4. spl[c] = "hi" /\ f.pc \notin LowPc
    BY <1>2, <2>2 DEF LowPc, PrintPc, Splx
  <2>5. \A l \in Locks : FrameHolds(f, c, l) <=> FrameHolds(g, c, l) \/ l = x
    BY <2>1, HoldsOf DEF TimerPc, ListPc
  <2>6. LockMove(c, g, f)
    BY <1>3, <2>3, <2>5 DEF LockMove
  <2>7. Saved(c, n, f)'
    BY <2>3, <2>4 DEF Saved, TimerPc
  <2> QED
    BY <2>2, <2>3, <2>4, <2>6, <2>7, ReplacedInv
<1>7. CASE IntrEnd(c)
  <2> PICK x, f : x = TimersLock(c) /\ f = [pc |-> "idle"]
    OBVIOUS
  <2>1. /\ g.pc = "while" /\ lk' = [lk EXCEPT ![x].by = None] /\ spl' = [spl EXCEPT ![c] = "lo"]
        /\ Return(c)
    BY <1>1, <1>7 DEF IntrEnd, At
  <2>2. Releases(c, x)
    BY <1>1, <1>3, <2>1, LockOps
  <2>3. SplSet(c, "lo")
    BY <2>1 DEF SplSet, TypeOK, Splx
  <2>4. Popped(c) /\ n = 2 /\ stack[c][1].pc \in LowPc
    BY <1>1, <1>2, <2>1, StackOps DEF IntrPc
  <2>5. Nothing(c, f)
    <3>1. f.pc \notin TimerPc \cup ListPc \cup {"putc", "fmtinstall"}
      BY DEF TimerPc, ListPc
    <3> QED
      BY <3>1, HoldsOf DEF Nothing
  <2>6. \A l \in Locks : FrameHolds(g, c, l) <=> l = x
    BY <2>1, HoldsOf
  <2>7. LockMove(c, g, f)
    BY <1>3, <2>2, <2>5, <2>6 DEF LockMove, Nothing
  <2> QED
    BY <2>3, <2>4, <2>5, <2>7, PoppedInv
<1>8. CASE IntrPop(c)
  <2> PICK x, t : x = TimersLock(c) /\ t = head[c][1]
    OBVIOUS
  <2> PICK f : f = [g EXCEPT !.t = t, !.hz = @ \/ Periodic(t), !.pc = IF Periodic(t) THEN "again" ELSE "tf"]
    OBVIOUS
  <2>1. g.pc = "while" /\ head[c] # <<>> /\ Goto(c, f) /\ iunlock(c, x)
    BY <1>1, <1>8 DEF IntrPop, At
  <2>2. t \in Relative \cup {c} /\ t \in Timer /\ Periodic(t) \in BOOLEAN
    BY <2>1, LocksOf DEF HeadOwn, Periodic
  <2>3. f \in FrameType /\ f.t = t /\ f.pc = IF Periodic(t) THEN "again" ELSE "tf"
    <3>1. "again" \in Pcs /\ "tf" \in Pcs
      BY DEF Pcs, IntrPc
    <3>2. (g.hz \/ Periodic(t)) \in BOOLEAN
      OBVIOUS
    <3> QED
      BY <2>2, <3>1, <3>2 DEF FrameType
  <2>4. f.pc \in {"again", "tf"} /\ (f.pc = "tf" => t \in Relative)
    <3>1. t \notin Relative => t \in Cpus
      BY <2>2
    <3> QED
      BY <2>3, <3>1 DEF Periodic
  <2>5. Replaced(c, f)
    BY <1>1, <2>1, <2>3, StackOps
  <2>6. Along(c, g, f) /\ GoodFrame(c, f) /\ n = 2
    BY <1>1, <1>2, <2>1, <2>2, <2>3, <2>4 DEF Along, GoodFrame, IntrPc, AddPc, DelPc
  <2>7. Releases(c, x) /\ SplSet(c, lk[x].sr)
    BY <1>1, <1>3, <2>1, LockOps
  <2>8. lk[x].sr = "hi" /\ f.pc \notin LowPc
    BY <1>2, <2>1, <2>4 DEF LowPc, PrintPc, Saved, ListPc
  <2>9. \A l \in Locks : FrameHolds(f, c, l) <=> FrameHolds(g, c, l) /\ l # x
    <3>1. \A l \in Locks : FrameHolds(g, c, l) <=> l = x
      BY <2>1, HoldsOf
    <3>2. \A l \in Locks : ~FrameHolds(f, c, l)
      BY <2>4, HoldsOf DEF TimerPc, ListPc
    <3> QED
      BY <3>1, <3>2
  <2>10. LockMove(c, g, f)
    BY <1>3, <2>1, <2>7, <2>9, HoldsOf DEF LockMove
  <2>11. Saved(c, n, f)'
    BY <2>4 DEF Saved, TimerPc, ListPc
  <2> QED
    BY <2>5, <2>6, <2>7, <2>8, <2>10, <2>11, ReplacedInv
<1>9. CASE IntrTf(c)
  <2>1. g.pc = "tf" /\ lk' = lk /\ spl' = spl /\ g.t \in Relative /\ n = 2
    BY <1>1, <1>2, <1>9 DEF IntrTf, At, IntrPc
  <2>2. CASE Jump(c, "again")
    <3> PICK f \in FrameType : Replaced(c, f) /\ f.pc = "again" /\ Like(f, g)
      BY <2>2, Jumped DEF Pcs, IntrPc
    <3>1. Along(c, g, f) /\ GoodFrame(c, f)
      BY <1>1, <2>1 DEF Along, GoodFrame, IntrPc, AddPc, DelPc, Like
    <3>2. /\ f.pc \notin TimerPc \cup ListPc \cup {"putc", "fmtinstall"}
          /\ g.pc \notin TimerPc \cup ListPc \cup {"putc", "fmtinstall"}
      BY <2>1 DEF TimerPc, ListPc
    <3>3. n = 1 => (f.pc \in LowPc <=> g.pc \in LowPc)
      BY <2>1
    <3> QED
      BY <2>1, <3>1, <3>2, <3>3, PlainInv
  <2>3. CASE Call(c, "again", Frame("timeradd", g.t))
    <3> PICK f, e : f = [g EXCEPT !.pc = "again"] /\ e = Frame("timeradd", g.t)
      OBVIOUS
    <3>1. f \in FrameType /\ f.pc = "again" /\ f.t = g.t
      BY DEF FrameType, Pcs, IntrPc
    <3>2. e \in FrameType /\ e.pc = "timeradd" /\ e.t = g.t
      BY DEF FrameType, Pcs, BasePc, LowPc, Frame
    <3>3. Called(c, f, e)
      BY <1>1, <2>3, <3>1, <3>2, PushOps DEF Call
    <3> QED
      BY <2>1, <3>1, <3>2, <3>3, CalledInv
  <2> QED
    BY <1>1, <1>9, <2>2, <2>3 DEF IntrTf
<1> QED
  BY <1>5, <1>6, <1>7, <1>8, <1>9 DEF timerintr

LEMMA BootExec ==
  ASSUME TypeOK, ExecInv, NEW c \in Cpus, Boot(c) \/ Interrupt(c)
  PROVE  ExecInv'
<1> PICK n \in {1, 2, 3}, g \in FrameType : Situation(c, n, g)
  BY Situated
<1>1. g = Top(c) /\ Depth(c) = n /\ n \in Nat /\ n > 0 /\ g = stack[c][n] /\ stack \in StackType
  BY DEF Situation, TypeOK, StackType
<1>2. /\ g.pc \notin AddPc \cup IntrPc \cup PrintPc => n = 1
      /\ spl[c] = "lo" <=> n = 1 /\ g.pc \in LowPc
  BY DEF Situation
<1>3. CASE clockinit(c) \/ todinit(c) \/ todsetfreq(c)
  <2>1. /\ g.pc \in {"boot", "todinit", "todsetfreq"} /\ lk' = lk /\ spl' = spl
        /\ \E p \in {"todinit", "todsetfreq", "timersinit"} : Jump(c, p)
    BY <1>1, <1>3 DEF clockinit, todinit, todsetfreq, At
  <2> PICK p \in {"todinit", "todsetfreq", "timersinit"} : Jump(c, p)
    BY <2>1
  <2> PICK f \in FrameType : Replaced(c, f) /\ f.pc = p /\ Like(f, g)
    BY Jumped DEF Pcs, BasePc, BootPc
  <2>2. n = 1
    BY <1>2, <2>1 DEF AddPc, IntrPc, PrintPc
  <2>3. Along(c, g, f) /\ GoodFrame(c, f)
    BY <1>1, <2>2 DEF Along, GoodFrame, BasePc, BootPc, AddPc, DelPc
  <2>4. f.pc \notin LowPc /\ g.pc \notin LowPc
    BY <2>1 DEF LowPc, PrintPc
  <2> QED
    BY <2>1, <2>3, <2>4, PlainInv DEF TimerPc, ListPc
<1>4. CASE timersinit(c)
  <2> PICK f, e : f = [g EXCEPT !.pc = "spllo"] /\ e = Frame("timeradd", c)
    OBVIOUS
  <2>1. /\ g.pc = "timersinit" /\ lk' = lk /\ spl' = spl
        /\ stack' = [stack EXCEPT ![c] = Front(@) \o <<f, e>>]
    BY <1>1, <1>4 DEF timersinit, At, Call
  <2>2. f \in FrameType /\ f.pc = "spllo"
    BY DEF FrameType, Pcs, BasePc
  <2>3. e \in FrameType /\ e.pc = "timeradd" /\ e.t = c
    BY DEF FrameType, Pcs, BasePc, LowPc, Frame, Timer
  <2>4. Called(c, f, e)
    BY <1>1, <2>1, <2>2, <2>3, PushOps
  <2> QED
    BY <2>1, <2>2, <2>3, <2>4, CalledInv
<1>5. CASE arch_spllo(c)
  <2>1. g.pc = "spllo" /\ lk' = lk /\ spl' = [spl EXCEPT ![c] = "lo"] /\ Jump(c, "idle")
    BY <1>1, <1>5 DEF arch_spllo, At
  <2> PICK f \in FrameType : Replaced(c, f) /\ f.pc = "idle" /\ Like(f, g)
    BY <2>1, Jumped DEF Pcs, BasePc, LowPc
  <2>2. n = 1
    BY <1>2, <2>1 DEF AddPc, IntrPc, PrintPc
  <2>3. Along(c, g, f) /\ GoodFrame(c, f)
    BY <1>1, <2>2 DEF Along, GoodFrame, BasePc, LowPc, AddPc, DelPc
  <2>4. SplSet(c, "lo") /\ f.pc \in LowPc
    BY <2>1 DEF SplSet, TypeOK, Splx, LowPc
  <2>5. \A l \in Locks : FrameHolds(f, c, l) <=> FrameHolds(g, c, l)
    BY <2>1, HoldsOf DEF TimerPc, ListPc
  <2>6. LockMove(c, g, f)
    BY <2>1, <2>5 DEF LockMove
  <2>7. Saved(c, n, f)'
    BY DEF Saved, TimerPc, ListPc
  <2> QED
    BY <2>2, <2>3, <2>4, <2>6, <2>7, ReplacedInv
<1>6. CASE Interrupt(c)
  <2> PICK f, e : f = Frame("localclockintr", None) /\ e = Frame("print", None)
    OBVIOUS
  <2>1. /\ spl[c] = "lo" /\ spl' = [spl EXCEPT ![c] = "hi"] /\ lk' = lk
        /\ stack' = [stack EXCEPT ![c] = @ \o <<f, e>>]
    BY <1>6 DEF Interrupt
  <2>2. f \in FrameType /\ f.pc = "localclockintr" /\ e \in FrameType /\ e.pc = "print"
    BY DEF Frame, FrameType, Pcs, IntrPc, BasePc, LowPc, PrintPc
  <2>3. Pushed(c, f, e)
    BY <1>1, <2>1, <2>2, PushOps
  <2>4. SplSet(c, "hi")
    BY <2>1 DEF SplSet, TypeOK, Splx
  <2> QED
    BY <2>1, <2>2, <2>3, <2>4, PushedInv
<1> QED
  BY <1>3, <1>4, <1>5, <1>6 DEF Boot

LEMMA PrintExec ==
  ASSUME TypeOK, ExecInv, NEW c \in Cpus, print(c)
  PROVE  ExecInv'
<1> PICK n \in {1, 2, 3}, g \in FrameType : Situation(c, n, g)
  BY Situated
<1>1. g = Top(c) /\ Depth(c) = n /\ n \in Nat /\ n > 0 /\ g = stack[c][n] /\ stack \in StackType
  BY DEF Situation, TypeOK, StackType
<1>2. /\ g.pc \in PrintPc => n = 1 \/ n = 3
      /\ spl[c] = "lo" <=> n = 1 /\ g.pc \in LowPc
      /\ PrintPc \subseteq LowPc
      /\ "idle" \in LowPc
  BY DEF Situation, LowPc
<1>3. SplSet(c, spl[c]) <=> spl' = spl
  <2>1. spl \in [Cpus -> Splx]
    BY DEF TypeOK
  <2>2. SplSet(c, spl[c]) => \A d \in Cpus : spl'[d] = spl[d]
    BY DEF SplSet
  <2> QED
    BY <2>1, <2>2 DEF SplSet
<1>4. ASSUME NEW p \in PrintPc, g.pc \in PrintPc, Jump(c, p), spl' = spl,
             \A f \in FrameType : f.pc = p => LockMove(c, g, f)
      PROVE  ExecInv'
  <2> PICK f \in FrameType : Replaced(c, f) /\ f.pc = p /\ Like(f, g)
    BY <1>4, Jumped DEF Pcs, BasePc, LowPc
  <2>1. Along(c, g, f) /\ GoodFrame(c, f)
    BY <1>4 DEF Along, GoodFrame, PrintPc, AddPc, DelPc
  <2>2. Saved(c, n, f)'
    BY <1>4 DEF Saved, TimerPc, ListPc, PrintPc
  <2>3. spl[c] = "lo" <=> n = 1 /\ f.pc \in LowPc
    BY <1>2, <1>4
  <2> QED
    BY <1>3, <1>4, <2>1, <2>2, <2>3, ReplacedInv
<1>5. ASSUME Finish(c), g.pc \in PrintPc, spl' = spl,
             \A f : f.pc = "idle" => LockMove(c, g, f)
      PROVE  ExecInv'
  <2>1. ASSUME NEW f, f.pc = "idle" PROVE Nothing(c, f)
    <3>1. f.pc \notin TimerPc \cup ListPc \cup {"putc", "fmtinstall"}
      BY <2>1 DEF TimerPc, ListPc
    <3> QED
      BY <3>1, HoldsOf DEF Nothing
  <2>2. CASE n = 1
    <3>1. Jump(c, "idle")
      BY <1>1, <1>5, <2>2 DEF Finish, Depth
    <3> PICK f \in FrameType : Replaced(c, f) /\ f.pc = "idle" /\ Like(f, g)
      BY <3>1, Jumped DEF Pcs, BasePc, LowPc
    <3>2. Along(c, g, f) /\ GoodFrame(c, f)
      BY <1>1, <2>2 DEF Along, GoodFrame, BasePc, LowPc, AddPc, DelPc
    <3>3. Saved(c, n, f)'
      BY DEF Saved, TimerPc, ListPc
    <3>4. spl[c] = "lo" <=> n = 1 /\ f.pc \in LowPc
      BY <1>2, <1>5
    <3> QED
      BY <1>3, <1>5, <3>2, <3>3, <3>4, ReplacedInv
  <2>3. CASE n # 1
    <3> PICK f : f = [pc |-> "idle"]
      OBVIOUS
    <3>1. n = 3 /\ Popped(c)
      BY <1>1, <1>2, <1>5, <2>3, StackOps DEF Finish, Depth
    <3>2. LockMove(c, g, f) /\ Nothing(c, f)
      BY <1>5, <2>1
    <3>3. spl[c] = "lo" <=> n = 2 /\ stack[c][1].pc \in LowPc
      BY <1>2, <3>1
    <3> QED
      BY <1>3, <1>5, <3>1, <3>2, <3>3, PoppedInv
  <2> QED
    BY <2>2, <2>3
<1>6. /\ Fmtl \in Locks /\ Screenlock \in Locks
      /\ {"print", "fmtinstall", "screenputs", "putc"} = PrintPc
  BY LocksOf DEF PrintPc
<1>7. CASE fmtfmt(c)
  <2>1. g.pc = "print"
    BY <1>1, <1>7 DEF fmtfmt, At
  <2>2. \A l \in Locks : ~FrameHolds(g, c, l)
    BY <2>1, HoldsOf DEF TimerPc, ListPc
  <2>3. CASE "d" \in fmts
    <3>1. Jump(c, "screenputs") /\ lk' = lk /\ spl' = spl
      BY <1>7, <2>3 DEF fmtfmt
    <3>2. ASSUME NEW f \in FrameType, f.pc = "screenputs" PROVE LockMove(c, g, f)
      <4>1. \A l \in Locks : ~FrameHolds(f, c, l)
        BY <3>2, HoldsOf DEF TimerPc, ListPc
      <4> QED
        BY <2>2, <3>1, <4>1 DEF LockMove
    <3> QED
      BY <1>4, <1>6, <2>1, <3>1, <3>2
  <2>4. CASE "d" \notin fmts
    <3>1. Jump(c, "fmtinstall") /\ lock(c, Fmtl)
      BY <1>7, <2>4 DEF fmtfmt
    <3>2. Acquires(c, Fmtl) /\ spl' = spl
      BY <1>1, <1>3, <1>6, <3>1, LockOps
    <3>3. ASSUME NEW f \in FrameType, f.pc = "fmtinstall" PROVE LockMove(c, g, f)
      <4>1. \A l \in Locks : FrameHolds(f, c, l) <=> l = Fmtl
        BY <3>3, HoldsOf
      <4> QED
        BY <1>6, <2>2, <3>2, <4>1 DEF LockMove
    <3> QED
      BY <1>4, <1>6, <2>1, <3>1, <3>2, <3>3
  <2> QED
    BY <2>3, <2>4
<1>8. CASE fmtinstall(c)
  <2>1. g.pc = "fmtinstall" /\ unlock(c, Fmtl) /\ Jump(c, "screenputs")
    BY <1>1, <1>8 DEF fmtinstall, At
  <2>2. Releases(c, Fmtl) /\ spl' = spl
    BY <1>1, <1>3, <1>6, <2>1, LockOps
  <2>3. ASSUME NEW f \in FrameType, f.pc = "screenputs" PROVE LockMove(c, g, f)
    <3>1. \A l \in Locks : FrameHolds(g, c, l) <=> l = Fmtl
      BY <2>1, HoldsOf
    <3>2. \A l \in Locks : ~FrameHolds(f, c, l)
      BY <2>3, HoldsOf DEF TimerPc, ListPc
    <3> QED
      BY <1>6, <2>2, <3>1, <3>2 DEF LockMove
  <2> QED
    BY <1>4, <1>6, <2>1, <2>2, <2>3
<1>9. CASE screenputs(c)
  <2>1. g.pc = "screenputs"
    BY <1>1, <1>9 DEF screenputs, At
  <2>2. \A l \in Locks : ~FrameHolds(g, c, l)
    BY <2>1, HoldsOf DEF TimerPc, ListPc
  <2>3. CASE spl[c] = "hi" /\ Held(Screenlock)
    <3>1. Finish(c) /\ lk' = lk /\ spl' = spl
      BY <1>9, <2>3 DEF screenputs
    <3>2. ASSUME NEW f, f.pc = "idle" PROVE LockMove(c, g, f)
      <4>1. \A l \in Locks : ~FrameHolds(f, c, l)
        BY <3>2, HoldsOf DEF TimerPc, ListPc
      <4> QED
        BY <2>2, <3>1, <4>1 DEF LockMove
    <3> QED
      BY <1>5, <1>6, <2>1, <3>1, <3>2
  <2>4. CASE ~(spl[c] = "hi" /\ Held(Screenlock))
    <3>1. Jump(c, "putc") /\ lock(c, Screenlock)
      BY <1>9, <2>4 DEF screenputs
    <3>2. Acquires(c, Screenlock) /\ spl' = spl
      BY <1>1, <1>3, <1>6, <3>1, LockOps
    <3>3. ASSUME NEW f \in FrameType, f.pc = "putc" PROVE LockMove(c, g, f)
      <4>1. \A l \in Locks : FrameHolds(f, c, l) <=> l = Screenlock
        BY <3>3, HoldsOf
      <4> QED
        BY <1>6, <2>2, <3>2, <4>1 DEF LockMove
    <3> QED
      BY <1>4, <1>6, <2>1, <3>1, <3>2, <3>3
  <2> QED
    BY <2>3, <2>4
<1>10. CASE screenputc(c)
  <2>1. g.pc = "putc" /\ unlock(c, Screenlock) /\ Finish(c)
    BY <1>1, <1>10 DEF screenputc, At
  <2>2. Releases(c, Screenlock) /\ spl' = spl
    BY <1>1, <1>3, <1>6, <2>1, LockOps
  <2>3. ASSUME NEW f, f.pc = "idle" PROVE LockMove(c, g, f)
    <3>1. \A l \in Locks : FrameHolds(g, c, l) <=> l = Screenlock
      BY <2>1, HoldsOf
    <3>2. \A l \in Locks : ~FrameHolds(f, c, l)
      BY <2>3, HoldsOf DEF TimerPc, ListPc
    <3> QED
      BY <1>6, <2>2, <3>1, <3>2 DEF LockMove
  <2> QED
    BY <1>5, <1>6, <2>1, <2>2, <2>3
<1> QED
  BY <1>7, <1>8, <1>9, <1>10 DEF print

LEMMA ProgramExec ==
  ASSUME TypeOK, ExecInv, NEW c \in Cpus, todset(c) \/ Slew(c) \/ todget(c) \/ Start(c)
  PROVE  ExecInv'
<1> PICK n \in {1, 2, 3}, g \in FrameType : Situation(c, n, g)
  BY Situated
<1>1. g = Top(c) /\ Depth(c) = n /\ n \in Nat /\ n > 0 /\ g = stack[c][n] /\ stack \in StackType
  BY DEF Situation, TypeOK, StackType
<1>2. g.pc \in {"todset", "slew", "todget", "idle"} /\ lk' = lk /\ spl' = spl
  BY <1>1 DEF todset, Slew, todget, Start, At
<1>3. n = 1 /\ g.pc \in LowPc /\ g.pc \notin TimerPc \cup ListPc \cup {"putc", "fmtinstall"}
  BY <1>2 DEF Situation, LowPc, AddPc, IntrPc, PrintPc, TimerPc, ListPc
<1>4. CASE ~Start(c)
  <2>1. Jump(c, "idle")
    BY <1>4 DEF todset, Slew, todget
  <2> PICK f \in FrameType : Replaced(c, f) /\ f.pc = "idle" /\ Like(f, g)
    BY <2>1, Jumped DEF Pcs, BasePc, LowPc
  <2>2. Along(c, g, f) /\ GoodFrame(c, f)
    BY <1>1, <1>3 DEF Along, GoodFrame, BasePc, LowPc, AddPc, DelPc
  <2>3. f.pc \in LowPc /\ f.pc \notin TimerPc \cup ListPc \cup {"putc", "fmtinstall"}
    BY DEF LowPc, TimerPc, ListPc
  <2> QED
    BY <1>2, <1>3, <2>2, <2>3, PlainInv
<1>5. CASE Start(c)
  <2> PICK p \in Programs[c] :
         \/ p \in {"timeradd", "timerdel"} /\ \E t \in Relative : Goto(c, Frame(p, t))
         \/ p \notin {"timeradd", "timerdel"} /\ Goto(c, Frame(p, None))
    BY <1>5 DEF Start
  <2>1. p \in {"timeradd", "timerdel", "todset", "slew", "todget", "print"}
    BY ClockConstants
  <2> PICK t \in Relative \cup {None} : Goto(c, Frame(p, t)) /\ (p \in {"timeradd", "timerdel"} => t \in Relative)
    OBVIOUS
  <2> PICK f : f = Frame(p, t)
    OBVIOUS
  <2>2. f \in FrameType /\ f.pc = p /\ f.t = t
    <3>1. p \in Pcs
      BY <2>1 DEF Pcs, BasePc, LowPc, PrintPc
    <3> QED
      BY <3>1 DEF FrameType, Frame, Timer
  <2>3. Replaced(c, f)
    BY <1>1, <2>2, StackOps
  <2>4. f.pc \in LowPc /\ f.pc \notin TimerPc \cup ListPc \cup {"putc", "fmtinstall"}
    BY <2>1, <2>2 DEF LowPc, TimerPc, ListPc, PrintPc
  <2>5. Along(c, g, f)
    BY <1>1, <1>3, <2>4 DEF Along, BasePc
  <2>6. GoodFrame(c, f)
    BY <2>1, <2>2 DEF GoodFrame, AddPc, DelPc
  <2> QED
    BY <1>2, <1>3, <2>3, <2>4, <2>5, <2>6, PlainInv
<1> QED
  BY <1>4, <1>5

LEMMA ExecInit == Init => ExecInv
<1> SUFFICES ASSUME Init PROVE ExecInv
  OBVIOUS
<1>1. ASSUME NEW c \in Cpus
      PROVE  /\ Len(stack[c]) = 1 /\ stack[c][1].pc = "boot" /\ spl[c] = "hi"
             /\ \A l \in Locks : lk[l].by = None
  BY DEF Init, Frame
<1>2. "boot" \in BasePc /\ "boot" \notin LowPc \cup TimerPc \cup ListPc \cup AddPc \cup DelPc
  BY DEF BasePc, BootPc, LowPc, PrintPc, TimerPc, ListPc, AddPc, DelPc
<1>3. StackInv /\ SplInv
  BY <1>1, <1>2 DEF StackInv, SplInv, Shape, FrameInv
<1>4. ASSUME NEW c \in Cpus, NEW l \in Locks, NEW k \in Nat
      PROVE  ~Holds(c, k, l) /\ lk[l].by # <<c, k>>
  <2>1. None # <<c, k>>
    BY ClockConstants
  <2>2. Holds(c, k, l) => k = 1
    BY <1>1 DEF Holds
  <2>3. ~FrameHolds(stack[c][1], c, l)
    BY <1>1, <1>2, HoldsOf
  <2>4. lk[l].by = None
    BY <1>1
  <2> QED
    BY <2>1, <2>2, <2>3, <2>4 DEF Holds
<1>5. HeldInv
  BY <1>4 DEF HeldInv
<1>6. SavedInv
  BY <1>1, <1>2 DEF SavedInv, Saved
<1>7. ExecType
  <2>1. \A l \in Locks : [by |-> None, sr |-> "hi"] \in LockType
    BY DEF LockType, Splx
  <2>2. Frame("boot", None) \in FrameType
    BY DEF Frame, FrameType, Pcs, BasePc, BootPc
  <2>3. <<Frame("boot", None)>> \in Seq(FrameType)
    BY <2>2
  <2> QED
    BY <2>1, <2>3 DEF ExecType, Init, Splx
<1> QED
  BY <1>3, <1>5, <1>6, <1>7 DEF ExecInv

LEMMA ExecStep ==
  ASSUME TypeOK, ExecInv, \A c \in Cpus : HeadOwn(c), [Next]_vars
  PROVE  ExecInv'
<1>1. CASE UNCHANGED vars \/ Tick
  <2>1. spl' = spl /\ lk' = lk /\ stack' = stack
    BY <1>1 DEF vars, Tick
  <2>2. ExecType' /\ StackInv' /\ SplInv'
    BY <2>1 DEF ExecInv, ExecType, StackInv, Shape, FrameInv, SplInv
  <2>3. HeldInv' /\ SavedInv'
    BY <2>1 DEF ExecInv, HeldInv, Holds, SavedInv, Saved
  <2> QED
    BY <2>2, <2>3 DEF ExecInv
<1>2. ASSUME NEW c \in Cpus, Interrupt(c) \/ Step(c) \/ Start(c) PROVE ExecInv'
  BY <1>2, AddExec, IntrExec, BootExec, PrintExec, ProgramExec DEF Step
<1> QED
  BY <1>1, <1>2 DEF Next

(* A lock that a CPU waits for is held by another one: the frames below    *)
(* the one that waits are those of the code that was interrupted or of the *)
(* handler, and hold no lock of a timer or of a list.                      *)
LEMMA NotOwn ==
  ASSUME TypeOK, ExecInv
  PROVE  NoSelfDeadlock
<1> SUFFICES ASSUME NEW c \in Cpus, NEW l \in Wants(c), Held(l), lk[l].by[1] = c, l # Fmtl
             PROVE  FALSE
  <2>1. ASSUME NEW c \in Cpus PROVE SelfDeadlock(c) => Wants(c) = {Fmtl}
    <3>1. (\E l \in Wants(c) : l = Fmtl) => Wants(c) = {Fmtl}
      BY DEF Wants, Fmtl, TimerLock, TimersLock, Screenlock
    <3> QED
      BY <3>1 DEF SelfDeadlock
  <2> QED
    BY <2>1 DEF NoSelfDeadlock
<1> PICK n \in {1, 2, 3}, g \in FrameType : Situation(c, n, g)
  BY Situated
<1>1. g = Top(c) /\ g = stack[c][n] /\ Len(stack[c]) = n
  BY DEF Situation, Depth
<1>2. \/ g.pc \in {"timeradd", "timerdel"} /\ l = TimerLock(g.t)
      \/ g.pc \in {"tdel", "del"} /\ l = TimersLock(g.tt)
      \/ g.pc \in {"tadd", "timerintr", "again"} /\ l = TimersLock(c)
      \/ g.pc = "screenputs" /\ spl[c] = "lo" /\ l = Screenlock
  BY <1>1 DEF Wants, At
<1>3. l \in Locks
  BY <1>2, LocksOf DEF Situation, AddPc, DelPc
<1>4. lk[l].by \in Cpus \X Nat
  BY <1>3 DEF TypeOK, LockType, Held
<1> PICK k \in Nat : lk[l].by = <<c, k>>
  BY <1>4
<1>5. Holds(c, k, l)
  BY <1>3 DEF ExecInv, HeldInv
<1>6. k \in 1..n /\ FrameHolds(stack[c][k], c, l)
  BY <1>1, <1>5 DEF Holds
<1>7. ~FrameHolds(g, c, l)
  <2>1. CASE g.pc \in {"timeradd", "timerdel", "timerintr", "again", "screenputs"}
    BY <2>1, HoldsOf DEF TimerPc, ListPc
  <2>2. CASE g.pc \in {"tdel", "tadd", "del"}
    BY <1>2, <2>2, HoldsOf, LocksOf, ZenonT(60)
  <2> QED
    BY <1>2, <2>1, <2>2
<1>8. k < n /\ n # 1
  BY <1>1, <1>6, <1>7
<1>9. Shape(c)
  BY DEF ExecInv, StackInv
<1>10. CASE stack[c][k].pc \in LowPc
  <2>1. stack[c][k].pc \notin TimerPc \cup ListPc
    BY <1>10 DEF LowPc, PrintPc, TimerPc, ListPc
  <2>2. l = Screenlock
    BY <1>6, <2>1 DEF FrameHolds
  <2>3. spl[c] = "lo"
    BY <1>2, <2>2 DEF Screenlock, TimerLock, TimersLock
  <2> QED
    BY <1>8, <2>3 DEF Situation
<1>11. CASE stack[c][k].pc \in {"spllo", "again", "localclockintr"}
  BY <1>6, <1>11, HoldsOf DEF TimerPc, ListPc
<1>12. stack[c][k].pc \in LowPc \/ stack[c][k].pc \in {"spllo", "again", "localclockintr"}
  <2>1. CASE n = 2
    <3>1. k = 1
      BY <1>6, <1>8, <2>1
    <3> QED
      BY <1>1, <1>9, <2>1, <3>1 DEF Shape
  <2>2. CASE n = 3
    <3>1. k = 1 \/ k = 2
      BY <1>6, <1>8, <2>2
    <3> QED
      BY <1>1, <1>9, <2>2, <3>1 DEF Shape
  <2> QED
    BY <1>8, <2>1, <2>2
<1> QED
  BY <1>10, <1>11, <1>12
=============================================================================
