---------------------------- MODULE InterpProofs ----------------------------
(***************************************************************************)
(* Proofs about the byte-code interpreter: signals are not lost, and       *)
(* external_raise is the innermost interprete.  Both only depend on the C  *)
(* stack, external_raise and the mode of the machine, which most           *)
(* instructions leave alone (Alike); IsSeq says that a value is a          *)
(* sequence, of whatever elements.                                         *)
(***************************************************************************)
EXTENDS Interp, SeqLemmas

Registers == {"low", "high", "mem", "sp", "trapsp", "barrier", "accu", "env", "extra", "pc",
              "base", "heap", "global", "roots", "cs", "ext", "depth", "mode"}

(* z is the machine y but for the stack, the heap and the data registers *)
Alike(y, z) ==
  /\ DOMAIN y = Registers => DOMAIN z = Registers
  /\ DOMAIN y = Registers => z.cs = y.cs /\ z.ext = y.ext /\ z.mode = y.mode

LEMMA AlikeTrans ==
  ASSUME NEW a, NEW b, NEW c, Alike(a, b), Alike(b, c)
  PROVE  Alike(a, c)
BY DEF Alike

LEMMA AlikeSelf ==
  ASSUME NEW a
  PROVE  Alike(a, a)
BY DEF Alike

(* The operations on the registers, the stack and the heap. *)
LEMMA PushAlike ==
  ASSUME NEW y, NEW ws
  PROVE  Alike(y, Push(y, ws))
BY DEF Alike, Push, Registers

LEMMA PopAlike ==
  ASSUME NEW y, NEW n
  PROVE  Alike(y, Pop(y, n))
BY DEF Alike, Pop, Registers

LEMMA AccAlike ==
  ASSUME NEW y, NEW v
  PROVE  Alike(y, Acc(y, v)) /\ Alike(y, Goto(y, v))
BY DEF Alike, Acc, Goto, Registers

LEMMA EnterAlike ==
  ASSUME NEW y, NEW closure, NEW extra
  PROVE  Alike(y, Enter(y, closure, extra))
BY DEF Alike, Enter, Registers

LEMMA LeaveAlike ==
  ASSUME NEW y
  PROVE  Alike(y, Leave(y))
<1>1. Alike(y, Pop(y, 3))
  BY PopAlike
<1>2. Alike(Pop(y, 3), Leave(y))
  BY DEF Alike, Leave, Registers
<1> QED
  BY <1>1, <1>2, AlikeTrans

LEMMA NewBlockAlike ==
  ASSUME NEW y, NEW t, NEW fs
  PROVE  Alike(y, NewBlock(y, t, fs)) /\ Alike(y, WithNew(y, t, fs))
<1>1. Alike(y, NewBlock(y, t, fs))
  BY DEF Alike, NewBlock, Registers
<1> QED
  BY <1>1, AccAlike, AlikeTrans DEF WithNew

LEMMA SetFieldAlike ==
  ASSUME NEW y, NEW v, NEW i, NEW w
  PROVE  Alike(y, SetField(y, v, i, w))
BY DEF Alike, SetField, Registers

LEMMA CollectionAlike ==
  ASSUME NEW y
  PROVE  Alike(y, minor_collection(y))
BY DEF Alike, minor_collection, Registers

LEMMA CollectedAlike ==
  ASSUME NEW y, NEW g
  PROVE  Alike(y, Collected(y)) /\ Alike(y, AfterGc(y, g))
<1> DEFINE a == Setup_for_gc(y)
           b == minor_collection(a)
           c == Pop(b, 2)
<1>1. Alike(y, a)
  BY PushAlike DEF Setup_for_gc
<1>2. Alike(a, b)
  BY CollectionAlike
<1>3. Alike(b, c)
  BY PopAlike
<1>4. Alike(c, Collected(y))
  BY DEF Alike, Collected, Restore_after_gc, Registers
<1> HIDE DEF a, b, c
<1>5. Alike(y, Collected(y))
  BY <1>1, <1>2, <1>3, <1>4, AlikeTrans
<1> QED
  BY <1>5, AlikeSelf DEF AfterGc

LEMMA ReallocAlike ==
  ASSUME NEW y
  PROVE  Alike(y, realloc_stack(y))
BY DEF Alike, realloc_stack, Registers

-----------------------------------------------------------------------------
(***************************************************************************)
(* Sequences of any elements.                                              *)
(***************************************************************************)
IsSeq(s) == \E S : s \in Seq(S)
(* t is the first m elements of s *)
Cut(t, s, m) == IsSeq(t) /\ Len(t) = m /\ \A i \in 1..m : t[i] = s[i]
(* t is s and then f *)
Extended(t, s, f) ==
  /\ IsSeq(t) /\ Len(t) = Len(s) + 1 /\ t[Len(s) + 1] = f /\ \A i \in 1..Len(s) : t[i] = s[i]

LEMMA IsSeqLen ==
  ASSUME NEW s, IsSeq(s)
  PROVE  Len(s) \in Nat /\ DOMAIN s = 1..Len(s) /\ (s # <<>> <=> Len(s) > 0)
<1> PICK S : s \in Seq(S)
  BY DEF IsSeq
<1> QED
  BY LenProperties, EmptySeq

LEMMA AppendExtends ==
  ASSUME NEW s, IsSeq(s), NEW f
  PROVE  Extended(Append(s, f), s, f)
<1> PICK S : s \in Seq(S)
  BY DEF IsSeq
<1> PICK T : T = S \cup {f}
  OBVIOUS
<1>1. s \in Seq(T) /\ f \in T
  OBVIOUS
<1>2. Append(s, f) \in Seq(T)
  BY <1>1
<1>3. /\ Len(Append(s, f)) = Len(s) + 1 /\ Append(s, f)[Len(s) + 1] = f
      /\ \A i \in 1..Len(s) : Append(s, f)[i] = s[i]
  BY <1>1, AppendProperties
<1> QED
  BY <1>2, <1>3 DEF Extended, IsSeq

LEMMA SubSeqCut ==
  ASSUME NEW s, IsSeq(s), NEW m \in 0..Len(s)
  PROVE  Cut(SubSeq(s, 1, m), s, m)
<1> PICK S : s \in Seq(S)
  BY DEF IsSeq
<1>1. Len(s) \in Nat /\ m \in Nat
  BY LenProperties
<1>2. /\ SubSeq(s, 1, m) \in Seq(S) /\ Len(SubSeq(s, 1, m)) = m
      /\ \A i \in 1..m : SubSeq(s, 1, m)[i] = s[i]
  BY <1>1, SubSeqProperties
<1> QED
  BY <1>2 DEF Cut, IsSeq

LEMMA FrontCut ==
  ASSUME NEW s, IsSeq(s), Len(s) > 0
  PROVE  Cut(Front(s), s, Len(s) - 1)
<1>1. Len(s) \in Nat /\ Len(s) - 1 \in 0..Len(s)
  BY IsSeqLen
<1>2. Front(s) = SubSeq(s, 1, Len(s) - 1)
  BY DEF Front
<1> QED
  BY <1>1, <1>2, SubSeqCut

(* A sequence with its element at i replaced. *)
Replaces(t, s, i, f) ==
  /\ IsSeq(t) /\ Len(t) = Len(s) /\ t[i] = f /\ \A j \in 1..Len(s) : j # i => t[j] = s[j]

LEMMA ExceptReplaces ==
  ASSUME NEW s, IsSeq(s), NEW i \in 1..Len(s), NEW f, NEW t, t = [s EXCEPT ![i] = f]
  PROVE  Replaces(t, s, i, f)
<1> PICK S : s \in Seq(S)
  BY DEF IsSeq
<1> PICK T : T = S \cup {f}
  OBVIOUS
<1>1. s \in Seq(T) /\ f \in T
  OBVIOUS
<1>2. t \in Seq(T) /\ Len(t) = Len(s)
  BY <1>1, ExceptSeq
<1>3. t[i] = f /\ \A j \in 1..Len(s) : j # i => t[j] = s[j]
  BY <1>1, LenProperties
<1> QED
  BY <1>2, <1>3 DEF Replaces, IsSeq

-----------------------------------------------------------------------------
(***************************************************************************)
(* The C stack.  Innermost(s, e, m): e is the last interprete among the    *)
(* first m activations, or 0.                                              *)
(***************************************************************************)
FrameFields == {"k", "at", "offset", "ext", "roots", "depth", "args", "pc", "extra", "pop"}
Kinds == Primitives \cup {"interp", "enter", "handle"}
FrameOK(f) == DOMAIN f = FrameFields /\ f.k \in Kinds

(* code during which handle_signal may run the handler at once *)
ReadyAt(k, at) == (k = "read" /\ at = 2) \/ (k = "enter" /\ at = 5) \/ (k = "handle" /\ at = 2)
Ready(f) == ReadyAt(f.k, f.at)

Innermost(s, e, m) ==
  \/ e = 0 /\ \A i \in 1..m : s[i].k # "interp"
  \/ e \in 1..m /\ s[e].k = "interp" /\ \A i \in 1..m : s[i].k = "interp" => i <= e

(* enter_blocking_section and the handler of a signal run above code that  *)
(* is ready for a signal.                                                  *)
CsInv(s, e) ==
  /\ IsSeq(s)
  /\ \A i \in 1..Len(s) : FrameOK(s[i])
  /\ \A i \in 1..Len(s) : s[i].k \in {"enter", "handle"} => i # 1 /\ Ready(s[i - 1])
  /\ \A i \in 1..Len(s) : s[i].k = "interp" => Innermost(s, s[i].ext, i - 1)
  /\ Innermost(s, e, Len(s))

(* The kinds and the saved external_raise of the first m activations are   *)
(* those of another stack, and the steps of all of them but the last.      *)
Agree(t, s, m) ==
  \A i \in 1..m : t[i].k = s[i].k /\ t[i].ext = s[i].ext /\ (i < m => t[i].at = s[i].at)

LEMMA InnermostAgree ==
  ASSUME NEW s, NEW t, NEW m \in Nat, Agree(t, s, m), NEW n \in 0..m, NEW e, Innermost(s, e, n)
  PROVE  Innermost(t, e, n)
<1>1. \A i \in 1..n : t[i].k = s[i].k
  BY DEF Agree
<1> QED
  BY <1>1 DEF Innermost

(* A stack that begins like a good one is good, with the interprete that   *)
(* is innermost there.                                                     *)
LEMMA CsAgree ==
  ASSUME NEW s, NEW e0, CsInv(s, e0), NEW t, IsSeq(t), Len(t) \in 0..Len(s), Agree(t, s, Len(t)),
         \A i \in 1..Len(t) : FrameOK(t[i]), NEW e, Innermost(s, e, Len(t))
  PROVE  CsInv(t, e)
<1> PICK m : m = Len(t)
  OBVIOUS
<1>1. m \in Nat /\ Len(s) \in Nat /\ m <= Len(s)
  BY IsSeqLen DEF CsInv
<1>2. Innermost(t, e, m)
  BY <1>1, InnermostAgree
<1>3. ASSUME NEW i \in 1..m, t[i].k \in {"enter", "handle"} PROVE i # 1 /\ Ready(t[i - 1])
  <2>1. i \in 1..Len(s) /\ s[i].k = t[i].k
    BY <1>1 DEF Agree
  <2>2. i # 1 /\ Ready(s[i - 1])
    BY <1>3, <2>1 DEF CsInv
  <2>3. i - 1 \in 1..m /\ i - 1 < m
    BY <1>1, <2>2
  <2> QED
    BY <2>2, <2>3 DEF Agree, Ready
<1>4. ASSUME NEW i \in 1..m, t[i].k = "interp" PROVE Innermost(t, t[i].ext, i - 1)
  <2>1. i \in 1..Len(s) /\ s[i].k = t[i].k /\ s[i].ext = t[i].ext /\ i - 1 \in 0..m
    BY <1>1 DEF Agree
  <2>2. Innermost(s, t[i].ext, i - 1)
    BY <1>4, <2>1 DEF CsInv
  <2> QED
    BY <1>1, <2>1, <2>2, InnermostAgree
<1> QED
  BY <1>2, <1>3, <1>4 DEF CsInv

(* An activation is popped, or several are. *)
LEMMA CsCut ==
  ASSUME NEW s, NEW e0, CsInv(s, e0), NEW m \in 0..Len(s), NEW t, Cut(t, s, m),
         NEW e, Innermost(s, e, m)
  PROVE  CsInv(t, e)
<1>1. Len(s) \in Nat /\ m \in Nat
  BY IsSeqLen DEF CsInv
<1>2. \A i \in 1..m : i \in 1..Len(s) /\ t[i] = s[i]
  BY <1>1 DEF Cut
<1>3. Agree(t, s, m) /\ \A i \in 1..m : FrameOK(t[i])
  BY <1>2 DEF Agree, CsInv
<1> QED
  BY <1>3, CsAgree DEF Cut

TopReady(s) == Len(s) > 0 /\ Ready(s[Len(s)])

(* An activation is pushed. *)
LEMMA CsExtend ==
  ASSUME NEW s, NEW e, CsInv(s, e), NEW f, FrameOK(f), NEW t, Extended(t, s, f),
         f.k \in {"enter", "handle"} => TopReady(s)
  PROVE  /\ f.k # "interp" => CsInv(t, e)
         /\ f.k = "interp" /\ f.ext = e => CsInv(t, Len(s) + 1)
<1> PICK n : n = Len(s)
  OBVIOUS
<1>1. n \in Nat /\ IsSeq(t) /\ Len(t) = n + 1 /\ t[n + 1] = f /\ \A i \in 1..n : t[i] = s[i]
  BY IsSeqLen DEF CsInv, Extended
<1>2. Agree(t, s, n)
  BY <1>1 DEF Agree
<1>3. \A i \in 1..(n + 1) : i \in 1..n \/ i = n + 1
  BY <1>1
<1>4. \A i \in 1..(n + 1) : FrameOK(t[i])
  BY <1>1, <1>3 DEF CsInv
<1>5. ASSUME NEW i \in 1..(n + 1), t[i].k \in {"enter", "handle"}
      PROVE  i # 1 /\ Ready(t[i - 1])
  <2>1. CASE i \in 1..n
    <3>1. i # 1 /\ Ready(s[i - 1])
      BY <1>1, <1>5, <2>1 DEF CsInv
    <3>2. i - 1 \in 1..n
      BY <1>1, <2>1, <3>1
    <3> QED
      BY <1>1, <3>1, <3>2
  <2>2. CASE i = n + 1
    <3>1. n > 0 /\ Ready(s[n])
      BY <1>1, <1>5, <2>2 DEF TopReady
    <3>2. i - 1 = n /\ n \in 1..n /\ i # 1
      BY <1>1, <2>2, <3>1
    <3> QED
      BY <1>1, <3>1, <3>2
  <2> QED
    BY <1>3, <2>1, <2>2
<1>6. Innermost(t, e, n)
  BY <1>1, <1>2, InnermostAgree DEF CsInv
<1>7. ASSUME NEW i \in 1..(n + 1), t[i].k = "interp", f.k # "interp" \/ f.ext = e
      PROVE  Innermost(t, t[i].ext, i - 1)
  <2>1. CASE i \in 1..n
    <3>1. Innermost(s, s[i].ext, i - 1) /\ t[i] = s[i] /\ i - 1 \in 0..n
      BY <1>1, <1>7, <2>1 DEF CsInv
    <3> QED
      BY <1>1, <1>2, <3>1, InnermostAgree
  <2>2. CASE i = n + 1
    <3>1. i - 1 = n /\ t[i].ext = e
      BY <1>1, <1>7, <2>2
    <3> QED
      BY <1>6, <3>1
  <2> QED
    BY <1>3, <2>1, <2>2
<1>8. f.k # "interp" => Innermost(t, e, n + 1)
  BY <1>1, <1>3, <1>6 DEF Innermost
<1>9. f.k = "interp" => Innermost(t, n + 1, n + 1)
  BY <1>1 DEF Innermost
<1>10. IsSeq(t) /\ Len(t) = n + 1
  BY <1>1
<1> QED
  BY <1>4, <1>5, <1>7, <1>8, <1>9, <1>10 DEF CsInv

-----------------------------------------------------------------------------
(***************************************************************************)
(* The inductive invariant.  While the interpreter raises or handles a     *)
(* signal, the activation on top is its own; while the program runs, the   *)
(* one at the bottom is the interprete of main; a signal is handled at     *)
(* once only while the activation on top blocks.                           *)
(***************************************************************************)
Busy == {"raise", "signal", "take", "reset"}
Over == {"stopped", "uncaught"}
TopIs(s, K) == Len(s) > 0 /\ s[Len(s)].k \in K

Good(s, e, m, a) ==
  /\ CsInv(s, e) /\ m \in {"run"} \cup Busy \cup Over
  /\ m \in Busy => TopIs(s, {"interp"})
  /\ m \notin Over => Len(s) > 0 /\ s[1].k = "interp"
  /\ a => TopReady(s)

MachineInv == DOMAIN x = Registers /\ Good(x.cs, x.ext, x.mode, sig.async)

(* A signal that was read is still pending, a pending signal is announced. *)
SignalInv ==
  /\ sig \in [async : BOOLEAN, pending : {0, 1}, todo : BOOLEAN, force : BOOLEAN, temp : {0, 1}]
  /\ count \in [arrived : Nat, ran : Nat, merged : Nat, lost : Nat]
  /\ sig.temp # 0 => sig.pending # 0
  /\ count.arrived = count.ran + count.merged + count.lost + Taken
  /\ sig.pending # 0 => sig.todo \/ x.mode \in {"take", "reset"}

ProgramInv == \E p \in Programs : prog = Loaded(p)

InterpInv == MachineInv /\ SignalInv /\ ProgramInv

LEMMA TopOf ==
  ASSUME NEW s, IsSeq(s), NEW k
  PROVE  s # <<>> /\ Last(s).k = k <=> TopIs(s, {k})
BY IsSeqLen DEF TopIs, Last

(* Only the mode changes. *)
LEMMA GoodMode ==
  ASSUME NEW s, NEW e, NEW m, NEW a, Good(s, e, m, a), TopIs(s, {"interp"}), m \notin Over,
         NEW n \in {"run"} \cup Busy
  PROVE  Good(s, e, n, a) /\ ~a
BY DEF Good, TopIs, TopReady, Ready, ReadyAt, Busy, Over

(* The interprete e gets an exception. *)
LEMMA GoodRaise ==
  ASSUME NEW s, NEW e, NEW m, NEW a, Good(s, e, m, a), m \notin Over, a = FALSE,
         NEW f, f = 0 \/ (f \in 1..Len(s) /\ s[f].k = "interp"),
         NEW t, NEW n,
         \/ f = 0 /\ t = <<>> /\ n = "uncaught"
         \/ f # 0 /\ t = SubSeq(s, 1, f) /\ n = "raise"
  PROVE  Good(t, f, n, a)
<1>1. IsSeq(s) /\ Len(s) \in Nat /\ Len(s) > 0 /\ s[1].k = "interp"
  BY IsSeqLen DEF Good, CsInv
<1>2. CASE f = 0
  <2>1. t = <<>> /\ n = "uncaught"
    BY <1>2
  <2>2. IsSeq(<<>>) /\ Len(<<>>) = 0
    BY DEF IsSeq
  <2>3. CsInv(t, f)
    BY <1>2, <2>1, <2>2 DEF CsInv, Innermost
  <2> QED
    BY <2>1, <2>3 DEF Good, Busy, Over
<1>3. CASE f # 0
  <2>1. f \in 1..Len(s) /\ s[f].k = "interp" /\ t = SubSeq(s, 1, f) /\ n = "raise"
    BY <1>3
  <2>2. Cut(t, s, f)
    BY <1>1, <2>1, SubSeqCut
  <2>3. Innermost(s, f, f)
    BY <1>1, <2>1 DEF Innermost
  <2>4. CsInv(t, f)
    BY <1>1, <2>1, <2>2, <2>3, CsCut DEF Good
  <2>5. Len(t) = f /\ t[f] = s[f] /\ t[1] = s[1] /\ f > 0
    BY <1>1, <2>1, <2>2 DEF Cut
  <2> QED
    BY <1>1, <2>1, <2>4, <2>5 DEF Good, TopIs, Busy, Over
<1> QED
  BY <1>2, <1>3

(* The activation on top, which is not of interprete, returns. *)
LEMMA GoodReturn ==
  ASSUME NEW s, NEW e, NEW a, Good(s, e, "run", a), ~TopIs(s, {"interp"}),
         NEW b, b \in BOOLEAN, b => TopIs(s, {"enter", "handle"})
  PROVE  Good(Front(s), e, "run", b)
<1>1. IsSeq(s) /\ Len(s) \in Nat /\ Len(s) > 0 /\ s[1].k = "interp" /\ s[Len(s)].k # "interp"
  BY IsSeqLen DEF Good, CsInv, TopIs, Over
<1> PICK t, n : t = Front(s) /\ n = Len(s) - 1
  OBVIOUS
<1>2. Cut(t, s, n) /\ n \in Nat \ {0} /\ n \in 0..Len(s) /\ Len(s) = n + 1
  BY <1>1, FrontCut
<1>3. Innermost(s, e, n)
  <2>1. Innermost(s, e, n + 1) /\ s[n + 1].k # "interp"
    BY <1>1, <1>2 DEF Good, CsInv
  <2>2. \A i \in 1..n : i \in 1..(n + 1)
    BY <1>2
  <2>3. CASE e = 0
    BY <2>1, <2>2, <2>3 DEF Innermost
  <2>4. CASE e # 0
    <3>1. e \in 1..(n + 1) /\ s[e].k = "interp" /\ \A i \in 1..(n + 1) : s[i].k = "interp" => i <= e
      BY <2>1, <2>4 DEF Innermost
    <3>2. e \in 1..n
      BY <1>2, <2>1, <3>1
    <3> QED
      BY <2>2, <3>1, <3>2 DEF Innermost
  <2> QED
    BY <2>3, <2>4
<1>4. CsInv(t, e)
  BY <1>2, <1>3, CsCut DEF Good
<1>5. Len(t) = n /\ 1 \in 1..n /\ n \in 1..n /\ t[1] = s[1] /\ t[n] = s[n]
  BY <1>2 DEF Cut
<1>6. b => Ready(s[n])
  <2> SUFFICES ASSUME b PROVE Ready(s[n])
    OBVIOUS
  <2>1. s[n + 1].k \in {"enter", "handle"} /\ n + 1 \in 1..Len(s) /\ n + 1 - 1 = n
    BY <1>2 DEF TopIs
  <2> QED
    BY <2>1 DEF Good, CsInv
<1> QED
  BY <1>1, <1>2, <1>4, <1>5, <1>6 DEF Good, TopReady, ReadyAt, Busy, Over

(* The interprete on top returns. *)
LEMMA GoodStop ==
  ASSUME NEW s, NEW e, NEW a, Good(s, e, "run", a), TopIs(s, {"interp"})
  PROVE  Good(Front(s), Last(s).ext, IF Len(s) = 1 THEN "stopped" ELSE "run", a)
<1>1. IsSeq(s) /\ Len(s) \in Nat /\ Len(s) > 0 /\ s[1].k = "interp" /\ s[Len(s)].k = "interp" /\ ~a
  BY IsSeqLen DEF Good, CsInv, TopIs, Over, TopReady, Ready, ReadyAt
<1> PICK t, n, f : t = Front(s) /\ n = Len(s) - 1 /\ f = Last(s).ext
  OBVIOUS
<1>2. Cut(t, s, n) /\ n \in Nat /\ n \in 0..Len(s) /\ Len(s) = n + 1
  BY <1>1, FrontCut
<1>3. Innermost(s, f, n)
  <2>1. Len(s) \in 1..Len(s) /\ f = s[Len(s)].ext
    BY <1>1 DEF Last
  <2> QED
    BY <1>1, <2>1 DEF Good, CsInv
<1>4. CsInv(t, f)
  BY <1>2, <1>3, CsCut DEF Good
<1>5. CASE n = 0
  BY <1>1, <1>2, <1>4, <1>5 DEF Good, Busy, Over
<1>6. CASE n # 0
  <2>1. Len(t) = n /\ 1 \in 1..n /\ t[1] = s[1] /\ Len(s) # 1
    BY <1>2, <1>6 DEF Cut
  <2> QED
    BY <1>1, <1>2, <1>4, <2>1 DEF Good, Busy, Over
<1> QED
  BY <1>5, <1>6

(* C code starts. *)
LEMMA GoodCall ==
  ASSUME NEW s, NEW e, NEW a, Good(s, e, "run", a), NEW f, FrameOK(f), f.k # "interp",
         f.k \in {"enter", "handle"} => TopReady(s)
  PROVE  Good(Append(s, f), e, "run", FALSE)
<1> PICK t, n : t = Append(s, f) /\ n = Len(s)
  OBVIOUS
<1>1. Extended(t, s, f) /\ n \in Nat /\ n > 0 /\ s[1].k = "interp"
  BY AppendExtends, IsSeqLen DEF Good, CsInv, Over
<1>2. CsInv(t, e)
  BY <1>1, CsExtend DEF Good
<1>3. Len(t) = n + 1 /\ t[n + 1] = f /\ t[1] = s[1]
  BY <1>1 DEF Extended
<1> QED
  BY <1>1, <1>2, <1>3 DEF Good, TopIs, Busy, Over

(* C code calls interprete. *)
LEMMA GoodInterp ==
  ASSUME NEW s, NEW e, NEW a, Good(s, e, "run", a), NEW f, FrameOK(f), f.k = "interp", f.ext = e
  PROVE  Good(Append(s, f), Len(s) + 1, "run", FALSE)
<1> PICK t, n : t = Append(s, f) /\ n = Len(s)
  OBVIOUS
<1>1. Extended(t, s, f) /\ n \in Nat /\ n > 0 /\ s[1].k = "interp"
  BY AppendExtends, IsSeqLen DEF Good, CsInv, Over
<1>2. CsInv(t, n + 1)
  BY <1>1, CsExtend DEF Good
<1>3. Len(t) = n + 1 /\ t[n + 1] = f /\ t[1] = s[1]
  BY <1>1 DEF Extended
<1> QED
  BY <1>1, <1>2, <1>3 DEF Good, TopIs, Busy, Over

(* s with another step of its last activation *)
AtStep(t, s) ==
  \E f : /\ FrameOK(f) /\ f.k = s[Len(s)].k /\ f.ext = s[Len(s)].ext
         /\ t = [s EXCEPT ![Len(s)] = f]

(* The activation on top goes on. *)
LEMMA GoodAt ==
  ASSUME NEW s, NEW e, NEW m, NEW a, Good(s, e, m, a), Len(s) > 0, NEW t, AtStep(t, s),
         NEW b, b => Ready(t[Len(s)])
  PROVE  Good(t, e, m, b) /\ Len(t) = Len(s) /\ \A K : TopIs(t, K) <=> TopIs(s, K)
<1> PICK f : /\ FrameOK(f) /\ f.k = s[Len(s)].k /\ f.ext = s[Len(s)].ext
             /\ t = [s EXCEPT ![Len(s)] = f]
  BY DEF AtStep
<1>1. IsSeq(s) /\ Len(s) \in Nat /\ Len(s) \in 1..Len(s)
  BY IsSeqLen DEF Good, CsInv
<1>2. Replaces(t, s, Len(s), f)
  BY <1>1, ExceptReplaces
<1>3. /\ IsSeq(t) /\ Len(t) = Len(s)
      /\ \A i \in 1..Len(s) : (i = Len(s) /\ t[i] = f) \/ t[i] = s[i]
  BY <1>2 DEF Replaces
<1>4. Agree(t, s, Len(s)) /\ \A i \in 1..Len(s) : FrameOK(t[i])
  BY <1>3 DEF Agree, Good, CsInv
<1>5. CsInv(t, e)
  <2>1. CsInv(s, e) /\ Innermost(s, e, Len(t)) /\ Len(t) \in 0..Len(s)
    BY <1>1, <1>3 DEF Good, CsInv
  <2> QED
    BY <1>3, <1>4, <2>1, CsAgree
<1>6. t[Len(s)].k = s[Len(s)].k /\ t[1].k = s[1].k
  BY <1>1, <1>4 DEF Agree
<1>7. \A K : TopIs(t, K) <=> TopIs(s, K)
  BY <1>3, <1>6 DEF TopIs
<1> QED
  BY <1>3, <1>5, <1>6, <1>7 DEF Good, TopReady

-----------------------------------------------------------------------------
(***************************************************************************)
(* What the operations do to the C stack, external_raise and the mode.     *)
(***************************************************************************)
Is3(z, s, e, m) == DOMAIN z = Registers /\ z.cs = s /\ z.ext = e /\ z.mode = m
RaisedIn(z, s, e) ==
  \/ e = 0 /\ Is3(z, <<>>, 0, "uncaught")
  \/ e # 0 /\ Is3(z, SubSeq(s, 1, e), e, "raise")

LEMMA AlikeIs ==
  ASSUME NEW y, NEW z, Alike(y, z), NEW s, NEW e, NEW m, Is3(y, s, e, m)
  PROVE  Is3(z, s, e, m)
BY DEF Alike, Is3

LEMMA MlraiseIs ==
  ASSUME NEW y, NEW v, NEW s, NEW e, NEW m, Is3(y, s, e, m)
  PROVE  RaisedIn(mlraise(y, v), s, e)
<1>1. CASE e = 0
  BY <1>1 DEF mlraise, Is3, RaisedIn, Registers
<1>2. CASE e # 0
  <2> PICK r, d : r = SubSeq(y.roots, 1, y.cs[y.ext].roots) /\ d = y.cs[y.ext].depth
    OBVIOUS
  <2>1. mlraise(y, v) = Raising([y EXCEPT !.cs = SubSeq(s, 1, e), !.roots = r, !.depth = d], v)
    BY <1>2 DEF mlraise, Is3
  <2> PICK z : z = [y EXCEPT !.cs = SubSeq(s, 1, e), !.roots = r, !.depth = d]
    OBVIOUS
  <2>2. Is3(z, SubSeq(s, 1, e), e, m)
    BY DEF Is3, Registers
  <2>3. Is3(Raising(z, v), SubSeq(s, 1, e), e, "raise")
    BY <2>2 DEF Is3, Registers, Raising
  <2> QED
    BY <1>2, <2>1, <2>3 DEF RaisedIn
<1> QED
  BY <1>1, <1>2

LEMMA ConstantIs ==
  ASSUME NEW y, NEW exn, NEW s, NEW e, NEW m, Is3(y, s, e, m)
  PROVE  RaisedIn(raise_constant(y, exn), s, e)
BY NewBlockAlike, AlikeIs, MlraiseIs DEF raise_constant

LEMMA CheckIs ==
  ASSUME NEW y, NEW s, NEW e, NEW m, Is3(y, s, e, m)
  PROVE  /\ Is3(CheckSignals(y), s, e, m) \/ Is3(CheckSignals(y), s, e, "signal")
         /\ \/ Is3(check_stacks(y), s, e, m) \/ Is3(check_stacks(y), s, e, "signal")
            \/ RaisedIn(check_stacks(y), s, e)
<1>1. ASSUME NEW z, Is3(z, s, e, m)
      PROVE  Is3(CheckSignals(z), s, e, m) \/ Is3(CheckSignals(z), s, e, "signal")
  BY <1>1 DEF CheckSignals, Is3, Registers
<1>2. Is3(realloc_stack(y), s, e, m)
  BY ReallocAlike, AlikeIs
<1> QED
  BY <1>1, <1>2, ConstantIs DEF check_stacks

(* The activation that interprete makes. *)
NewInterp(f, e) == FrameOK(f) /\ f.k = "interp" /\ f.ext = e

LEMMA InterpreteIs ==
  ASSUME NEW y, NEW pc, NEW s, NEW e, NEW m, Is3(y, s, e, m)
  PROVE  \E f : NewInterp(f, e) /\ Is3(interprete(y, pc), Append(s, f), Len(s) + 1, "run")
<1> PICK f : f = [k |-> "interp", at |-> 0, offset |-> y.high - y.sp, ext |-> y.ext,
                  roots |-> Len(y.roots), depth |-> y.depth, args |-> <<>>, pc |-> 0, extra |-> 0, pop |-> 0]
  OBVIOUS
<1>1. NewInterp(f, e)
  BY DEF NewInterp, FrameOK, FrameFields, Kinds, Is3
<1>2. Is3(interprete(y, pc), Append(s, f), Len(s) + 1, "run")
  BY DEF interprete, Is3, Registers
<1> QED
  BY <1>1, <1>2

LEMMA CallbackIs ==
  ASSUME NEW y, NEW closure, NEW args, NEW s, NEW e, NEW m, Is3(y, s, e, m)
  PROVE  \E f : NewInterp(f, e) /\ Is3(callback(y, closure, args), Append(s, f), Len(s) + 1, "run")
<1> PICK z : z = [Push(y, args \o <<closure>>) EXCEPT !.depth = @ + 1]
  OBVIOUS
<1>1. Is3(Push(y, args \o <<closure>>), s, e, m)
  BY PushAlike, AlikeIs
<1>2. Is3(z, s, e, m)
  BY <1>1 DEF Is3, Registers
<1> QED
  BY <1>2, InterpreteIs DEF callback

LEMMA CFrameOK ==
  ASSUME NEW k \in Kinds, NEW args
  PROVE  FrameOK(CFrame(k, args)) /\ CFrame(k, args).k = k
BY DEF FrameOK, CFrame, FrameFields

SteppedTo(z, at, s, e, m) ==
  \E t : AtStep(t, s) /\ Is3(z, t, e, m) /\ t[Len(s)].k = s[Len(s)].k /\ t[Len(s)].at = at

LEMMA AtIs ==
  ASSUME NEW y, NEW at, NEW s, NEW e, NEW m, Is3(y, s, e, m), IsSeq(s), Len(s) > 0, FrameOK(s[Len(s)])
  PROVE  SteppedTo(At(y, at), at, s, e, m)
<1> PICK f : f = [s[Len(s)] EXCEPT !.at = at]
  OBVIOUS
<1>1. FrameOK(f) /\ f.k = s[Len(s)].k /\ f.ext = s[Len(s)].ext /\ f.at = at
  BY DEF FrameOK, FrameFields
<1> PICK t : t = [s EXCEPT ![Len(s)] = f]
  OBVIOUS
<1>4. t[Len(s)] = f
  <2>1. Len(s) \in 1..Len(s)
    BY IsSeqLen
  <2> QED
    BY <2>1, ExceptReplaces DEF Replaces
<1>2. At(y, at) = [y EXCEPT !.cs = t]
  BY DEF At, Is3, Registers
<1>3. Is3(At(y, at), t, e, m)
  BY <1>2 DEF Is3, Registers
<1>5. AtStep(t, s) /\ t[Len(s)].k = s[Len(s)].k /\ t[Len(s)].at = at
  BY <1>1, <1>4 DEF AtStep
<1> QED
  BY <1>3, <1>5 DEF SteppedTo

LEMMA ReturnIs ==
  ASSUME NEW y, NEW v, NEW s, NEW e, NEW m, Is3(y, s, e, m)
  PROVE  Is3(CReturn(y, v), Front(s), e, m)
<1> PICK n : n = 1 + Last(Front(y.cs)).pop
  OBVIOUS
<1>1. Is3(Pop(y, n), s, e, m)
  BY PopAlike, AlikeIs
<1> QED
  BY <1>1 DEF CReturn, Is3, Registers

-----------------------------------------------------------------------------
(***************************************************************************)
(* The instructions.                                                       *)
(***************************************************************************)
LEMMA FetchedIs ==
  ASSUME NEW s, NEW e, NEW m, Is3(x, s, e, m)
  PROVE  Is3(Fetched, s, e, m)
<1> PICK y : y = [x EXCEPT !.pc = @ + 1]
  OBVIOUS
<1>1. Is3(y, s, e, m)
  BY DEF Is3, Registers
<1>2. Is3(Push(y, <<x.accu>>), s, e, m)
  BY <1>1, PushAlike, AlikeIs
<1> QED
  BY <1>1, <1>2 DEF Fetched

LEMMA BasicIs ==
  ASSUME NEW s, NEW e, NEW m, Is3(x, s, e, m), Basic
  PROVE  Is3(x', s, e, m)
<1>1. Is3(Fetched, s, e, m)
  BY FetchedIs
<1> PICK y : y = Fetched
  OBVIOUS
<1>2. I.op \in {"ACC", "PUSH", "POP", "ASSIGN", "ENVACC", "CONSTINT", "ATOM"}
  BY DEF Basic, Is
<1>3. CASE I.op = "ACC"
  BY <1>1, <1>3, AccAlike, AlikeIs DEF Basic, Step, Now
<1>4. CASE I.op = "PUSH"
  BY <1>1, <1>4, PushAlike, AlikeIs DEF Basic, Step, Now
<1>5. CASE I.op = "POP"
  BY <1>1, <1>5, PopAlike, AlikeIs DEF Basic, Step, Now
<1>6. CASE I.op = "ASSIGN"
  <2>1. x' = [Fetched EXCEPT !.mem[x.sp + I.n] = x.accu, !.accu = Unit]
    BY <1>6 DEF Basic, Step, Now
  <2> QED
    BY <1>1, <2>1 DEF Is3, Registers
<1>7. CASE I.op = "ENVACC"
  BY <1>1, <1>7, AccAlike, AlikeIs DEF Basic, Step, Now
<1>8. CASE I.op = "CONSTINT"
  BY <1>1, <1>8, AccAlike, AlikeIs DEF Basic, Step, Now
<1>9. CASE I.op = "ATOM"
  <2>1. Is3(NewBlock(Fetched, I.n, <<>>), s, e, m)
    BY <1>1, NewBlockAlike, AlikeIs
  <2>2. x' = Acc(NewBlock(Fetched, I.n, <<>>), Ptr(x.base + Len(x.heap) + 1))
    BY <1>9 DEF Basic, Step, Now
  <2> QED
    BY <2>1, <2>2, AccAlike, AlikeIs
<1> QED
  BY <1>2, <1>3, <1>4, <1>5, <1>6, <1>7, <1>8, <1>9

LEMMA RetaddrIs ==
  ASSUME NEW s, NEW e, NEW m, Is3(x, s, e, m), PUSH_RETADDR
  PROVE  Is3(x', s, e, m)
BY FetchedIs, PushAlike, AlikeIs DEF PUSH_RETADDR, Step, Now

(* what an application may do besides *)
CheckedIn(z, s, e, m) == Is3(z, s, e, m) \/ Is3(z, s, e, "signal") \/ RaisedIn(z, s, e)

LEMMA ApplyIs ==
  ASSUME NEW s, NEW e, NEW m, Is3(x, s, e, m), APPLY \/ APPLYK \/ APPTERM
  PROVE  CheckedIn(x', s, e, m)
<1>1. ASSUME NEW y, Is3(y, s, e, m), NEW c, NEW n
      PROVE  CheckedIn(check_stacks(Enter(y, c, n)), s, e, m)
  BY <1>1, EnterAlike, AlikeIs, CheckIs DEF CheckedIn
<1>2. ASSUME NEW n, NEW ws PROVE Is3(Push(Pop(x, n), ws), s, e, m)
  BY PushAlike, PopAlike, AlikeIs
<1>3. CASE APPLY
  BY <1>1, <1>3 DEF APPLY, Step, Now
<1>4. CASE APPLYK
  <2>1. Is3(Push(Pop(x, I.n), Words(x, I.n) \o ReturnFrame(x, x.pc + 1)), s, e, m)
    BY <1>2
  <2> QED
    BY <1>1, <1>4, <2>1 DEF APPLYK, Step, Now
<1>5. CASE APPTERM
  <2>1. Is3(Push(Pop(x, I.m), Words(x, I.n)), s, e, m)
    BY <1>2
  <2> QED
    BY <1>1, <1>5, <2>1 DEF APPTERM, Step, Now
<1> QED
  BY <1>3, <1>4, <1>5

LEMMA ReturnsIs ==
  ASSUME NEW s, NEW e, NEW m, Is3(x, s, e, m), RETURN \/ RESTART
  PROVE  Is3(x', s, e, m)
<1>1. CASE RETURN
  <2>1. Is3(Pop(x, I.n), s, e, m)
    BY PopAlike, AlikeIs
  <2>2. /\ Is3(Enter(Pop(x, I.n), x.accu, x.extra - 1), s, e, m)
        /\ Is3(Leave(Pop(x, I.n)), s, e, m)
    BY <2>1, EnterAlike, LeaveAlike, AlikeIs
  <2> QED
    BY <1>1, <2>2 DEF RETURN, Step, Now
<1>2. CASE RESTART
  <2> PICK old : old = Block(x, x.env).f
    OBVIOUS
  <2> PICK y : y = Push(Fetched, SubSeq(old, 3, Len(old)))
    OBVIOUS
  <2>1. Is3(y, s, e, m)
    BY FetchedIs, PushAlike, AlikeIs
  <2>2. x' = [y EXCEPT !.env = Field(x, x.env, 1), !.extra = @ + Len(old) - 2]
    BY <1>2 DEF RESTART, Step, Now
  <2> QED
    BY <2>1, <2>2 DEF Is3, Registers
<1> QED
  BY <1>1, <1>2

(* The instructions that allocate. *)
LEMMA AllocIs ==
  ASSUME NEW s, NEW e, NEW m, Is3(x, s, e, m), GRAB \/ CLOSURE \/ MAKEBLOCK \/ DUMMY
  PROVE  Is3(x', s, e, m)
<1>1. Is3(Fetched, s, e, m)
  BY FetchedIs
<1>2. ASSUME NEW y, Is3(y, s, e, m), NEW t, NEW fs, NEW n
      PROVE  /\ Is3(WithNew(y, t, fs), s, e, m)
             /\ Is3(Pop(WithNew(y, t, fs), n), s, e, m)
             /\ Is3(Leave(Pop(WithNew(y, t, fs), n)), s, e, m)
  BY <1>2, NewBlockAlike, PopAlike, LeaveAlike, AlikeIs
<1>3. ASSUME NEW y, Is3(y, s, e, m), NEW g PROVE Is3(AfterGc(y, g), s, e, m)
  BY <1>3, CollectedAlike, AlikeIs
<1>4. CASE GRAB
  <2>1. CASE x.extra >= I.n /\ Step([Fetched EXCEPT !.extra = @ - I.n])
    <3>1. x' = [Fetched EXCEPT !.extra = @ - I.n]
      BY <2>1 DEF Step, Now
    <3> QED
      BY <1>1, <3>1 DEF Is3, Registers
  <2>2. CASE \E g \in Gcs : \E z \in {AfterGc(Fetched, g)} :
               Now(Leave(Pop(WithNew(z, Closure_tag, <<Pc(x.pc - 1), z.env>> \o Words(z, z.extra + 1)), z.extra + 1)))
    <3>2. PICK g \in Gcs : \E z \in {AfterGc(Fetched, g)} :
            \E fs : x' = Leave(Pop(WithNew(z, Closure_tag, fs), z.extra + 1))
      BY <2>2 DEF Now
    <3>3. PICK z \in {AfterGc(Fetched, g)} : \E fs : x' = Leave(Pop(WithNew(z, Closure_tag, fs), z.extra + 1))
      BY <3>2
    <3>1. Is3(z, s, e, m)
      BY <1>1, <1>3
    <3> QED
      BY <1>2, <3>1, <3>3
  <2> QED
    BY <1>4, <2>1, <2>2 DEF GRAB
<1>5. CASE CLOSURE
  <2> PICK y : y = IF I.n > 0 THEN Push(Fetched, <<x.accu>>) ELSE Fetched
    OBVIOUS
  <2>1. Is3(y, s, e, m)
    BY <1>1, PushAlike, AlikeIs
  <2>2. PICK g \in Gcs : \E z \in {AfterGc(y, g)} : \E fs : x' = Pop(WithNew(z, Closure_tag, fs), I.n)
    BY <1>5 DEF CLOSURE, Now
  <2>3. PICK z \in {AfterGc(y, g)} : \E fs : x' = Pop(WithNew(z, Closure_tag, fs), I.n)
    BY <2>2
  <2>4. Is3(z, s, e, m)
    BY <1>3, <2>1
  <2> QED
    BY <1>2, <2>3, <2>4
<1>6. CASE MAKEBLOCK
  <2>1. PICK g \in Gcs : \E z \in {AfterGc(Fetched, g)} : \E fs : x' = Pop(WithNew(z, I.m, fs), I.n - 1)
    BY <1>6 DEF MAKEBLOCK, Now
  <2>2. PICK z \in {AfterGc(Fetched, g)} : \E fs : x' = Pop(WithNew(z, I.m, fs), I.n - 1)
    BY <2>1
  <2>3. Is3(z, s, e, m)
    BY <1>1, <1>3
  <2> QED
    BY <1>2, <2>2, <2>3
<1>7. CASE DUMMY
  <2>1. PICK g \in Gcs : \E z \in {AfterGc(Fetched, g)} : x' = WithNew(z, 0, [i \in 1..I.n |-> Num(0)])
    BY <1>7 DEF DUMMY, Alloc, Now
  <2>2. PICK z \in {AfterGc(Fetched, g)} : x' = WithNew(z, 0, [i \in 1..I.n |-> Num(0)])
    BY <2>1
  <2>3. Is3(z, s, e, m)
    BY <1>1, <1>3
  <2> QED
    BY <1>2, <2>2, <2>3
<1> QED
  BY <1>4, <1>5, <1>6, <1>7

LEMMA GlobalsIs ==
  ASSUME NEW s, NEW e, NEW m, Is3(x, s, e, m), Globals \/ Branch
  PROVE  Is3(x', s, e, m)
<1>1. Is3(Fetched, s, e, m)
  BY FetchedIs
<1>2. CASE Globals
  <2>1. I.op \in {"GETGLOBAL", "SETGLOBAL", "GETGLOBALFIELD"}
    BY <1>2 DEF Globals, Is
  <2>2. CASE I.op = "SETGLOBAL"
    <3>1. x' = [Fetched EXCEPT !.global[I.n] = x.accu, !.accu = Unit]
      BY <1>2, <2>2 DEF Globals, Step, Now
    <3> QED
      BY <1>1, <3>1 DEF Is3, Registers
  <2>3. CASE I.op # "SETGLOBAL"
    <3>1. \E v : x' = Acc(Fetched, v)
      <4>1. CASE I.op = "GETGLOBAL"
        BY <1>2, <4>1 DEF Globals, Step, Now
      <4>2. CASE I.op = "GETGLOBALFIELD"
        BY <1>2, <4>2 DEF Globals, Step, Now
      <4> QED
        BY <2>1, <2>3, <4>1, <4>2
    <3> QED
      BY <1>1, <3>1, AccAlike, AlikeIs
  <2> QED
    BY <2>2, <2>3
<1>3. CASE Branch
  BY <1>3, AccAlike, AlikeIs DEF Branch, Step, Now
<1> QED
  BY <1>2, <1>3

LEMMA FieldsIs ==
  ASSUME NEW s, NEW e, NEW m, Is3(x, s, e, m), Fields
  PROVE  Is3(x', s, e, m)
<1>1. Is3(Fetched, s, e, m)
  BY FetchedIs
<1>2. ASSUME NEW n PROVE Is3(Pop(Fetched, n), s, e, m)
  BY <1>1, PopAlike, AlikeIs
<1>3. ASSUME NEW y, Is3(y, s, e, m), NEW v, NEW i, NEW w
      PROVE  Is3(SetField(y, v, i, w), s, e, m)
  BY <1>3, SetFieldAlike, AlikeIs
<1>4. ASSUME NEW y, Is3(y, s, e, m), NEW v PROVE Is3(Acc(y, v), s, e, m)
  BY <1>4, AccAlike, AlikeIs
<1>5. I.op \in {"GETFIELD", "SETFIELD", "UPDATE", "VECTLENGTH", "GETVECTITEM", "SETVECTITEM", "OFFSETREF"}
  BY DEF Fields, Is
<1>6. CASE I.op = "GETFIELD"
  BY <1>1, <1>4, <1>6 DEF Fields, Step, Now
<1>7. CASE I.op = "SETFIELD"
  <2>1. x' = Acc(SetField(Pop(Fetched, 1), x.accu, I.n, Word(x, 0)), Unit)
    BY <1>7 DEF Fields, Step, Now
  <2> QED
    BY <1>2, <1>3, <1>4, <2>1
<1>8. CASE I.op = "UPDATE"
  <2> PICK y : y = Pop(Fetched, 1)
    OBVIOUS
  <2> PICK z : z = [y EXCEPT !.heap[x.accu.n - x.base] = Block(x, Word(x, 0))]
    OBVIOUS
  <2>1. x' = Acc(z, Unit)
    BY <1>8 DEF Fields, Step, Now
  <2>2. Is3(y, s, e, m)
    BY <1>2
  <2>3. Is3(z, s, e, m)
    BY <2>2 DEF Is3, Registers
  <2> QED
    BY <1>4, <2>1, <2>3
<1>9. CASE I.op = "VECTLENGTH"
  BY <1>1, <1>4, <1>9 DEF Fields, Step, Now
<1>10. CASE I.op = "GETVECTITEM"
  BY <1>2, <1>4, <1>10 DEF Fields, Step, Now
<1>11. CASE I.op = "SETVECTITEM"
  <2>1. x' = Acc(SetField(Pop(Fetched, 2), x.accu, Word(x, 0).n, Word(x, 1)), Unit)
    BY <1>11 DEF Fields, Step, Now
  <2> QED
    BY <1>2, <1>3, <1>4, <2>1
<1>12. CASE I.op = "OFFSETREF"
  <2>1. \E w : x' = Acc(SetField(Fetched, x.accu, 0, w), Unit)
    BY <1>12 DEF Fields, Step, Now
  <2> QED
    BY <1>1, <1>3, <1>4, <2>1
<1> QED
  BY <1>5, <1>6, <1>7, <1>8, <1>9, <1>10, <1>11, <1>12

LEMMA ArithmeticIs ==
  ASSUME NEW s, NEW e, NEW m, Is3(x, s, e, m), Arithmetic
  PROVE  Is3(x', s, e, m) \/ RaisedIn(x', s, e)
<1>1. Is3(Fetched, s, e, m)
  BY FetchedIs
<1>2. Is3(Pop(Fetched, 1), s, e, m)
  BY <1>1, PopAlike, AlikeIs
<1>3. ASSUME NEW y, Is3(y, s, e, m), NEW v PROVE Is3(Acc(y, v), s, e, m)
  BY <1>3, AccAlike, AlikeIs
<1>4. RaisedIn(raise_constant(Push(Pop(Fetched, 1), <<x.env>>), ZERO_DIVIDE_EXN), s, e)
  BY <1>2, PushAlike, AlikeIs, ConstantIs
<1>5. \/ \E v : x' = Acc(Fetched, v) \/ x' = Acc(Pop(Fetched, 1), v)
      \/ x' = raise_constant(Push(Pop(Fetched, 1), <<x.env>>), ZERO_DIVIDE_EXN)
  BY DEF Arithmetic, Step, Now
<1> QED
  BY <1>1, <1>2, <1>3, <1>4, <1>5

LEMMA TrapsIs ==
  ASSUME NEW s, NEW e, NEW m, Is3(x, s, e, m), PUSHTRAP \/ POPTRAP
  PROVE  Is3(x', s, e, m)
<1>1. Is3(Fetched, s, e, m)
  BY FetchedIs
<1>2. CASE PUSHTRAP
  <2> PICK y : y = Push(Fetched, <<Pc(I.n), Adr(x.trapsp), x.env, Num(x.extra)>>)
    OBVIOUS
  <2>1. Is3(y, s, e, m)
    BY <1>1, PushAlike, AlikeIs
  <2>2. x' = [y EXCEPT !.trapsp = y.sp]
    BY <1>2 DEF PUSHTRAP, Step, Now
  <2> QED
    BY <2>1, <2>2 DEF Is3, Registers
<1>3. CASE POPTRAP
  <2> PICK y : y = Pop(Fetched, 4)
    OBVIOUS
  <2>1. Is3(y, s, e, m)
    BY <1>1, PopAlike, AlikeIs
  <2>2. x' = [y EXCEPT !.trapsp = Word(x, 1).n]
    BY <1>3 DEF POPTRAP, Step, Now
  <2> QED
    BY <2>1, <2>2 DEF Is3, Registers
<1> QED
  BY <1>2, <1>3

(* The exception of an instruction, of a primitive that is not blocking or *)
(* of raise_exception.                                                     *)
LEMMA RaisedGood ==
  ASSUME NEW s, NEW e, NEW m, Good(s, e, m, FALSE), m \notin Over, NEW f,
         f = 0 \/ (f \in 1..Len(s) /\ s[f].k = "interp"), NEW z, RaisedIn(z, s, f)
  PROVE  DOMAIN z = Registers /\ Good(z.cs, z.ext, z.mode, FALSE)
<1>1. CASE f = 0
  BY <1>1, GoodRaise DEF RaisedIn, Is3
<1>2. CASE f # 0
  BY <1>2, GoodRaise DEF RaisedIn, Is3
<1> QED
  BY <1>1, <1>2

(* external_raise is 0 or an activation of interprete. *)
LEMMA ExtOf ==
  ASSUME NEW s, NEW e, NEW m, NEW a, Good(s, e, m, a)
  PROVE  e = 0 \/ (e \in 1..Len(s) /\ s[e].k = "interp")
BY DEF Good, CsInv, Innermost

(* An instruction starts in an interprete that runs. *)
LEMMA RunningIs ==
  ASSUME MachineInv, Running
  PROVE  /\ Is3(x, x.cs, x.ext, "run") /\ TopIs(x.cs, {"interp"}) /\ IsSeq(x.cs)
         /\ Good(x.cs, x.ext, "run", sig.async) /\ ~sig.async
<1>1. IsSeq(x.cs) /\ x.mode = "run" /\ x.cs # <<>> /\ Last(x.cs).k = "interp"
  BY DEF MachineInv, Good, CsInv, Running, Interp
<1>2. TopIs(x.cs, {"interp"})
  BY <1>1, TopOf
<1>3. Good(x.cs, x.ext, "run", sig.async)
  BY <1>1 DEF MachineInv
<1>4. ~sig.async
  BY <1>2, <1>3 DEF Good, TopIs, TopReady, Ready, ReadyAt
<1> QED
  BY <1>1, <1>2, <1>3, <1>4 DEF Is3, MachineInv

LEMMA TopFrame ==
  ASSUME NEW s, NEW e, NEW m, NEW a, Good(s, e, m, a), NEW K, TopIs(s, K)
  PROVE  FrameOK(s[Len(s)]) /\ Len(s) \in 1..Len(s) /\ Len(s) > 0 /\ DOMAIN s = 1..Len(s) /\ IsSeq(s)
<1>1. IsSeq(s) /\ Len(s) > 0
  BY DEF Good, CsInv, TopIs
<1>2. Len(s) \in 1..Len(s) /\ DOMAIN s = 1..Len(s)
  BY <1>1, IsSeqLen
<1> QED
  BY <1>1, <1>2 DEF Good, CsInv

LEMMA InstructionGood ==
  ASSUME InterpInv, Instruction
  PROVE  MachineInv' /\ UNCHANGED <<prog, sig, count>>
<1>1. Running /\ UNCHANGED <<prog, sig, count>>
  BY DEF Instruction, Basic, PUSH_RETADDR, APPLY, APPLYK, APPTERM, RETURN, RESTART, GRAB, CLOSURE,
         Globals, MAKEBLOCK, DUMMY, Fields, Branch, Arithmetic, PUSHTRAP, POPTRAP, RAISE,
         CHECK_SIGNALS, STOP, C_CALL, Is, Step, Now, Alloc
<1> PICK s, e : s = x.cs /\ e = x.ext
  OBVIOUS
<1>2. /\ Is3(x, s, e, "run") /\ TopIs(s, {"interp"}) /\ Good(s, e, "run", FALSE) /\ sig.async = FALSE
      /\ IsSeq(s) /\ sig' = sig /\ "run" \notin Over
  BY <1>1, RunningIs DEF InterpInv, SignalInv, Over
<1>3. ASSUME NEW n \in {"run"} \cup Busy, Is3(x', s, e, n) PROVE MachineInv'
  <2>1. Good(s, e, n, FALSE)
    BY <1>2, GoodMode
  <2> QED
    BY <1>2, <1>3, <2>1 DEF MachineInv, Is3
<1>4. ASSUME RaisedIn(x', s, e) PROVE MachineInv'
  <2>1. DOMAIN x' = Registers /\ Good(x'.cs, x'.ext, x'.mode, FALSE)
    BY <1>2, <1>4, ExtOf, RaisedGood
  <2> QED
    BY <1>2, <2>1 DEF MachineInv
<1>5. "run" \in {"run"} \cup Busy /\ "signal" \in {"run"} \cup Busy /\ "raise" \in {"run"} \cup Busy
  BY DEF Busy
<1>6. CASE \/ Basic \/ PUSH_RETADDR \/ RETURN \/ RESTART \/ GRAB \/ CLOSURE \/ Globals \/ MAKEBLOCK
           \/ DUMMY \/ Fields \/ Branch \/ PUSHTRAP \/ POPTRAP
  <2>1. Is3(x', s, e, "run")
    BY <1>2, <1>6, BasicIs, RetaddrIs, ReturnsIs, AllocIs, GlobalsIs, FieldsIs, TrapsIs
  <2> QED
    BY <1>1, <1>3, <1>5, <2>1
<1>7. CASE APPLY \/ APPLYK \/ APPTERM
  <2>1. CheckedIn(x', s, e, "run")
    BY <1>2, <1>7, ApplyIs
  <2> QED
    BY <1>1, <1>3, <1>4, <1>5, <2>1 DEF CheckedIn
<1>8. CASE Arithmetic
  <2>1. Is3(x', s, e, "run") \/ RaisedIn(x', s, e)
    BY <1>2, <1>8, ArithmeticIs
  <2> QED
    BY <1>1, <1>3, <1>4, <1>5, <2>1
<1>9. CASE RAISE
  <2>1. x' = Raising(x, x.accu)
    BY <1>9 DEF RAISE, Step, Now
  <2>2. Is3(x', s, e, "raise")
    BY <1>2, <2>1 DEF Raising, Is3, Registers
  <2> QED
    BY <1>1, <1>3, <1>5, <2>2
<1>10. CASE CHECK_SIGNALS
  <2>1. x' = CheckSignals(Fetched)
    BY <1>10 DEF CHECK_SIGNALS, Step, Now
  <2>2. Is3(x', s, e, "run") \/ Is3(x', s, e, "signal")
    BY <1>2, <2>1, FetchedIs, CheckIs
  <2> QED
    BY <1>1, <1>3, <1>5, <2>2
<1>11. CASE STOP
  <2>1. x' = [x EXCEPT !.ext = Last(s).ext, !.cs = Front(s), !.mode = IF Len(s) = 1 THEN "stopped" ELSE "run"]
    BY <1>11 DEF STOP, Step, Now
  <2>2. Is3(x', Front(s), Last(s).ext, IF Len(s) = 1 THEN "stopped" ELSE "run")
    BY <1>2, <2>1 DEF Is3, Registers
  <2>3. Good(Front(s), Last(s).ext, IF Len(s) = 1 THEN "stopped" ELSE "run", FALSE)
    BY <1>2, GoodStop
  <2> QED
    BY <1>1, <1>2, <2>2, <2>3 DEF MachineInv, Is3
<1>12. CASE C_CALL
  <2> PICK y : y = Push(IF I.op = "C_CALLN" THEN Push(x, <<x.accu>>) ELSE x, <<x.env>>)
    OBVIOUS
  <2> PICK n, args : /\ n = IF I.op = "C_CALLN" THEN I.n ELSE I.n - 1
                     /\ args = <<x.accu>> \o Words(x, I.n - 1)
    OBVIOUS
  <2>f. PICK f : f = [s[Len(s)] EXCEPT !.pc = x.pc + 1, !.extra = x.extra, !.pop = n]
    OBVIOUS
  <2>t. PICK t : t = [s EXCEPT ![Len(s)] = f]
    OBVIOUS
  <2>1. Is3(y, s, e, "run")
    BY <1>2, PushAlike, AlikeIs
  <2>2. FrameOK(s[Len(s)]) /\ Len(s) \in 1..Len(s) /\ Len(s) > 0 /\ DOMAIN s = 1..Len(s)
    BY <1>2, TopFrame
  <2>3. FrameOK(f) /\ f.k = s[Len(s)].k /\ f.ext = s[Len(s)].ext
    BY <2>2, <2>f DEF FrameOK, FrameFields
  <2>4. Good(t, e, "run", FALSE)
    <3>1. AtStep(t, s)
      BY <2>3, <2>t DEF AtStep
    <3> QED
      BY <1>2, <2>2, <3>1, GoodAt
  <2>5. I.m \in Primitives
    <3>1. PICK p \in Programs : prog = Loaded(p)
      BY DEF InterpInv, ProgramInv
    <3>2. I.op \in {"C_CALL", "C_CALLN"} /\ x.pc \in DOMAIN Loaded(p).code /\ I = Loaded(p).code[x.pc]
      BY <1>12, <3>1 DEF C_CALL, Is, Running, I, Code
    <3> QED
      BY <3>2, PrimitivesAssumption
  <2>6. FrameOK(CFrame(I.m, args)) /\ CFrame(I.m, args).k = I.m /\ I.m \notin {"interp", "enter", "handle"}
    BY <2>5, CFrameOK DEF Kinds, Primitives
  <2>7. Good(Append(t, CFrame(I.m, args)), e, "run", FALSE)
    BY <2>4, <2>6, GoodCall
  <2>8. x' = [y EXCEPT !.cs = Append([@ EXCEPT ![Len(@)].pc = x.pc + 1, ![Len(@)].extra = x.extra,
                                               ![Len(@)].pop = n], CFrame(I.m, args))]
    BY <1>12 DEF C_CALL, Step, Now
  <2>9. [s EXCEPT ![Len(s)].pc = x.pc + 1, ![Len(s)].extra = x.extra, ![Len(s)].pop = n] = t
    BY <2>2, <2>f, <2>t
  <2>10. Is3(x', Append(t, CFrame(I.m, args)), e, "run")
    BY <2>1, <2>8, <2>9 DEF Is3, Registers
  <2> QED
    BY <1>1, <1>2, <2>7, <2>10 DEF MachineInv, Is3
<1> QED
  BY <1>1, <1>6, <1>7, <1>8, <1>9, <1>10, <1>11, <1>12 DEF Instruction

-----------------------------------------------------------------------------
(***************************************************************************)
(* The C code around the interpreter.                                      *)
(***************************************************************************)
LEMMA InCIs ==
  ASSUME MachineInv, NEW k, NEW at, InC(k, at)
  PROVE  /\ Is3(x, x.cs, x.ext, "run") /\ TopIs(x.cs, {k}) /\ x.cs[Len(x.cs)].at = at
         /\ x.cs[Len(x.cs)].k = k /\ Good(x.cs, x.ext, "run", sig.async) /\ IsSeq(x.cs)
         /\ FrameOK(x.cs[Len(x.cs)]) /\ Len(x.cs) > 0
<1>1. IsSeq(x.cs) /\ x.mode = "run" /\ x.cs # <<>> /\ Last(x.cs).k = k /\ Last(x.cs).at = at
  BY DEF MachineInv, Good, CsInv, InC
<1>2. TopIs(x.cs, {k})
  BY <1>1, IsSeqLen DEF TopIs, Last
<1>3. Good(x.cs, x.ext, "run", sig.async)
  BY <1>1 DEF MachineInv
<1>4. FrameOK(x.cs[Len(x.cs)])
  BY <1>2, <1>3, TopFrame
<1> QED
  BY <1>1, <1>2, <1>3, <1>4 DEF Is3, MachineInv, TopIs, Last

(* Only code that is ready for a signal runs with async_signal_mode set. *)
LEMMA NotAsync ==
  ASSUME NEW s, NEW e, NEW m, NEW a, Good(s, e, m, a), ~Ready(s[Len(s)])
  PROVE  Good(s, e, m, FALSE) /\ ~a
BY DEF Good, TopReady

(* z is the machine after the activation on top of s went to its step at *)
MovedTo(z, at, s, e, m, b) ==
  \E t : /\ Is3(z, t, e, m) /\ Good(t, e, m, b) /\ Len(t) = Len(s)
         /\ t[Len(t)].k = s[Len(s)].k /\ t[Len(t)].at = at

LEMMA AtGood ==
  ASSUME NEW y, NEW at, NEW s, NEW e, NEW m, NEW a, Is3(y, s, e, m), Good(s, e, m, a), Len(s) > 0,
         NEW b \in BOOLEAN, b => ReadyAt(s[Len(s)].k, at)
  PROVE  MovedTo(At(y, at), at, s, e, m, b)
<1>1. IsSeq(s) /\ FrameOK(s[Len(s)])
  <2>1. TopIs(s, {s[Len(s)].k})
    BY DEF TopIs
  <2> QED
    BY <2>1, TopFrame
<1>2. PICK t : AtStep(t, s) /\ Is3(At(y, at), t, e, m) /\ t[Len(s)].k = s[Len(s)].k /\ t[Len(s)].at = at
  <2>1. SteppedTo(At(y, at), at, s, e, m)
    BY <1>1, AtIs
  <2> QED
    BY <2>1 DEF SteppedTo
<1>3. b => Ready(t[Len(s)])
  BY <1>2 DEF Ready
<1>4. Good(t, e, m, b) /\ Len(t) = Len(s)
  BY <1>2, <1>3, GoodAt
<1> QED
  BY <1>2, <1>4 DEF MovedTo

LEMMA AtQuiet ==
  ASSUME NEW y, NEW at, NEW s, NEW e, NEW m, Is3(y, s, e, m), Good(s, e, m, FALSE), Len(s) > 0
  PROVE  MovedTo(At(y, at), at, s, e, m, FALSE)
<1> PICK b \in BOOLEAN : b = FALSE
  OBVIOUS
<1>1. Good(s, e, m, b) /\ (b => ReadyAt(s[Len(s)].k, at))
  OBVIOUS
<1>2. MovedTo(At(y, at), at, s, e, m, b)
  BY <1>1, AtGood
<1> QED
  BY <1>2

(* A callback from code in any of its steps. *)
LEMMA CallbackGood ==
  ASSUME NEW y, NEW closure, NEW args, NEW s, NEW e, NEW a, Is3(y, s, e, "run"), Good(s, e, "run", a),
         NEW z, z = callback(y, closure, args)
  PROVE  DOMAIN z = Registers /\ z.mode = "run" /\ Good(z.cs, z.ext, z.mode, FALSE)
<1>1. PICK f : NewInterp(f, e) /\ Is3(z, Append(s, f), Len(s) + 1, "run")
  BY CallbackIs
<1>2. Good(Append(s, f), Len(s) + 1, "run", FALSE)
  BY <1>1, GoodInterp DEF NewInterp
<1> QED
  BY <1>1, <1>2 DEF Is3

LEMMA CReturnGood ==
  ASSUME NEW y, NEW v, NEW s, NEW e, NEW a, Is3(y, s, e, "run"), Good(s, e, "run", a),
         ~TopIs(s, {"interp"}), NEW z, z = CReturn(y, v)
  PROVE  DOMAIN z = Registers /\ z.mode = "run" /\ Good(z.cs, z.ext, z.mode, FALSE)
<1>1. Is3(z, Front(s), e, "run")
  BY ReturnIs
<1>2. Good(Front(s), e, "run", FALSE)
  BY GoodReturn
<1> QED
  BY <1>1, <1>2 DEF Is3

LEMMA PrimitiveGood ==
  ASSUME InterpInv, PrimTwice \/ PrimApply2 \/ failwith
  PROVE  MachineInv' /\ UNCHANGED <<prog, sig, count>> /\ x.mode = "run"
<1>1. UNCHANGED <<prog, sig, count>>
  BY DEF PrimTwice, PrimApply2, failwith, Step, Now
<1> PICK s, e : s = x.cs /\ e = x.ext
  OBVIOUS
<1>2. PICK k : k \in {"twice", "apply2", "fail"} /\ \E at : InC(k, at)
  BY DEF PrimTwice, PrimApply2, failwith
<1>3. PICK at : InC(k, at)
  BY <1>2
<1>4. /\ Is3(x, s, e, "run") /\ s[Len(s)].k = k /\ Good(s, e, "run", sig.async) /\ IsSeq(s)
      /\ Len(s) > 0 /\ x.mode = "run"
  BY <1>3, InCIs DEF InterpInv, InC
<1>5. ~Ready(s[Len(s)]) /\ ~TopIs(s, {"interp"})
  BY <1>2, <1>4 DEF Ready, ReadyAt, TopIs
<1>6. Good(s, e, "run", FALSE) /\ sig.async = FALSE /\ sig' = sig
  BY <1>1, <1>4, <1>5, NotAsync DEF InterpInv, SignalInv
<1>7. ASSUME DOMAIN x' = Registers /\ Good(x'.cs, x'.ext, x'.mode, FALSE) PROVE MachineInv'
  BY <1>6, <1>7 DEF MachineInv
<1>8. ASSUME NEW y, Is3(y, s, e, "run"), NEW n
      PROVE  \E t : Is3(At(y, n), t, e, "run") /\ Good(t, e, "run", FALSE)
  <2>1. Good(s, e, "run", FALSE)
    BY <1>6
  <2>2. Len(s) > 0
    BY <1>4
  <2>3. MovedTo(At(y, n), n, s, e, "run", FALSE)
    BY <1>8, <2>1, <2>2, AtQuiet
  <2> QED
    BY <2>3 DEF MovedTo
<1>9. ASSUME NEW y, NEW t, Is3(y, t, e, "run"), Good(t, e, "run", FALSE), NEW c, NEW args, x' = callback(y, c, args)
      PROVE  MachineInv'
  BY <1>7, <1>9, CallbackGood
<1>10. ASSUME NEW y, Is3(y, s, e, "run"), NEW v, x' = CReturn(y, v) PROVE MachineInv'
  BY <1>5, <1>6, <1>7, <1>10, CReturnGood
<1>11. CASE InC("twice", 1) /\ Step(callback(At([x EXCEPT !.roots = Append(@, Last(x.cs).args[1])], 2), Last(x.cs).args[1], <<Num(1)>>))
  <2> PICK y : y = [x EXCEPT !.roots = Append(@, Last(x.cs).args[1])]
    OBVIOUS
  <2>1. Is3(y, s, e, "run")
    BY <1>4 DEF Is3, Registers
  <2>2. PICK t : Is3(At(y, 2), t, e, "run") /\ Good(t, e, "run", FALSE)
    BY <1>8, <2>1
  <2>3. x' = callback(At(y, 2), Last(x.cs).args[1], <<Num(1)>>)
    BY <1>11 DEF Step, Now
  <2> QED
    BY <1>1, <1>4, <1>9, <2>2, <2>3
<1>12. CASE InC("twice", 2) /\ Step(callback([At(x, 3) EXCEPT !.depth = @ - 1], Last(x.roots), <<Num(2)>>))
  <2>1. PICK t : Is3(At(x, 3), t, e, "run") /\ Good(t, e, "run", FALSE)
    BY <1>4, <1>8
  <2> PICK y : y = [At(x, 3) EXCEPT !.depth = @ - 1]
    OBVIOUS
  <2>2. Is3(y, t, e, "run")
    BY <2>1 DEF Is3, Registers
  <2>3. x' = callback(y, Last(x.roots), <<Num(2)>>)
    BY <1>12 DEF Step, Now
  <2> QED
    BY <1>1, <1>4, <1>9, <2>1, <2>2, <2>3
<1>13. CASE InC("twice", 3) /\ Step(CReturn([x EXCEPT !.depth = @ - 1, !.roots = Front(@)], x.accu))
  <2> PICK y : y = [x EXCEPT !.depth = @ - 1, !.roots = Front(@)]
    OBVIOUS
  <2>1. Is3(y, s, e, "run")
    BY <1>4 DEF Is3, Registers
  <2>2. x' = CReturn(y, x.accu)
    BY <1>13 DEF Step, Now
  <2> QED
    BY <1>1, <1>4, <1>10, <2>1, <2>2
<1>14. CASE InC("apply2", 1) /\ Step(callback(At(x, 2), Last(x.cs).args[1], Tail(Last(x.cs).args)))
  <2>1. PICK t : Is3(At(x, 2), t, e, "run") /\ Good(t, e, "run", FALSE)
    BY <1>4, <1>8
  <2>2. x' = callback(At(x, 2), Last(x.cs).args[1], Tail(Last(x.cs).args))
    BY <1>14 DEF Step, Now
  <2> QED
    BY <1>1, <1>4, <1>9, <2>1, <2>2
<1>15. CASE InC("apply2", 2) /\ Step(CReturn([x EXCEPT !.depth = @ - 1], x.accu))
  <2> PICK y : y = [x EXCEPT !.depth = @ - 1]
    OBVIOUS
  <2>1. Is3(y, s, e, "run")
    BY <1>4 DEF Is3, Registers
  <2>2. x' = CReturn(y, x.accu)
    BY <1>15 DEF Step, Now
  <2> QED
    BY <1>1, <1>4, <1>10, <2>1, <2>2
<1>16. CASE failwith
  <2>1. PICK y : Is3(y, s, e, "run") /\ x' = raise_constant(y, FAILURE_EXN)
    <3>1. Is3(minor_collection(x), s, e, "run")
      BY <1>4, CollectionAlike, AlikeIs
    <3>2. \E g \in Gcs : x' = raise_constant(IF g = 1 THEN minor_collection(x) ELSE x, FAILURE_EXN)
      BY <1>16 DEF failwith, Now
    <3> QED
      BY <1>4, <3>1, <3>2
  <2>2. RaisedIn(x', s, e)
    BY <2>1, ConstantIs
  <2>3. DOMAIN x' = Registers /\ Good(x'.cs, x'.ext, x'.mode, FALSE)
    <3>1. "run" \notin Over /\ (e = 0 \/ (e \in 1..Len(s) /\ s[e].k = "interp"))
      BY <1>6, ExtOf DEF Over
    <3> QED
      BY <1>6, <2>2, <3>1, RaisedGood
  <2> QED
    BY <1>1, <1>4, <1>7, <2>3
<1> QED
  BY <1>11, <1>12, <1>13, <1>14, <1>15, <1>16 DEF PrimTwice, PrimApply2

LEMMA RaiseGood ==
  ASSUME InterpInv, raise_exception
  PROVE  MachineInv' /\ UNCHANGED <<prog, sig, count>> /\ x.mode = "raise"
<1>1. x.mode = "raise" /\ UNCHANGED <<prog, sig, count>>
  BY DEF raise_exception, Step, Now
<1> PICK s, e : s = x.cs /\ e = x.ext
  OBVIOUS
<1>2. Is3(x, s, e, "raise") /\ TopIs(s, {"interp"}) /\ Good(s, e, "raise", sig.async)
  BY <1>1 DEF InterpInv, MachineInv, Is3, Good, Busy
<1>3. "raise" \notin Over /\ "run" \in {"run"} \cup Busy /\ "raise" \in {"run"} \cup Busy
  BY DEF Over, Busy
<1>4. Good(s, e, "run", sig.async) /\ ~sig.async /\ sig' = sig
  BY <1>1, <1>2, <1>3, GoodMode
<1>5. Good(s, e, "raise", FALSE) /\ sig.async = FALSE
  BY <1>2, <1>4 DEF InterpInv, SignalInv
<1> PICK f, y : f = Last(s) /\ y = [x EXCEPT !.sp = x.trapsp]
  OBVIOUS
<1>6. Is3(y, s, e, "raise")
  BY <1>2 DEF Is3, Registers
<1>7. CASE y.sp >= x.high - f.offset
  <2>1. x' = mlraise([y EXCEPT !.ext = f.ext], x.accu)
    BY <1>7 DEF raise_exception, Step, Now
  <2>2. Is3([y EXCEPT !.ext = f.ext], s, f.ext, "raise")
    BY <1>6 DEF Is3, Registers
  <2>3. RaisedIn(x', s, f.ext)
    BY <2>1, <2>2, MlraiseIs
  <2>4. f.ext = 0 \/ (f.ext \in 1..Len(s) /\ s[f.ext].k = "interp")
    <3>1. Len(s) \in 1..Len(s) /\ f = s[Len(s)] /\ f.k = "interp" /\ Len(s) \in Nat
      BY <1>2, TopFrame DEF TopIs, Last
    <3>2. Innermost(s, f.ext, Len(s) - 1)
      BY <1>2, <3>1 DEF Good, CsInv
    <3> QED
      BY <3>1, <3>2 DEF Innermost
  <2>5. DOMAIN x' = Registers /\ Good(x'.cs, x'.ext, x'.mode, FALSE)
    BY <1>3, <1>5, <2>3, <2>4, RaisedGood
  <2> QED
    BY <1>1, <1>4, <1>5, <2>5 DEF MachineInv
<1>8. CASE ~(y.sp >= x.high - f.offset)
  <2>1. x' = [Pop(y, 4) EXCEPT !.mode = "run", !.pc = Word(y, 0).n, !.trapsp = Word(y, 1).n,
                               !.env = Word(y, 2), !.extra = Word(y, 3).n]
    BY <1>8 DEF raise_exception, Step, Now
  <2>2. Is3(Pop(y, 4), s, e, "raise")
    BY <1>6, PopAlike, AlikeIs
  <2>3. Is3(x', s, e, "run")
    BY <2>1, <2>2 DEF Is3, Registers
  <2> QED
    BY <1>1, <1>4, <2>3 DEF MachineInv, Is3
<1> QED
  BY <1>7, <1>8

LEMMA ProcessGood ==
  ASSUME InterpInv, process_signal
  PROVE  MachineInv' /\ ~sig.async /\ UNCHANGED prog
<1>1. x.mode \in {"signal", "take", "reset"} /\ UNCHANGED prog
  BY DEF process_signal
<1> PICK s, e, m : s = x.cs /\ e = x.ext /\ m = x.mode
  OBVIOUS
<1>2. Is3(x, s, e, m) /\ TopIs(s, {"interp"}) /\ Good(s, e, m, sig.async) /\ m \notin Over
  BY <1>1 DEF InterpInv, MachineInv, Is3, Good, Busy, Over
<1>3. sig'.async = sig.async
  BY DEF process_signal, InterpInv, SignalInv
<1>4. ASSUME NEW y, Is3(y, s, e, m), NEW n \in {"run"} \cup Busy, x' = [y EXCEPT !.mode = n]
      PROVE  MachineInv'
  <2>1. Is3(x', s, e, n)
    BY <1>4 DEF Is3, Registers
  <2>2. Good(s, e, n, sig.async)
    BY <1>2, GoodMode
  <2> QED
    BY <1>3, <2>1, <2>2 DEF MachineInv, Is3
<1>5. \E y : Is3(y, s, e, m) /\ \E n \in {"run"} \cup Busy : x' = [y EXCEPT !.mode = n]
  <2>1. CASE x.mode = "signal"
    <3>1. Is3(Collected(x), s, e, m)
      BY <1>2, CollectedAlike, AlikeIs
    <3>2. x' = [IF sig.force THEN Collected(x) ELSE x EXCEPT !.mode = "take"]
      BY <2>1 DEF process_signal
    <3> QED
      BY <1>2, <3>1, <3>2 DEF Busy
  <2>2. CASE x.mode = "take"
    BY <1>2, <2>2 DEF process_signal, Busy
  <2>3. CASE x.mode = "reset"
    <3> PICK y : y = Enter(Push(x, <<Num(sig.temp)>> \o ReturnFrame(x, x.pc)), x.global[1], 0)
      OBVIOUS
    <3>1. Is3(y, s, e, m)
      BY <1>2, PushAlike, EnterAlike, AlikeIs
    <3>2. x' = [IF sig.temp = 0 THEN x ELSE y EXCEPT !.mode = "run"]
      BY <2>3 DEF process_signal
    <3> QED
      BY <1>2, <3>1, <3>2
  <2> QED
    BY <1>1, <2>1, <2>2, <2>3
<1>6. MachineInv'
  BY <1>4, <1>5
<1>7. ~sig.async
  BY <1>2, GoodMode
<1> QED
  BY <1>1, <1>6, <1>7

LEMMA UrgeGood ==
  ASSUME InterpInv, urge_major_slice
  PROVE  MachineInv' /\ x.mode = "run"
<1> PICK s, e : s = x.cs /\ e = x.ext
  OBVIOUS
<1>1. /\ Is3(x, s, e, "run") /\ s[Len(s)].k = "urge" /\ Good(s, e, "run", sig.async) /\ x.mode = "run"
  BY InCIs DEF InterpInv, urge_major_slice, InC
<1>2. ~Ready(s[Len(s)]) /\ ~TopIs(s, {"interp"})
  BY <1>1 DEF Ready, ReadyAt, TopIs
<1>3. Good(s, e, "run", FALSE) /\ ~sig.async
  BY <1>1, <1>2, NotAsync
<1>4. sig'.async = FALSE
  BY <1>3 DEF urge_major_slice, InterpInv, SignalInv
<1>5. DOMAIN x' = Registers /\ Good(x'.cs, x'.ext, x'.mode, FALSE)
  BY <1>1, <1>2, <1>3, CReturnGood DEF urge_major_slice
<1> QED
  BY <1>1, <1>4, <1>5 DEF MachineInv

(* Code that blocks pushes enter_blocking_section. *)
LEMMA EnterGood ==
  ASSUME NEW y, NEW z, NEW at, NEW s, NEW e, Is3(y, s, e, "run"), MovedTo(z, at, s, e, "run", FALSE),
         ReadyAt(s[Len(s)].k, at), NEW w, w = [z EXCEPT !.cs = Append(@, CFrame("enter", <<>>))]
  PROVE  DOMAIN w = Registers /\ w.mode = "run" /\ Good(w.cs, w.ext, w.mode, FALSE)
<1>1. PICK t : /\ Is3(z, t, e, "run") /\ Good(t, e, "run", FALSE) /\ Len(t) = Len(s)
               /\ t[Len(t)].k = s[Len(s)].k /\ t[Len(t)].at = at
  BY DEF MovedTo
<1>2. Is3(w, Append(t, CFrame("enter", <<>>)), e, "run")
  BY <1>1 DEF Is3, Registers
<1>3. FrameOK(CFrame("enter", <<>>)) /\ CFrame("enter", <<>>).k = "enter"
  BY CFrameOK DEF Kinds
<1>4. TopReady(t)
  <2>1. Len(t) > 0
    BY <1>1 DEF Good, Over
  <2> QED
    BY <1>1, <2>1 DEF TopReady, Ready
<1>5. Good(Append(t, CFrame("enter", <<>>)), e, "run", FALSE)
  BY <1>1, <1>3, <1>4, GoodCall
<1> QED
  BY <1>2, <1>5 DEF Is3

LEMMA ReadGood ==
  ASSUME InterpInv, PrimRead
  PROVE  MachineInv' /\ x.mode = "run"
<1> PICK s, e : s = x.cs /\ e = x.ext
  OBVIOUS
<1>1. PICK at : InC("read", at)
  BY DEF PrimRead
<1>2. /\ Is3(x, s, e, "run") /\ s[Len(s)].k = "read" /\ s[Len(s)].at = at /\ Len(s) > 0
      /\ Good(s, e, "run", sig.async) /\ x.mode = "run" /\ ~TopIs(s, {"interp"})
  BY <1>1, InCIs DEF InterpInv, InC, TopIs
<1>3. CASE InC("read", 1) /\ Step([At(x, 2) EXCEPT !.cs = Append(@, CFrame("enter", <<>>))])
  <2>1. s[Len(s)].at = 1
    BY <1>3, InCIs DEF InterpInv
  <2>2. ~Ready(s[Len(s)])
    BY <1>2, <2>1 DEF Ready, ReadyAt
  <2>3. Good(s, e, "run", FALSE) /\ ~sig.async
    BY <1>2, <2>2, NotAsync
  <2>4. MovedTo(At(x, 2), 2, s, e, "run", FALSE)
    BY <1>2, <2>3, AtQuiet
  <2>5. x' = [At(x, 2) EXCEPT !.cs = Append(@, CFrame("enter", <<>>))] /\ sig' = sig
    BY <1>3 DEF Step, Now
  <2>6. ReadyAt(s[Len(s)].k, 2)
    BY <1>2 DEF ReadyAt
  <2>7. DOMAIN x' = Registers /\ Good(x'.cs, x'.ext, x'.mode, FALSE)
    BY <1>2, <2>4, <2>5, <2>6, EnterGood
  <2>8. sig.async = FALSE
    BY <2>3 DEF InterpInv, SignalInv
  <2> QED
    BY <1>2, <2>5, <2>7, <2>8 DEF MachineInv
<1>4. CASE x' = CReturn(x, Num(5)) /\ sig' = [sig EXCEPT !.async = FALSE]
  <2>1. sig'.async = FALSE
    BY <1>4 DEF InterpInv, SignalInv
  <2>2. DOMAIN x' = Registers /\ Good(x'.cs, x'.ext, x'.mode, FALSE)
    BY <1>2, <1>4, CReturnGood
  <2> QED
    BY <1>2, <2>1, <2>2 DEF MachineInv
<1> QED
  BY <1>3, <1>4 DEF PrimRead

LEMMA HandleEndGood ==
  ASSUME InterpInv, HandleEnd
  PROVE  MachineInv' /\ x.mode = "run" /\ UNCHANGED <<prog, sig, count>>
<1> PICK s, e : s = x.cs /\ e = x.ext
  OBVIOUS
<1>1. (\E at : InC("handle", at)) /\ UNCHANGED <<prog, sig, count>>
  BY DEF HandleEnd, Step, Now
<1>2. /\ Is3(x, s, e, "run") /\ s[Len(s)].k = "handle" /\ Len(s) > 0 /\ TopIs(s, {"handle"})
      /\ Good(s, e, "run", sig.async) /\ x.mode = "run" /\ ~TopIs(s, {"interp"})
  BY <1>1, InCIs DEF InterpInv, InC, TopIs
<1>3. CASE InC("handle", 1) /\ Step([At(x, 2) EXCEPT !.depth = @ - 1, !.cs = Append(@, CFrame("enter", <<>>))])
  <2>1. s[Len(s)].at = 1
    BY <1>3, InCIs DEF InterpInv
  <2>2. ~Ready(s[Len(s)])
    BY <1>2, <2>1 DEF Ready, ReadyAt
  <2>3. Good(s, e, "run", FALSE) /\ ~sig.async
    BY <1>2, <2>2, NotAsync
  <2>4. MovedTo(At(x, 2), 2, s, e, "run", FALSE)
    BY <1>2, <2>3, AtQuiet
  <2> PICK z : z = [At(x, 2) EXCEPT !.depth = @ - 1]
    OBVIOUS
  <2>5. MovedTo(z, 2, s, e, "run", FALSE) /\ Is3(z, At(x, 2).cs, e, "run")
    BY <2>4 DEF MovedTo, Is3, Registers
  <2>6. x' = [z EXCEPT !.cs = Append(@, CFrame("enter", <<>>))] /\ sig' = sig
    <3>1. x' = [At(x, 2) EXCEPT !.depth = @ - 1, !.cs = Append(@, CFrame("enter", <<>>))] /\ sig' = sig
      BY <1>3 DEF Step, Now
    <3> QED
      BY <2>4, <3>1 DEF MovedTo, Is3, Registers
  <2>7. ReadyAt(s[Len(s)].k, 2)
    BY <1>2 DEF ReadyAt
  <2>8. DOMAIN x' = Registers /\ Good(x'.cs, x'.ext, x'.mode, FALSE)
    BY <1>2, <2>5, <2>6, <2>7, EnterGood
  <2>9. sig.async = FALSE
    BY <2>3 DEF InterpInv, SignalInv
  <2> QED
    BY <1>1, <1>2, <2>6, <2>8, <2>9 DEF MachineInv
<1>4. CASE Step([x EXCEPT !.cs = Front(@)])
  <2>1. x' = [x EXCEPT !.cs = Front(s)] /\ sig' = sig
    BY <1>4 DEF Step, Now
  <2>2. Is3(x', Front(s), e, "run")
    BY <1>2, <2>1 DEF Is3, Registers
  <2>3. Good(Front(s), e, "run", sig.async)
    <3>1. TopIs(s, {"enter", "handle"}) /\ sig.async \in BOOLEAN
      BY <1>2 DEF TopIs, InterpInv, SignalInv
    <3> QED
      BY <1>2, <3>1, GoodReturn
  <2> QED
    BY <1>1, <1>2, <2>1, <2>2, <2>3 DEF MachineInv, Is3
<1> QED
  BY <1>3, <1>4 DEF HandleEnd

(* enter_blocking_section, in its five steps: the handler of a pending     *)
(* signal runs as a callback, and async_signal_mode is set before the      *)
(* second look at pending_signal.                                          *)
LEMMA BlockingGood ==
  ASSUME InterpInv, enter_blocking_section
  PROVE  MachineInv' /\ x.mode = "run" /\ UNCHANGED prog
<1> PICK s, e : s = x.cs /\ e = x.ext
  OBVIOUS
<1>1. (\E at : InC("enter", at)) /\ UNCHANGED prog
  BY DEF enter_blocking_section
<1>2. /\ Is3(x, s, e, "run") /\ s[Len(s)].k = "enter" /\ Len(s) > 0 /\ TopIs(s, {"enter"})
      /\ Good(s, e, "run", sig.async) /\ x.mode = "run" /\ ~TopIs(s, {"interp"})
  BY <1>1, InCIs DEF InterpInv, InC, TopIs
<1>3. ASSUME NEW at, at \in {1, 2, 3}, InC("enter", at)
      PROVE  Good(s, e, "run", FALSE) /\ sig.async = FALSE
  <2>1. s[Len(s)].at = at
    BY <1>3, InCIs DEF InterpInv
  <2>2. ~Ready(s[Len(s)])
    BY <1>2, <1>3, <2>1 DEF Ready, ReadyAt
  <2> QED
    BY <1>2, <2>2, NotAsync DEF InterpInv, SignalInv
<1>4. ASSUME NEW at, Good(s, e, "run", FALSE), x' = At(x, at), sig'.async = FALSE PROVE MachineInv'
  <2>1. MovedTo(At(x, at), at, s, e, "run", FALSE)
    BY <1>2, <1>4, AtQuiet
  <2> QED
    BY <1>4, <2>1 DEF MovedTo, MachineInv, Is3
<1>5. CASE InC("enter", 1) /\ x' = At(x, 2) /\ sig' = [sig EXCEPT !.temp = sig.pending]
  <2>0. PICK at : at = 1 /\ at \in {1, 2, 3} /\ InC("enter", at)
    BY <1>5
  <2>1. Good(s, e, "run", FALSE) /\ sig.async = FALSE
    BY <1>3, <2>0
  <2>2. sig'.async = FALSE
    BY <1>5, <2>1 DEF InterpInv, SignalInv
  <2> QED
    BY <1>1, <1>2, <1>4, <1>5, <2>1, <2>2
<1>6. CASE /\ InC("enter", 2) /\ sig' = [sig EXCEPT !.pending = 0, !.temp = 0]
           /\ x' = IF sig.temp # 0 THEN callback(At(x, 3), x.global[1], <<Num(sig.temp)>>) ELSE At(x, 4)
  <2>0. PICK at : at = 2 /\ at \in {1, 2, 3} /\ InC("enter", at)
    BY <1>6
  <2>1. Good(s, e, "run", FALSE) /\ sig.async = FALSE
    BY <1>3, <2>0
  <2>2. sig'.async = FALSE
    BY <1>6, <2>1 DEF InterpInv, SignalInv
  <2>3. CASE sig.temp # 0
    <3>1. MovedTo(At(x, 3), 3, s, e, "run", FALSE)
      BY <1>2, <2>1, AtQuiet
    <3>2. PICK t : Is3(At(x, 3), t, e, "run") /\ Good(t, e, "run", FALSE)
      BY <3>1 DEF MovedTo
    <3>3. x' = callback(At(x, 3), x.global[1], <<Num(sig.temp)>>)
      BY <1>6, <2>3
    <3>4. DOMAIN x' = Registers /\ Good(x'.cs, x'.ext, x'.mode, FALSE)
      BY <3>2, <3>3, CallbackGood
    <3> QED
      BY <1>1, <1>2, <2>2, <3>4 DEF MachineInv
  <2>4. CASE sig.temp = 0
    BY <1>1, <1>2, <1>4, <1>6, <2>1, <2>2, <2>4
  <2> QED
    BY <2>3, <2>4
<1>7. CASE InC("enter", 3) /\ x' = [At(x, 4) EXCEPT !.depth = @ - 1] /\ sig' = sig
  <2>0. PICK at : at = 3 /\ at \in {1, 2, 3} /\ InC("enter", at)
    BY <1>7
  <2>1. Good(s, e, "run", FALSE) /\ sig.async = FALSE
    BY <1>3, <2>0
  <2>2. MovedTo(At(x, 4), 4, s, e, "run", FALSE)
    BY <1>2, <2>1, AtQuiet
  <2>3. PICK t : Is3(At(x, 4), t, e, "run") /\ Good(t, e, "run", FALSE)
    BY <2>2 DEF MovedTo
  <2>4. Is3(x', t, e, "run")
    BY <1>7, <2>3 DEF Is3, Registers
  <2> QED
    BY <1>1, <1>2, <1>7, <2>1, <2>3, <2>4 DEF MachineInv, Is3
<1>8. CASE InC("enter", 4) /\ x' = At(x, 5) /\ sig' = [sig EXCEPT !.async = TRUE]
  <2> PICK b \in BOOLEAN : b = TRUE
    OBVIOUS
  <2>1. ReadyAt(s[Len(s)].k, 5)
    BY <1>2 DEF ReadyAt
  <2>2. MovedTo(At(x, 5), 5, s, e, "run", b)
    BY <1>2, <2>1, AtGood
  <2>3. PICK t : Is3(At(x, 5), t, e, "run") /\ Good(t, e, "run", b)
    BY <2>2 DEF MovedTo
  <2>4. sig'.async = b
    BY <1>8 DEF InterpInv, SignalInv
  <2> QED
    BY <1>1, <1>2, <1>8, <2>3, <2>4 DEF MachineInv, Is3
<1>9. CASE /\ sig' = [sig EXCEPT !.async = (sig.pending = 0)]
           /\ x' = IF sig.pending = 0 THEN [x EXCEPT !.cs = Front(@)] ELSE At(x, 1)
  <2>1. CASE sig.pending = 0
    <3> PICK b \in BOOLEAN : b = TRUE
      OBVIOUS
    <3>1. x' = [x EXCEPT !.cs = Front(s)] /\ sig'.async = b
      BY <1>9, <2>1 DEF InterpInv, SignalInv
    <3>2. Is3(x', Front(s), e, "run")
      BY <1>2, <3>1 DEF Is3, Registers
    <3>3. TopIs(s, {"enter", "handle"})
      BY <1>2 DEF TopIs
    <3>4. Good(Front(s), e, "run", b)
      BY <1>2, <3>3, GoodReturn
    <3> QED
      BY <1>1, <1>2, <3>1, <3>2, <3>4 DEF MachineInv, Is3
  <2>2. CASE sig.pending # 0
    <3>1. x' = At(x, 1) /\ sig'.async = FALSE
      BY <1>9, <2>2 DEF InterpInv, SignalInv
    <3>2. Good(s, e, "run", FALSE)
      BY <1>2 DEF Good
    <3> QED
      BY <1>1, <1>2, <1>4, <3>1, <3>2
  <2> QED
    BY <2>1, <2>2
<1> QED
  BY <1>5, <1>6, <1>7, <1>8, <1>9 DEF enter_blocking_section

(* A signal arrives: in a blocking section its handler runs above code     *)
(* that is ready for it.                                                   *)
LEMMA SignalGood ==
  ASSUME InterpInv, handle_signal
  PROVE  MachineInv' /\ UNCHANGED prog /\ (sig.async => x.mode = "run")
<1> PICK s, e : s = x.cs /\ e = x.ext
  OBVIOUS
<1>1. UNCHANGED prog /\ x.mode \notin Over
  BY DEF handle_signal, Over
<1>2. CASE sig.async
  <2>1. TopReady(s) /\ Good(s, e, x.mode, sig.async) /\ DOMAIN x = Registers
    BY <1>2 DEF InterpInv, MachineInv, Good
  <2>2. x.mode = "run"
    BY <1>1, <2>1 DEF Good, TopIs, TopReady, Ready, ReadyAt, Busy
  <2>3. Is3(x, s, e, "run") /\ Good(s, e, "run", sig.async)
    BY <2>1, <2>2 DEF Is3
  <2> PICK t, y : t = Append(s, CFrame("handle", <<>>)) /\ y = [x EXCEPT !.cs = Append(@, CFrame("handle", <<>>))]
    OBVIOUS
  <2>4. FrameOK(CFrame("handle", <<>>)) /\ CFrame("handle", <<>>).k = "handle"
    BY CFrameOK DEF Kinds
  <2>5. Good(t, e, "run", FALSE)
    BY <2>1, <2>3, <2>4, GoodCall
  <2>6. Is3(y, t, e, "run")
    BY <2>3 DEF Is3, Registers
  <2>7. x' = callback(y, x.global[1], <<Num(1)>>) /\ sig'.async = FALSE
    BY <1>2 DEF handle_signal, InterpInv, SignalInv
  <2>8. DOMAIN x' = Registers /\ Good(x'.cs, x'.ext, x'.mode, FALSE)
    BY <2>5, <2>6, <2>7, CallbackGood
  <2> QED
    BY <1>1, <2>2, <2>7, <2>8 DEF MachineInv
<1>3. CASE ~sig.async
  <2>1. x' = x /\ sig'.async = sig.async
    BY <1>3 DEF handle_signal, InterpInv, SignalInv
  <2> QED
    BY <1>1, <1>3, <2>1 DEF MachineInv, InterpInv
<1> QED
  BY <1>2, <1>3

-----------------------------------------------------------------------------
(***************************************************************************)
(* The signals.                                                            *)
(***************************************************************************)
(* A step that leaves the flags and the counts alone. *)
LEMMA SignalsSame ==
  ASSUME SignalInv, UNCHANGED <<sig, count>>, x.mode \notin {"take", "reset"}
  PROVE  SignalInv'
BY DEF SignalInv, Taken

(* The flags and the counts, one by one. *)
SigTypes == /\ sig \in [async : BOOLEAN, pending : {0, 1}, todo : BOOLEAN, force : BOOLEAN, temp : {0, 1}]
            /\ count \in [arrived : Nat, ran : Nat, merged : Nat, lost : Nat]
LEMMA SigParts ==
  ASSUME SignalInv
  PROVE  /\ SigTypes /\ sig.pending \in {0, 1} /\ sig.temp \in {0, 1} /\ count.arrived \in Nat
         /\ count.ran \in Nat /\ count.merged \in Nat /\ count.lost \in Nat
         /\ sig.temp # 0 => sig.pending # 0
         /\ count.arrived = count.ran + count.merged + count.lost + Taken
         /\ sig.pending # 0 => sig.todo \/ x.mode \in {"take", "reset"}
BY DEF SignalInv, SigTypes

(* A signal that was read, or none, is taken off pending_signal. *)
LEMMA ResetSignals ==
  ASSUME SignalInv, sig' = [sig EXCEPT !.pending = 0, !.temp = 0],
         count' = [count EXCEPT !.ran = @ + sig.temp, !.lost = IF sig.temp = 0 THEN @ + sig.pending ELSE @]
  PROVE  SignalInv'
<1>1. SigTypes'
  <2>1. sig' \in [async : BOOLEAN, pending : {0, 1}, todo : BOOLEAN, force : BOOLEAN, temp : {0, 1}]
    BY SigParts DEF SigTypes
  <2>2. PICK r, l \in Nat : /\ r = count.ran + sig.temp
                            /\ l = IF sig.temp = 0 THEN count.lost + sig.pending ELSE count.lost
    BY SigParts
  <2>3. count' = [count EXCEPT !.ran = r, !.lost = l]
    BY <2>2
  <2>4. count' \in [arrived : Nat, ran : Nat, merged : Nat, lost : Nat]
    BY <2>2, <2>3, SigParts DEF SigTypes
  <2> QED
    BY <2>1, <2>4 DEF SigTypes
<1>2. /\ sig'.pending = 0 /\ sig'.temp = 0 /\ count'.arrived = count.arrived /\ count'.merged = count.merged
      /\ count'.ran = count.ran + sig.temp
      /\ count'.lost = IF sig.temp = 0 THEN count.lost + sig.pending ELSE count.lost
  BY SigParts DEF SigTypes
<1>3. count'.arrived = count'.ran + count'.merged + count'.lost + 0
  <2>1. Taken = IF sig.temp # 0 THEN 1 ELSE sig.pending
    BY DEF Taken
  <2>2. CASE sig.temp = 0
    BY <1>2, <2>1, <2>2, SigParts
  <2>3. CASE sig.temp # 0
    BY <1>2, <2>1, <2>3, SigParts
  <2> QED
    BY <2>2, <2>3
<1> QED
  BY <1>1, <1>2, <1>3 DEF SignalInv, SigTypes, Taken

LEMMA ProcessSignals ==
  ASSUME InterpInv, process_signal
  PROVE  SignalInv'
<1>1. SignalInv
  BY DEF InterpInv
<1>2. CASE x.mode = "signal"
  <2>1. /\ sig' = [sig EXCEPT !.todo = FALSE, !.force = FALSE] /\ UNCHANGED count
        /\ x' = [IF sig.force THEN Collected(x) ELSE x EXCEPT !.mode = "take"]
    BY <1>2 DEF process_signal
  <2>2. x'.mode = "take"
    <3>1. DOMAIN x = Registers
      BY DEF InterpInv, MachineInv
    <3>2. DOMAIN Collected(x) = Registers
      BY <3>1, CollectedAlike DEF Alike
    <3> QED
      BY <2>1, <3>1, <3>2 DEF Registers
  <2> QED
    BY <1>1, <2>1, <2>2 DEF SignalInv, Taken
<1>3. CASE x.mode = "take"
  <2>1. /\ sig' = [sig EXCEPT !.temp = sig.pending] /\ UNCHANGED count
        /\ x' = [x EXCEPT !.mode = "reset"]
    BY <1>3 DEF process_signal
  <2>2. x'.mode = "reset"
    BY <2>1 DEF InterpInv, MachineInv, Registers
  <2> QED
    BY <1>1, <2>1, <2>2 DEF SignalInv, Taken
<1>4. CASE x.mode = "reset"
  <2>1. /\ sig' = [sig EXCEPT !.pending = 0, !.temp = 0]
        /\ count' = [count EXCEPT !.ran = @ + sig.temp,
                                  !.lost = IF sig.temp = 0 THEN @ + sig.pending ELSE @]
    BY <1>4 DEF process_signal
  <2> QED
    BY <1>1, <2>1, ResetSignals
<1> QED
  BY <1>2, <1>3, <1>4 DEF process_signal

LEMMA BlockingSignals ==
  ASSUME InterpInv, enter_blocking_section
  PROVE  SignalInv'
<1>1. SignalInv
  BY DEF InterpInv
<1>2. x.mode = "run"
  BY BlockingGood
<1>3. CASE sig' = [sig EXCEPT !.temp = sig.pending] /\ UNCHANGED count
  BY <1>1, <1>2, <1>3 DEF SignalInv, Taken
<1>4. CASE /\ sig' = [sig EXCEPT !.pending = 0, !.temp = 0]
           /\ count' = [count EXCEPT !.ran = @ + sig.temp,
                                     !.lost = IF sig.temp = 0 THEN @ + sig.pending ELSE @]
  BY <1>1, <1>4, ResetSignals
<1>5. CASE UNCHANGED <<sig, count>>
  BY <1>1, <1>2, <1>5, SignalsSame
<1>6. CASE sig' = [sig EXCEPT !.async = TRUE] /\ UNCHANGED count
  BY <1>1, <1>2, <1>6 DEF SignalInv, Taken
<1>7. CASE sig' = [sig EXCEPT !.async = (sig.pending = 0)] /\ UNCHANGED count
  BY <1>1, <1>2, <1>7 DEF SignalInv, Taken
<1> QED
  BY <1>3, <1>4, <1>5, <1>6, <1>7 DEF enter_blocking_section

(* A signal that finds another one pending is merged with it. *)
LEMMA ArrivalSignals ==
  ASSUME InterpInv, handle_signal
  PROVE  SignalInv'
<1>1. SignalInv
  BY DEF InterpInv
<1>2. CASE sig.async
  <2>1. x.mode = "run"
    BY <1>2, SignalGood
  <2>2. /\ sig' = [sig EXCEPT !.async = FALSE]
        /\ count' = [count EXCEPT !.arrived = @ + 1, !.ran = @ + 1]
    BY <1>2 DEF handle_signal
  <2>3. SigTypes'
    <3>1. sig' \in [async : BOOLEAN, pending : {0, 1}, todo : BOOLEAN, force : BOOLEAN, temp : {0, 1}]
      BY <1>1, <2>2, SigParts DEF SigTypes
    <3>2. count.arrived + 1 \in Nat /\ count.ran + 1 \in Nat
      BY <1>1, SigParts
    <3>3. count' \in [arrived : Nat, ran : Nat, merged : Nat, lost : Nat]
      BY <1>1, <2>2, <3>2, SigParts DEF SigTypes
    <3> QED
      BY <3>1, <3>3 DEF SigTypes
  <2>4. /\ sig'.pending = sig.pending /\ sig'.temp = sig.temp /\ sig'.todo = sig.todo
        /\ count'.arrived = count.arrived + 1 /\ count'.ran = count.ran + 1
        /\ count'.merged = count.merged /\ count'.lost = count.lost
    BY <1>1, <2>2, SigParts DEF SigTypes
  <2>5. Taken' = Taken /\ Taken \in {0, 1}
    BY <1>1, <2>4, SigParts DEF Taken
  <2>6. count'.arrived = count'.ran + count'.merged + count'.lost + Taken'
    BY <1>1, <2>4, <2>5, SigParts
  <2>7. sig'.pending # 0 => sig'.todo
    BY <1>1, <2>1, <2>4, SigParts
  <2> QED
    BY <1>1, <2>3, <2>4, <2>6, <2>7, SigParts DEF SignalInv, SigTypes
<1>3. CASE ~sig.async
  <2>1. /\ sig' = [sig EXCEPT !.pending = 1, !.todo = TRUE]
        /\ count' = [count EXCEPT !.arrived = @ + 1, !.merged = @ + sig.pending]
    BY <1>3 DEF handle_signal
  <2>2. SigTypes'
    <3>1. sig' \in [async : BOOLEAN, pending : {0, 1}, todo : BOOLEAN, force : BOOLEAN, temp : {0, 1}]
      BY <1>1, <2>1, SigParts DEF SigTypes
    <3>2. count.arrived + 1 \in Nat /\ count.merged + sig.pending \in Nat
      BY <1>1, SigParts
    <3>3. count' \in [arrived : Nat, ran : Nat, merged : Nat, lost : Nat]
      BY <1>1, <2>1, <3>2, SigParts DEF SigTypes
    <3> QED
      BY <3>1, <3>3 DEF SigTypes
  <2>3. /\ sig'.pending = 1 /\ sig'.temp = sig.temp /\ sig'.todo
        /\ count'.arrived = count.arrived + 1 /\ count'.merged = count.merged + sig.pending
        /\ count'.ran = count.ran /\ count'.lost = count.lost
    BY <1>1, <2>1, SigParts DEF SigTypes
  <2>4. Taken' = 1 /\ Taken = sig.pending
    BY <1>1, <2>3, SigParts DEF Taken
  <2>5. count'.arrived = count'.ran + count'.merged + count'.lost + Taken'
    BY <1>1, <2>3, <2>4, SigParts
  <2> QED
    BY <2>2, <2>3, <2>5 DEF SignalInv, SigTypes
<1> QED
  BY <1>2, <1>3

LEMMA InterpNext ==
  ASSUME InterpInv, [Next]_vars
  PROVE  InterpInv'
<1>1. MachineInv /\ SignalInv /\ ProgramInv
  BY DEF InterpInv
<1>2. ASSUME UNCHANGED prog PROVE ProgramInv'
  BY <1>1, <1>2 DEF ProgramInv
<1>3. CASE Instruction
  <2>1. x.mode = "run"
    BY <1>3 DEF Instruction, Basic, PUSH_RETADDR, APPLY, APPLYK, APPTERM, RETURN, RESTART, GRAB, CLOSURE,
         Globals, MAKEBLOCK, DUMMY, Fields, Branch, Arithmetic, PUSHTRAP, POPTRAP, RAISE,
         CHECK_SIGNALS, STOP, C_CALL, Is, Running
  <2> QED
    BY <1>1, <1>2, <1>3, <2>1, InstructionGood, SignalsSame DEF InterpInv
<1>4. CASE PrimTwice \/ PrimApply2 \/ failwith
  BY <1>1, <1>2, <1>4, PrimitiveGood, SignalsSame DEF InterpInv
<1>5. CASE raise_exception
  BY <1>1, <1>2, <1>5, RaiseGood, SignalsSame DEF InterpInv
<1>6. CASE process_signal
  BY <1>2, <1>6, ProcessGood, ProcessSignals DEF InterpInv
<1>7. CASE urge_major_slice
  <2>1. sig' = [sig EXCEPT !.force = TRUE, !.todo = TRUE] /\ UNCHANGED <<prog, count>>
    BY <1>7 DEF urge_major_slice
  <2>2. SignalInv'
    BY <1>1, <2>1 DEF SignalInv, Taken
  <2> QED
    BY <1>2, <1>7, <2>1, <2>2, UrgeGood DEF InterpInv
<1>8. CASE PrimRead
  <2>1. (UNCHANGED sig \/ sig' = [sig EXCEPT !.async = FALSE]) /\ UNCHANGED <<prog, count>>
    BY <1>8 DEF PrimRead, Step, Now
  <2>2. MachineInv' /\ x.mode = "run"
    BY <1>8, ReadGood
  <2>3. SignalInv'
    BY <1>1, <2>1, <2>2 DEF SignalInv, Taken
  <2> QED
    BY <1>2, <2>1, <2>2, <2>3 DEF InterpInv
<1>9. CASE HandleEnd
  BY <1>1, <1>2, <1>9, HandleEndGood, SignalsSame DEF InterpInv
<1>10. CASE enter_blocking_section
  BY <1>2, <1>10, BlockingGood, BlockingSignals DEF InterpInv
<1>11. CASE handle_signal
  BY <1>2, <1>11, SignalGood, ArrivalSignals DEF InterpInv
<1>12. CASE UNCHANGED vars
  BY <1>12 DEF vars, InterpInv, MachineInv, SignalInv, ProgramInv, Taken
<1> QED
  BY <1>3, <1>4, <1>5, <1>6, <1>7, <1>8, <1>9, <1>10, <1>11, <1>12 DEF Next, Machine

LEMMA InterpInit ==
  ASSUME Init
  PROVE  InterpInv
<1>1. ProgramInv
  BY DEF Init, ProgramInv
<1>2. SignalInv
  BY DEF Init, SignalInv, Taken
<1>3. PICK size \in StackSizes :
        x = interprete([init_stack(size) EXCEPT
              !.heap = <<[tag |-> Closure_tag, f |-> <<Pc(prog.handler)>>], [tag |-> 0, f |-> <<Num(0)>>]>>,
              !.global = <<Ptr(1), Ptr(2), Num(0)>>], 1)
  BY DEF Init
<1> PICK h, g : /\ h = <<[tag |-> Closure_tag, f |-> <<Pc(prog.handler)>>], [tag |-> 0, f |-> <<Num(0)>>]>>
                /\ g = <<Ptr(1), Ptr(2), Num(0)>>
  OBVIOUS
<1> PICK y : y = [init_stack(size) EXCEPT !.heap = h, !.global = g]
  OBVIOUS
<1>4. Is3(y, <<>>, 0, "run") /\ x = interprete(y, 1)
  BY <1>3 DEF Is3, init_stack, Registers
<1>5. PICK f : NewInterp(f, 0) /\ Is3(x, Append(<<>>, f), Len(<<>>) + 1, "run")
  BY <1>4, InterpreteIs
<1> PICK t : t = Append(<<>>, f)
  OBVIOUS
<1>6. IsSeq(<<>>) /\ Len(<<>>) = 0
  BY DEF IsSeq
<1>7. Extended(t, <<>>, f)
  BY <1>6, AppendExtends
<1>8. CsInv(<<>>, 0)
  BY <1>6 DEF CsInv, Innermost
<1>9. CsInv(t, 1)
  <2>1. FrameOK(f) /\ f.k = "interp" /\ f.ext = 0
    BY <1>5 DEF NewInterp
  <2> QED
    BY <1>6, <1>7, <1>8, <2>1, CsExtend
<1>10. Len(t) = 1 /\ t[1].k = "interp"
  BY <1>5, <1>6, <1>7 DEF Extended, NewInterp
<1>11. sig.async = FALSE
  BY DEF Init
<1>12. Good(t, 1, "run", FALSE)
  BY <1>9, <1>10 DEF Good, Busy, Over
<1>13. Is3(x, t, 1, "run")
  BY <1>5, <1>6
<1> QED
  BY <1>1, <1>2, <1>11, <1>12, <1>13 DEF InterpInv, MachineInv, Is3

(* The invariant of the machine: the C stack, external_raise, the mode and *)
(* the flags of signals.c agree in every state the interpreter reaches.    *)
THEOREM InterpInvariant == Spec => []InterpInv
<1>1. Init => InterpInv
  BY InterpInit
<1>2. InterpInv /\ [Next]_vars => InterpInv'
  BY InterpNext
<1> QED
  BY <1>1, <1>2, PTL DEF Spec

(* No signal is lost but one that arrives between the read and the reset   *)
(* of pending_signal, a pending signal is announced by something_to_do,    *)
(* and async_signal_mode is set only while the activation on top blocks    *)
(* (handle_signal, process_signal and enter_blocking_section), for every   *)
(* program, stack size and number of signals and collections.              *)
THEOREM SignalsNotLost == Spec => []SignalsKept
<1>1. ASSUME InterpInv PROVE SignalsKept
  <2>1. SignalInv /\ MachineInv
    BY <1>1 DEF InterpInv
  <2>2. ASSUME sig.async PROVE \E k \in {"read", "enter", "handle"} : Last(x.cs).k = k
    <3>1. Ready(x.cs[Len(x.cs)])
      BY <2>1, <2>2 DEF MachineInv, Good, TopReady
    <3>2. Last(x.cs).k \in {"read", "enter", "handle"}
      BY <3>1 DEF Ready, ReadyAt, Last
    <3> QED
      BY <3>2
  <2> QED
    BY <2>1, <2>2 DEF SignalInv, SignalsKept
<1> QED
  BY <1>1, InterpInvariant, PTL

(* external_raise is the innermost interprete on the C stack: mlraise      *)
(* never jumps into an activation that has returned, nor past one that is  *)
(* still there, for every program and every nesting of primitives,         *)
(* callbacks, handlers and exceptions.                                     *)
THEOREM ExternalRaiseExact == Spec => []ExternalRaise
<1>1. ASSUME InterpInv PROVE ExternalRaise
  <2> SUFFICES ASSUME x.mode \notin Over
               PROVE  /\ x.ext \in {i \in DOMAIN x.cs : Interp(x.cs[i])}
                      /\ \A i \in {i \in DOMAIN x.cs : Interp(x.cs[i])} : i <= x.ext
    BY DEF ExternalRaise, Over
  <2>1. IsSeq(x.cs) /\ Innermost(x.cs, x.ext, Len(x.cs)) /\ Len(x.cs) > 0 /\ x.cs[1].k = "interp"
    BY <1>1 DEF InterpInv, MachineInv, Good, CsInv
  <2>2. DOMAIN x.cs = 1..Len(x.cs) /\ 1 \in 1..Len(x.cs)
    BY <2>1, IsSeqLen
  <2>3. /\ x.ext \in 1..Len(x.cs) /\ x.cs[x.ext].k = "interp"
        /\ \A i \in 1..Len(x.cs) : x.cs[i].k = "interp" => i <= x.ext
    BY <2>1, <2>2 DEF Innermost
  <2> QED
    BY <2>2, <2>3 DEF Interp
<1> QED
  BY <1>1, InterpInvariant, PTL
=============================================================================
