----------------------------- MODULE SeqLemmas -----------------------------
(***************************************************************************)
(* Facts about numbers, finite sets and sequences that the proofs about    *)
(* several components need.                                                *)
(***************************************************************************)
EXTENDS Integers, Sequences, SequencesExt, FiniteSets, TLAPS, FiniteSetTheorems,
        SequenceTheorems, WellFoundedInduction

InSeq(x, s) == \E i \in 1..Len(s) : s[i] = x
Distinct(s) == \A i, j \in 1..Len(s) : s[i] = s[j] => i = j

(* A nonempty set of natural numbers has a least element. *)
LEMMA LeastElement ==
  ASSUME NEW S \in SUBSET Nat, S # {}
  PROVE  \E i \in S : \A j \in S : i <= j
<1> DEFINE R == {ss \in Nat \X Nat : ss[1] < ss[2]}
<1>1. IsWellFoundedOn(R, Nat)
  BY NatLessThanWellFounded DEF OpToRel
<1>2. PICK i \in S : \A j \in S : ~(<<j, i>> \in R)
  <2> HIDE DEF R
  <2> QED BY <1>1, WFMin
<1>3. \A j \in S : ~(j < i)
  BY <1>2
<1> QED
  BY <1>3

(* Adding an element in front. *)
LEMMA InFront ==
  ASSUME NEW S, NEW s \in Seq(S), NEW x \in S
  PROVE  /\ <<x>> \o s \in Seq(S) /\ <<x>> \o s # <<>>
         /\ \A y : InSeq(y, <<x>> \o s) <=> y = x \/ InSeq(y, s)
         /\ Distinct(s) /\ ~InSeq(x, s) => Distinct(<<x>> \o s)
<1> DEFINE q == <<x>> \o s
<1>1. <<x>> \in Seq(S) /\ Len(<<x>>) = 1 /\ <<x>>[1] = x
  OBVIOUS
<1>2. /\ q \in Seq(S) /\ Len(q) = 1 + Len(s)
      /\ \A i \in 1..(1 + Len(s)) : q[i] = IF i <= 1 THEN x ELSE s[i - 1]
  BY <1>1, ConcatProperties
<1>3. Len(s) \in Nat
  BY LenProperties
<1>4. ASSUME NEW y PROVE InSeq(y, q) <=> y = x \/ InSeq(y, s)
  <2>1. InSeq(y, q) => y = x \/ InSeq(y, s)
    BY <1>2, <1>3 DEF InSeq
  <2>2. y = x => InSeq(y, q)
    BY <1>2, <1>3 DEF InSeq
  <2>3. InSeq(y, s) => InSeq(y, q)
    <3> SUFFICES ASSUME NEW i \in 1..Len(s), s[i] = y PROVE InSeq(y, q)
      BY DEF InSeq
    <3>1. i + 1 \in 1..Len(q) /\ q[i + 1] = y
      BY <1>2, <1>3
    <3> QED
      BY <3>1 DEF InSeq
  <2> QED
    BY <2>1, <2>2, <2>3
<1>5. ASSUME Distinct(s), ~InSeq(x, s) PROVE Distinct(q)
  <2> SUFFICES ASSUME NEW i \in 1..Len(q), NEW j \in 1..Len(q), q[i] = q[j] PROVE i = j
    BY DEF Distinct
  <2>1. CASE i = 1 \/ j = 1
    BY <1>2, <1>3, <1>5, <2>1 DEF InSeq
  <2>2. CASE i # 1 /\ j # 1
    <3>1. i - 1 \in 1..Len(s) /\ j - 1 \in 1..Len(s) /\ s[i - 1] = s[j - 1]
      BY <1>2, <1>3, <2>2
    <3>2. i - 1 = j - 1
      BY <1>5, <3>1 DEF Distinct
    <3> QED
      BY <3>2
  <2> QED
    BY <2>1, <2>2
<1>6. q # <<>>
  BY <1>2, <1>3
<1> QED
  BY <1>2, <1>4, <1>5, <1>6

(* Taking the first element off. *)
LEMMA InTail ==
  ASSUME NEW S, NEW s \in Seq(S), s # <<>>, Distinct(s)
  PROVE  /\ Tail(s) \in Seq(S) /\ Distinct(Tail(s))
         /\ InSeq(Head(s), s) /\ Head(s) \in S
         /\ \A y : InSeq(y, Tail(s)) <=> InSeq(y, s) /\ y # Head(s)
<1>1. /\ Head(s) \in S /\ Tail(s) \in Seq(S) /\ Len(Tail(s)) = Len(s) - 1
      /\ \A i \in 1..Len(Tail(s)) : Tail(s)[i] = s[i + 1]
  BY HeadTailProperties
<1>2. Len(s) \in Nat \ {0} /\ Head(s) = s[1]
  BY EmptySeq
<1>3. Distinct(Tail(s))
  BY <1>1, <1>2 DEF Distinct
<1>4. InSeq(Head(s), s)
  BY <1>2 DEF InSeq
<1>5. ASSUME NEW y PROVE InSeq(y, Tail(s)) <=> InSeq(y, s) /\ y # Head(s)
  <2>1. ASSUME NEW i \in 1..Len(Tail(s)), Tail(s)[i] = y PROVE InSeq(y, s) /\ y # Head(s)
    <3>1. i + 1 \in 1..Len(s) /\ s[i + 1] = y /\ i + 1 # 1 /\ 1 \in 1..Len(s)
      BY <1>1, <1>2, <2>1
    <3> QED
      BY <1>2, <3>1 DEF InSeq, Distinct
  <2>2. ASSUME NEW i \in 1..Len(s), s[i] = y, y # Head(s) PROVE InSeq(y, Tail(s))
    <3>1. i - 1 \in 1..Len(Tail(s)) /\ Tail(s)[i - 1] = y
      BY <1>1, <1>2, <2>2
    <3> QED
      BY <3>1 DEF InSeq
  <2> QED
    BY <2>1, <2>2 DEF InSeq
<1> QED
  BY <1>1, <1>3, <1>4, <1>5

(* Taking the first n elements off. *)
LEMMA InSuffix ==
  ASSUME NEW S, NEW s \in Seq(S), NEW n \in 0..Len(s)
  PROVE  /\ SubSeq(s, n + 1, Len(s)) \in Seq(S)
         /\ Len(SubSeq(s, n + 1, Len(s))) = Len(s) - n
         /\ \A i \in 1..(Len(s) - n) : SubSeq(s, n + 1, Len(s))[i] = s[n + i]
         /\ \A j \in 1..Len(s) : j > n => InSeq(s[j], SubSeq(s, n + 1, Len(s)))
<1> DEFINE q == SubSeq(s, n + 1, Len(s))
<1>1. Len(s) \in Nat /\ n \in Nat
  BY LenProperties
<1>2. \A i \in (n + 1)..Len(s) : s[i] \in S
  BY <1>1, ElementOfSeq
<1>3. /\ q \in Seq(S)
      /\ Len(q) = IF n + 1 <= Len(s) THEN Len(s) - (n + 1) + 1 ELSE 0
      /\ \A i \in 1..(Len(s) - (n + 1) + 1) : q[i] = s[(n + 1) + i - 1]
  BY <1>1, <1>2, SubSeqProperties
<1> HIDE DEF q
<1>4. Len(q) = Len(s) - n
  BY <1>1, <1>3
<1>5. ASSUME NEW i \in 1..(Len(s) - n) PROVE q[i] = s[n + i]
  <2>1. i \in 1..(Len(s) - (n + 1) + 1) /\ (n + 1) + i - 1 = n + i
    BY <1>1
  <2> QED
    BY <1>3, <2>1
<1>6. ASSUME NEW j \in 1..Len(s), j > n PROVE InSeq(s[j], q)
  <2>1. j - n \in 1..(Len(s) - n) /\ n + (j - n) = j
    BY <1>1, <1>6
  <2>2. q[j - n] = s[j]
    BY <1>5, <2>1
  <2> QED
    BY <1>4, <2>1, <2>2 DEF InSeq
<1> QED
  BY <1>3, <1>4, <1>5, <1>6 DEF q

(* Two sequences one after the other. *)
LEMMA InConcat ==
  ASSUME NEW S, NEW q \in Seq(S), NEW r \in Seq(S), NEW x
  PROVE  (InSeq(x, q) \/ InSeq(x, r)) <=> InSeq(x, q \o r)
<1>1. /\ Len(q \o r) = Len(q) + Len(r) /\ Len(q) \in Nat /\ Len(r) \in Nat
      /\ \A i \in 1..(Len(q) + Len(r)) :
           (q \o r)[i] = IF i <= Len(q) THEN q[i] ELSE r[i - Len(q)]
  BY ConcatProperties, LenProperties
<1>2. ASSUME NEW i \in 1..Len(q), q[i] = x PROVE InSeq(x, q \o r)
  <2>1. i \in 1..Len(q \o r) /\ (q \o r)[i] = x
    BY <1>1, <1>2
  <2> QED
    BY <2>1 DEF InSeq
<1>3. ASSUME NEW i \in 1..Len(r), r[i] = x PROVE InSeq(x, q \o r)
  <2>1. Len(q) + i \in 1..Len(q \o r) /\ ~(Len(q) + i <= Len(q)) /\ (Len(q) + i) - Len(q) = i
    BY <1>1
  <2>2. (q \o r)[Len(q) + i] = x
    BY <1>1, <1>3, <2>1
  <2> QED
    BY <2>1, <2>2 DEF InSeq
<1>4. ASSUME NEW i \in 1..Len(q \o r), (q \o r)[i] = x PROVE InSeq(x, q) \/ InSeq(x, r)
  <2>1. \/ i \in 1..Len(q) /\ (q \o r)[i] = q[i]
        \/ i - Len(q) \in 1..Len(r) /\ (q \o r)[i] = r[i - Len(q)]
    BY <1>1
  <2> QED
    BY <1>4, <2>1 DEF InSeq
<1> QED
  BY <1>2, <1>3, <1>4 DEF InSeq

(* A sequence is its first elements and the last one. *)
LEMMA AppendLast ==
  ASSUME NEW n \in Nat, NEW h, DOMAIN h = 1..(n + 1), h = [k \in 1..(n + 1) |-> h[k]],
         NEW f, f = [k \in 1..n |-> h[k]]
  PROVE  h = Append(f, h[n + 1])
<1> DEFINE S == {h[k] : k \in 1..(n + 1)}
           x == h[n + 1]
<1>1. \A k \in 1..(n + 1) : h[k] \in S
  OBVIOUS
<1>2. x \in S /\ \A k \in 1..n : k \in 1..(n + 1) /\ h[k] \in S
  OBVIOUS
<1> HIDE DEF S, x
<1>3. h \in Seq(S) /\ Len(h) = n + 1
  BY <1>1
<1>4. f \in Seq(S) /\ Len(f) = n
  <2>1. f \in [1..n -> S] /\ DOMAIN f = 1..n
    BY <1>2
  <2>2. f \in Seq(S)
    BY <2>1, SeqDef, ZenonT(60)
  <2> QED
    BY <2>1, <2>2, LenProperties
<1>5. /\ Append(f, x) \in Seq(S) /\ Len(Append(f, x)) = n + 1
      /\ \A k \in 1..n : Append(f, x)[k] = f[k] /\ Append(f, x)[n + 1] = x
  BY <1>2, <1>4, AppendProperties
<1>6. Append(f, x)[n + 1] = x
  BY <1>2, <1>4, AppendProperties
<1>7. \A k \in 1..(n + 1) : k \in 1..n \/ k = n + 1
  OBVIOUS
<1>8. \A k \in 1..Len(h) : h[k] = Append(f, x)[k]
  BY <1>3, <1>5, <1>6, <1>7 DEF x
<1>9. h = Append(f, x)
  BY <1>3, <1>5, <1>8, SeqEqual
<1> QED
  BY <1>9 DEF x

(* The least element of a set of positions, as Min of FiniteSetsExt has it. *)
LEMMA MinOf ==
  ASSUME NEW S \in SUBSET Nat, S # {}
  PROVE  Min(S) \in S /\ \A j \in S : Min(S) <= j
BY LeastElement DEF Min

(* What two sequences give one after the other. *)
Follows(z, a, b, k, l) ==
  /\ Len(z) = k + l
  /\ \A j \in 1..k : z[j] = a[j]
  /\ \A j \in 1..l : z[k + j] = b[j]
LEMMA Joined ==
  ASSUME NEW S, NEW a \in Seq(S), NEW b \in Seq(S)
  PROVE  a \o b \in Seq(S) /\ Follows(a \o b, a, b, Len(a), Len(b))
<1> PICK z, k, l : z = a \o b /\ k = Len(a) /\ l = Len(b)
  OBVIOUS
<1>1. /\ z \in Seq(S) /\ Len(z) = k + l /\ k \in Nat /\ l \in Nat
      /\ \A j \in 1..(k + l) : z[j] = IF j <= k THEN a[j] ELSE b[j - k]
  BY ConcatProperties, LenProperties
<1>2. \A j \in 1..k : z[j] = a[j]
  BY <1>1
<1>3. ASSUME NEW j \in 1..l PROVE z[k + j] = b[j]
  <2> PICK x : x = k + j
    OBVIOUS
  <2>1. x \in 1..(k + l) /\ ~(x <= k) /\ x - k = j
    BY <1>1
  <2> QED
    BY <1>1, <2>1
<1> QED
  BY <1>1, <1>2, <1>3 DEF Follows

(* z is s with e put in at position i: the rest moves one further. *)
With(z, s, i, e) ==
  /\ Len(z) = Len(s) + 1 /\ z[i] = e
  /\ \A j \in 1..(i - 1) : z[j] = s[j]
  /\ \A j \in i..Len(s) : z[j + 1] = s[j]
LEMMA InsertedAt ==
  ASSUME NEW S, NEW s \in Seq(S), NEW e \in S, NEW i \in 1..(Len(s) + 1)
  PROVE  InsertAt(s, i, e) \in Seq(S) /\ With(InsertAt(s, i, e), s, i, e)
<1> PICK n, m, a, b, p : /\ n = Len(s) /\ m = i - 1 /\ a = SubSeq(s, 1, m) /\ b = SubSeq(s, i, n)
                         /\ p = <<e>>
  OBVIOUS
<1>1. n \in Nat /\ m \in 0..n /\ i = m + 1 /\ \A j \in 1..n : s[j] \in S
  BY LenProperties, ElementOfSeq
<1>2. a \in Seq(S) /\ Len(a) = m /\ \A j \in 1..m : a[j] = s[j]
  <2>1. \A j \in 1..m : s[j] \in S
    BY <1>1
  <2> QED
    BY <1>1, <2>1, SubSeqProperties
<1>3. b \in Seq(S) /\ Len(b) = n - m /\ \A j \in 1..(n - m) : b[j] = s[m + j]
  BY <1>1, InSuffix
<1>4. p \in Seq(S) /\ Len(p) = 1 /\ p[1] = e
  OBVIOUS
<1> PICK q : q = a \o p
  OBVIOUS
<1>5. q \in Seq(S) /\ Len(q) = i /\ (\A j \in 1..m : q[j] = s[j]) /\ q[i] = e
  <2>1. /\ q \in Seq(S) /\ Len(q) = m + 1 /\ \A j \in 1..m : q[j] = a[j]
        /\ \A j \in 1..1 : q[m + j] = p[j]
    <3>1. q \in Seq(S) /\ Follows(q, a, p, m, 1)
      BY <1>2, <1>4, Joined
    <3> QED
      BY <3>1 DEF Follows
  <2>2. q[m + 1] = p[1]
    BY <1>2, <1>4, <2>1
  <2> QED
    BY <1>1, <1>2, <1>4, <2>1, <2>2
<1> PICK z : z = q \o b
  OBVIOUS
<1>6. z = InsertAt(s, i, e)
  BY DEF InsertAt
<1>7. /\ z \in Seq(S) /\ Len(z) = i + (n - m)
      /\ \A j \in 1..i : z[j] = q[j]
      /\ \A j \in 1..(n - m) : z[i + j] = b[j]
  <2>1. z \in Seq(S) /\ Follows(z, q, b, i, n - m)
    BY <1>3, <1>5, Joined
  <2> QED
    BY <2>1 DEF Follows
<1>8. Len(z) = n + 1 /\ z[i] = e /\ \A j \in 1..(i - 1) : z[j] = s[j]
  <2>1. i \in 1..i /\ i - 1 = m /\ (\A j \in 1..m : j \in 1..i) /\ i + (n - m) = n + 1
    BY <1>1
  <2>2. z[i] = e
    BY <1>5, <1>7, <2>1
  <2>3. \A j \in 1..m : z[j] = s[j]
    BY <1>5, <1>7, <2>1
  <2>4. Len(z) = n + 1
    BY <1>7, <2>1
  <2> QED
    BY <2>1, <2>2, <2>3, <2>4
<1>9. ASSUME NEW j \in i..n PROVE z[j + 1] = s[j]
  <2> PICK k : k = j - m
    OBVIOUS
  <2>1. k \in 1..(n - m) /\ m + k = j /\ i + k = j + 1
    BY <1>1
  <2>2. z[i + k] = b[k] /\ b[k] = s[m + k]
    BY <1>3, <1>7, <2>1
  <2> QED
    BY <2>1, <2>2
<1> QED
  BY <1>6, <1>7, <1>8, <1>9 DEF With

(* z is s without its element i. *)
Without(z, s, i) ==
  /\ Len(z) = Len(s) - 1
  /\ \A j \in 1..(i - 1) : z[j] = s[j]
  /\ \A j \in i..(Len(s) - 1) : z[j] = s[j + 1]
LEMMA RemovedAt ==
  ASSUME NEW S, NEW s \in Seq(S), NEW i \in 1..Len(s)
  PROVE  RemoveAt(s, i) \in Seq(S) /\ Without(RemoveAt(s, i), s, i)
<1> PICK n, m, a, b : /\ n = Len(s) /\ m = i - 1 /\ a = SubSeq(s, 1, m) /\ b = SubSeq(s, i + 1, n)
  OBVIOUS
<1>1. n \in Nat /\ m \in 0..n /\ i = m + 1 /\ i \in 0..n /\ \A j \in 1..n : s[j] \in S
  BY LenProperties, ElementOfSeq
<1>2. a \in Seq(S) /\ Len(a) = m /\ \A j \in 1..m : a[j] = s[j]
  <2>1. \A j \in 1..m : s[j] \in S
    BY <1>1
  <2> QED
    BY <1>1, <2>1, SubSeqProperties
<1>3. b \in Seq(S) /\ Len(b) = n - i /\ \A j \in 1..(n - i) : b[j] = s[i + j]
  BY <1>1, InSuffix
<1> PICK z : z = a \o b
  OBVIOUS
<1>4. z = RemoveAt(s, i)
  BY DEF RemoveAt
<1>5. /\ z \in Seq(S) /\ Len(z) = m + (n - i)
      /\ \A j \in 1..m : z[j] = a[j]
      /\ \A j \in 1..(n - i) : z[m + j] = b[j]
  <2>1. z \in Seq(S) /\ Follows(z, a, b, m, n - i)
    BY <1>2, <1>3, Joined
  <2> QED
    BY <2>1 DEF Follows
<1>6. Len(z) = n - 1 /\ \A j \in 1..(i - 1) : z[j] = s[j]
  <2>1. i - 1 = m /\ m + (n - i) = n - 1
    BY <1>1
  <2> QED
    BY <1>2, <1>5, <2>1
<1>7. ASSUME NEW j \in i..(n - 1) PROVE z[j] = s[j + 1]
  <2> PICK k : k = j - m
    OBVIOUS
  <2>1. k \in 1..(n - i) /\ i + k = j + 1 /\ m + k = j
    BY <1>1
  <2>2. z[m + k] = b[k] /\ b[k] = s[i + k]
    BY <1>3, <1>5, <2>1
  <2> QED
    BY <2>1, <2>2
<1> QED
  BY <1>4, <1>5, <1>6, <1>7 DEF Without
=============================================================================
