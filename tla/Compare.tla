------------------------------ MODULE Compare -------------------------------
(***************************************************************************)
(* Structural comparison and hashing of values (compare.c, hash.c), on the *)
(* heaps of Marshal.  A double is given by its bytes; the six low ones are *)
(* zero.  A hash has HashBits bits (32).                                   *)
(***************************************************************************)
EXTENDS Marshal

CONSTANT HashBits

Magnitude(b) == (b[8] % 128) * 256 + b[7]
IsNaN(b) == Magnitude(b) > 32752
Double(b) == IF b[8] >= 128 THEN -Magnitude(b) ELSE Magnitude(b)
DoubleBytes(b, i) == SubSeq(b, 8 * i - 7, 8 * i)

(* the result of a comparison, or the exception it raises *)
Res(n) == [n |-> n, x |-> ""]
Exn == [n |-> 0, x |-> "Invalid_argument"]
CompareDouble(a, b) == IF IsNaN(a) \/ IsNaN(b) \/ Double(a) = Double(b) THEN 0 ELSE IF Double(a) < Double(b) THEN -1 ELSE 1

(* the first difference of f[i] and g[i], i from 1 to n, or last *)
CompareBytes(f, g) ==
  LET n == IF Len(f) <= Len(g) THEN Len(f) ELSE Len(g)
      From[i \in 1..(n + 1)] == IF i = n + 1 THEN Len(f) - Len(g) ELSE IF f[i] # g[i] THEN f[i] - g[i] ELSE From[i + 1]
  IN From[1]
CompareDoubles(f, g) ==
  LET n == Len(f) \div 8
      From[i \in 1..(n + 1)] ==
        IF i = n + 1 THEN 0
        ELSE LET c == CompareDouble(DoubleBytes(f, i), DoubleBytes(g, i)) IN IF c # 0 THEN c ELSE From[i + 1]
  IN IF Len(f) # Len(g) THEN Len(f) - Len(g) ELSE From[1]

Inside(v) == v.k \in {"ptr", "infix", "atom"}
Address(v) == IF v.k = "code" THEN 1000 + v.n ELSE IF v.k = "out" THEN 2000 + v.n ELSE v.n + v.o
Tag_val(heap, v) == IF v.k = "atom" THEN v.n ELSE IF v.k = "infix" THEN Infix_tag ELSE heap[v.n].tag
FieldsOf(heap, v) == IF v.k = "atom" THEN <<>> ELSE heap[v.n].f

(* Mutation of CompareSizes: a shorter block is a prefix. *)
CompareSizesPrefix(f, g) == 0
CompareSizes(f, g) == Len(f) - Len(g)

RECURSIVE compare_val(_, _, _), CompareFields(_, _, _, _)
CompareFields(heap, f, g, i) ==
  IF i > Len(f) \/ i > Len(g) THEN Res(0)
  ELSE LET c == compare_val(heap, f[i], g[i]) IN IF c # Res(0) THEN c ELSE CompareFields(heap, f, g, i + 1)

compare_val(heap, v1, v2) ==
  LET t1 == Tag_val(heap, v1)
      t2 == Tag_val(heap, v2)
  IN CASE v1 = v2 -> Res(0)
       [] v1.k = "int" -> IF v2.k = "int" THEN Res(v1.n - v2.n) ELSE Res(-1)
       [] v2.k = "int" /\ v1.k # "int" -> Res(1)
       [] OTHER ->
            CASE ~Inside(v1) \/ ~Inside(v2) -> Res(Address(v1) - Address(v2))
              [] OTHER ->
                   CASE t1 # t2 -> Res(t1 - t2)
                     [] t1 = t2 /\ t1 = String_tag -> Res(CompareBytes(heap[v1.n].bytes, heap[v2.n].bytes))
                     [] t1 = t2 /\ t1 = Double_tag -> Res(CompareDouble(heap[v1.n].bytes, heap[v2.n].bytes))
                     [] t1 = t2 /\ t1 = Double_array_tag -> Res(CompareDoubles(heap[v1.n].bytes, heap[v2.n].bytes))
                     [] t1 = t2 /\ t1 \in {Abstract_tag, Final_tag, Closure_tag, Infix_tag} -> Exn
                     [] t1 = t2 /\ t1 = Object_tag -> Res(heap[v1.n].f[2].n - heap[v2.n].f[2].n)
                     [] OTHER -> LET f == FieldsOf(heap, v1)
                                     g == FieldsOf(heap, v2)
                                 IN IF CompareSizes(f, g) # 0 THEN Res(CompareSizes(f, g)) ELSE CompareFields(heap, f, g, 1)

compare(heap, v1, v2) ==
  LET c == compare_val(heap, v1, v2) IN IF c.x # "" THEN c ELSE Res(IF c.n < 0 THEN -1 ELSE IF c.n > 0 THEN 1 ELSE 0)
lessequal(heap, v1, v2) == compare_val(heap, v1, v2).n <= 0
equal(heap, v1, v2) == compare_val(heap, v1, v2).n = 0

-----------------------------------------------------------------------------
HBase == 2^HashBits
Combine(s, x) == [s EXCEPT !.accu = (@ * (65599 % HBase) + (x % HBase)) % HBase]
Combine_small(s, x) == [s EXCEPT !.accu = (@ * 19 + x) % HBase]
CombineBytes(s, b) ==
  LET After[i \in 0..Len(b)] == IF i = 0 THEN s ELSE Combine_small(After[i - 1], b[i]) IN After[Len(b)]

RECURSIVE hash_aux(_, _, _), HashFields(_, _, _, _)
HashFields(s, heap, f, i) == IF i = 0 THEN s ELSE HashFields(hash_aux(s, heap, f[i]), heap, f, i - 1)
hash_aux(s0, heap, v) ==
  LET s == [s0 EXCEPT !.limit = @ - 1]
      t == [s EXCEPT !.count = @ - 1]
      tag == Tag_val(heap, v)
  IN CASE s.count < 0 \/ s.limit < 0 -> s
       [] s.count >= 0 /\ s.limit >= 0 ->
            CASE v.k = "int" -> Combine(t, v.n)
              [] v.k \in {"code", "out"} -> Combine(s, Address(v))
              [] v.k = "infix" -> hash_aux(s, heap, Value("ptr", v.n))
              [] v.k \in {"atom", "ptr"} ->
                   CASE tag \in {String_tag, Double_tag, Double_array_tag} -> CombineBytes(t, heap[v.n].bytes)
                     [] tag \in {Abstract_tag, Final_tag} -> s
                     [] tag = Object_tag -> Combine(t, heap[v.n].f[2].n)
                     [] OTHER -> HashFields(Combine_small(t, tag), heap, FieldsOf(heap, v), Len(FieldsOf(heap, v)))

hash_univ_param(count, limit, heap, v) ==
  hash_aux([accu |-> 0, limit |-> limit, count |-> count], heap, v).accu % (HBase \div 4)

-----------------------------------------------------------------------------
Doubles(heap, v) == UNION {{DoubleBytes(heap[a].bytes, i) : i \in 1..(Len(heap[a].bytes) \div 8)} :
                             a \in {b \in Reached(heap, v) : heap[b].tag \in {Double_tag, Double_array_tag}}}
HasNaN(heap, v) == \E b \in Doubles(heap, v) : IsNaN(b)
HasZero(heap, v) == \E b \in Doubles(heap, v) : Double(b) = 0
Ordered(heap, v) == ~HasNaN(heap, v)

(* Comparison is a total order whose equality is that of the trees. *)
OrderLaws(heap, u, v, w) ==
  LET c(x, y) == compare(heap, x, y)
  IN (\A x \in {u, v, w} : Ordered(heap, x)) /\ c(u, v).x = "" =>
       /\ c(v, u).n = -c(u, v).n
       /\ c(u, v).n = 0 /\ ~HasZero(heap, u) <=> Tree(heap, u, 6) = Tree(heap, v, 6) /\ ~HasZero(heap, u)
       /\ c(v, w).x = "" /\ c(u, w).x = "" /\ lessequal(heap, u, v) /\ lessequal(heap, v, w) => lessequal(heap, u, w)
(* Equal values have equal hashes, however far the hash looks. *)
HashLaw(count, limit, heap, u, v) ==
  compare(heap, u, v) = Res(0) /\ ~HasNaN(heap, u) /\ ~HasNaN(heap, v) /\ ~HasZero(heap, u) =>
    hash_univ_param(count, limit, heap, u) = hash_univ_param(count, limit, heap, v)
=============================================================================
