----------------------------- MODULE ValueCalls -----------------------------
(***************************************************************************)
(* Marshalling, comparison and hashing of small graphs of blocks.          *)
(***************************************************************************)
EXTENDS Calls

(* Values.  Three blocks whose addresses collide in the table of objects:   *)
(* two pairs that point to each other, to themselves or to a leaf.          *)
MV == INSTANCE Compare WITH INITIAL_EXTERN_TABLE_SIZE <- 3, INITIAL_EXTERN_BLOCK_SIZE <- 24,
                            INITIAL_OFFSET_MAX <- 6, HashBits <- 12
Val(n) == MV!Value("int", n)
Ptr(a) == MV!Value("ptr", a)
Block(tag, f) == [tag |-> tag, f |-> f, bytes |-> <<>>]
Raw(tag, b) == [tag |-> tag, f |-> <<>>, bytes |-> b]
Text(n) == Raw(252, [i \in 1..n |-> 97])
Float(x) == [i \in 1..8 |-> CASE i = 8 -> x \div 256 [] i = 7 -> x % 256 [] OTHER -> 0]
Fun == Block(250, <<MV!Value("code", 12), Val(505), MV!Value("code", 40)>>)

Leaves == {Text(3), Raw(253, Float(16368)), Block(0, <<Val(-200)>>), Fun, Block(251, <<Val(0)>>), Raw(254, Float(16368))}
Links == {Val(5), Ptr(1), Ptr(4), Ptr(7)}
Shape(x, y, z, leaf) == (1 :> Block(0, <<x, y>>)) @@ (4 :> Block(1, <<z, Val(300)>>)) @@ (7 :> leaf)
Graphs == {Shape(x, y, z, leaf) : x, y, z \in Links, leaf \in Leaves}
Infixes == {Shape(x, y, z, Fun) : x, y \in {Val(5), Ptr(4), [Ptr(7) EXCEPT !.k = "infix", !.o = 2]}, z \in {Val(0), Ptr(7)}}
Singles == {7 :> b : b \in {Text(n) : n \in {0, 4, 31, 32, 256}} \cup {Block(t, [i \in 1..n |-> Val(i)]) : t \in {15, 16}, n \in {1, 7, 8}}
                           \cup {Raw(254, Float(16368) \o Float(49136)), Block(255, <<Val(1)>>), Block(248, <<Val(1), Val(2)>>)}}
Scalars == {Val(n) : n \in {0, 63, 64, -1, 127, 128, -128, -129, 32767, 32768, -32768, -32769, 1073741823, -1073741824}}
             \cup {MV!Value("atom", t) : t \in {0, 15, 16}} \cup {MV!Value("out", 0), MV!Value("code", 8)}

Cyclic(heap, v) == \E a \in MV!Reached(heap, v) : \E w \in MV!Fields(heap, a) : MV!IsPointer(w) /\ a \in MV!Reached(heap, w)

(* one call after another: the second finds the table the first has left *)
Marshalling(heap, v, fl, s1, w, s2) ==
  /\ call' = [f |-> "marshal", heap |-> heap, v |-> v, fl |-> fl, w |-> w]
  /\ result' = <<s1, s2>>
Marshal ==
  \E heap \in Graphs \cup Infixes, fl \in {{}, {"CLOSURES"}} :
    \E s1 \in {MV!output_value_to_string(MV!Init_extern, heap, Ptr(1), fl), MV!output_value_to_buffer(MV!Init_extern, heap, Ptr(1), fl, 26)},
       w \in {Ptr(1), Ptr(4)} :
      Marshalling(heap, Ptr(1), fl, s1, w, MV!output_value_to_string(s1, heap, w, fl))
MarshalTree ==
  \E heap \in Graphs \cup Infixes, fl \in {{"NO_SHARING"}, {"NO_SHARING", "CLOSURES"}} :
    /\ ~Cyclic(heap, Ptr(1))
    /\ \E s \in {MV!output_value_to_string(MV!Init_extern, heap, Ptr(1), fl)} : Marshalling(heap, Ptr(1), fl, s, Ptr(1), s)
MarshalSingle ==
  \E v \in {Ptr(7)} \cup Scalars, len \in {3, 19, 20, 21, 22, 25, 300}, fl \in {{}, {"CLOSURES"}} :
    \E heap \in IF v = Ptr(7) THEN Singles ELSE {<<>>} :
      \E s \in {MV!output_value_to_buffer(MV!Init_extern, heap, v, fl, len)} :
        Marshalling(heap, v, fl, s, v, MV!output_value_to_string(s, heap, v, fl))

Overflowed(s) == s.failed = "buffer overflow"
Written(s, heap, v, fl) ==
  IF s.failed = "" THEN MV!Writable(heap, v, fl) /\ MV!RoundTrip(s, heap, v, fl)
                   ELSE Overflowed(s) \/ ~MV!Writable(heap, v, fl)
(* the buffer overflows iff what is written in a growing one is longer *)
Fits(s, whole) == whole.failed = "" => (Overflowed(s) <=> Len(whole.out) > s.limit)
FitsOr(s, heap, v, fl) == s.malloced \/ Fits(s, MV!output_value_to_string(MV!Init_extern, heap, v, fl))
(* extern_value writes a value iff it can be written, and intern_rec reads *)
(* back an isomorphic graph, sharing and cycles included (extern.c,        *)
(* intern.c), but for float arrays, which it refuses, and what is shared   *)
(* after an infix pointer, which the two number differently.  The call     *)
(* that follows writes its own value, whether the first failed or not.     *)
MarshalExact ==
  call.f = "marshal" => /\ Written(result[1], call.heap, call.v, call.fl)
                        /\ FitsOr(result[1], call.heap, call.v, call.fl)
                        /\ Written(result[2], call.heap, call.w, call.fl)
                        /\ ~Overflowed(result[2])

Keys == {Val(5), Ptr(1), Ptr(4), Ptr(7), MV!Value("atom", 0)}
Comparables == {heap \in {Shape(x, y, z, leaf) : x, y \in {Val(5), Ptr(4), Ptr(7)}, z \in {Val(5), Ptr(7), MV!Value("atom", 0)},
                                 leaf \in Leaves \cup {Raw(253, Float(x)) : x \in {0, 32768, 49136, 32760}} \cup {Block(0, <<Val(5), Val(5)>>), Block(1, <<Val(5), Val(300)>>)}} : TRUE}
CompareValues ==
  \E heap \in Comparables, u, v \in Keys :
    /\ call' = [f |-> "compare", heap |-> heap, u |-> u, v |-> v]
    /\ result' = MV!compare(heap, u, v)
(* compare_val is a total order of the values without NaN, whose equality  *)
(* is that of the trees, and equal values have the same hash whatever the  *)
(* limits on what it visits, 0.0 and -0.0 aside (compare.c, hash.c).       *)
CompareExact ==
  call.f = "compare" =>
    /\ \A w \in Keys : MV!OrderLaws(call.heap, call.u, call.v, w)
    /\ \A n \in {0, 2, 10} : MV!HashLaw(n, 10, call.heap, call.u, call.v) /\ MV!HashLaw(n, 3, call.heap, call.u, call.v)

(* The run-time system treats the values of a program as trees and graphs: *)
(* what is written can be read back, and comparison and hashing agree on   *)
(* what is equal (extern.c, intern.c, compare.c, hash.c).                  *)
ValuesExact == MarshalExact /\ CompareExact
=============================================================================
