------------------------------ MODULE FreeList ------------------------------
(***************************************************************************)
(* The free-list of the byte-code runtime's major heap                     *)
(* (src/kernel/Byterun/freelist.c).  A heap h is a record; the fields used *)
(* here are                                                                *)
(*   blk      the blocks: header address -> [wo, color, tag, f], where wo  *)
(*            is the size in words without the header and f the fields     *)
(*   fl       the addresses of the free blocks, in the order of the list   *)
(*   flPrev, flMerge   fl_prev and fl_merge, FlHead for the sentinel       *)
(*   frag     last_fragment, None when there is none                       *)
(*   sweepHp  gc_sweep_hp, in use while phase is "sweep"                   *)
(*   behind   history: fl_add_block has left fl_merge behind a new block   *)
(* Addresses count words; a header occupies one word.                      *)
(***************************************************************************)
EXTENDS Integers, Sequences, SequencesExt

FlHead == 0
None == -1

Free(wo) == [wo |-> wo, color |-> "blue", tag |-> "free", f |-> <<>>]
Fragment == [wo |-> 0, color |-> "white", tag |-> "free", f |-> <<>>]

Wh(wo) == wo + 1                            \* Whsize_wosize
End(h, a) == a + Wh(h.blk[a].wo)            \* the address after a block

WithBlock(h, a, b) == [h EXCEPT !.blk = [x \in DOMAIN @ \cup {a} |->
                                           IF x = a THEN b ELSE @[x]]]
WithoutBlock(h, a) == [h EXCEPT !.blk = [x \in DOMAIN @ \ {a} |-> @[x]]]

(* The position of a block in the list; the sentinel is at position 0. *)
Pos(h, a) == IF a = FlHead THEN 0 ELSE CHOOSE i \in DOMAIN h.fl : h.fl[i] = a
At(h, i) == IF i = 0 THEN FlHead ELSE h.fl[i]

(***************************************************************************)
(* allocate_block: the block at position i of the list is large enough;    *)
(* what is allocated is its right end.  [h, hp]: the heap, where the new   *)
(* block has no header yet, and the address of that header.                *)
(***************************************************************************)
(* Mutation of allocate_block: fl_merge is left on the detached block. *)
allocate_blockKeepMerge(h, wo, i) ==
  LET cur == h.fl[i]  size == h.blk[cur].wo
      h1 == [h EXCEPT !.flPrev = At(h, i - 1)]
  IN [hp |-> cur + size - wo,
      h |-> IF size > Wh(wo) THEN WithBlock(h1, cur, Free(size - Wh(wo)))
            ELSE LET h2 == [h1 EXCEPT !.fl = RemoveAt(@, i)]
                 IN IF size = wo THEN h2 ELSE WithBlock(h2, cur, Fragment)]

allocate_block(h, wo, i) ==
  LET cur == h.fl[i]  prev == At(h, i - 1)  size == h.blk[cur].wo
      h1 == [h EXCEPT !.flPrev = prev]
  IN [hp |-> cur + size - wo,
      h |-> IF size > Wh(wo) THEN WithBlock(h1, cur, Free(size - Wh(wo)))
            ELSE LET h2 == [h1 EXCEPT !.fl = RemoveAt(@, i),
                                      !.flMerge = IF @ = cur THEN prev ELSE @]
                 IN IF size = wo THEN h2 ELSE WithBlock(h2, cur, Fragment)]

(* fl_allocate: next fit, from fl_prev to the end and then from the start. *)
FitOrder(h) ==
  LET p == Pos(h, h.flPrev)
  IN [i \in 1..Len(h.fl) |-> IF i <= Len(h.fl) - p THEN p + i ELSE i - (Len(h.fl) - p)]

fl_allocate(h, wo) ==
  LET First(fits) == IF fits = <<>> THEN [hp |-> None, h |-> h]
                     ELSE allocate_block(h, wo, Head(fits))
  IN First(SelectSeq(FitOrder(h), LAMBDA i : h.blk[h.fl[i]].wo >= wo))

fl_init_merge(h) == [h EXCEPT !.frag = None, !.flMerge = FlHead]

fl_reset(h) == fl_init_merge([h EXCEPT !.fl = <<>>, !.flPrev = FlHead, !.behind = FALSE])

(***************************************************************************)
(* fl_merge_block: give the block at a back to the free-list, after        *)
(* fl_merge.  [h, next]: the heap and the address after what was merged.   *)
(***************************************************************************)
(* merge with the fragment just before it *)
MergeFragment(h, a) ==
  IF h.frag = None \/ Wh(h.frag) # a THEN [h |-> h, a |-> a]
  ELSE [a |-> h.frag,
        h |-> WithBlock(WithoutBlock(h, a), h.frag,
                        [Fragment EXCEPT !.wo = Wh(h.blk[a].wo)])]

(* merge with the free block just after it, which leaves the list *)
MergeNext(h, a) ==
  LET i == Pos(h, h.flMerge) + 1
  IN IF i > Len(h.fl) \/ h.fl[i] # End(h, a) THEN h
     ELSE LET cur == h.fl[i]
              h1 == [h EXCEPT !.fl = RemoveAt(@, i),
                              !.flPrev = IF @ = cur THEN h.flMerge ELSE @]
          IN WithBlock(WithoutBlock(h1, cur), a,
                       Free(h.blk[a].wo + Wh(h.blk[cur].wo)))

(* merge into the free block before it, or insert, or keep as a fragment *)
MergePrev(h, a) ==
  LET prev == h.flMerge  i == Pos(h, prev)
  IN IF prev # FlHead /\ End(h, prev) = a
     THEN WithBlock(WithoutBlock(h, a), prev, Free(h.blk[prev].wo + Wh(h.blk[a].wo)))
     ELSE IF h.blk[a].wo # 0
     THEN WithBlock([h EXCEPT !.fl = InsertAt(@, i + 1, a), !.flMerge = a],
                    a, Free(h.blk[a].wo))
     ELSE WithBlock([h EXCEPT !.frag = a], a, Fragment)

MergeEnd(h, a) == [h |-> MergePrev(h, a), next |-> End(h, a)]
MergeStart(m) == MergeEnd(MergeNext(m.h, m.a), m.a)
fl_merge_block(h, a) == MergeStart(MergeFragment(h, a))

(***************************************************************************)
(* fl_add_block: insert the free block of a heap extension.  fl_last is    *)
(* the end of the list, and the sentinel is below the heap.                *)
(***************************************************************************)
(* Mutation of fl_add_block: fl_merge stays where it is. *)
fl_add_blockStay(h, a) ==
  LET i == Len(SelectSeq(h.fl, LAMBDA x : x < a))
  IN [h EXCEPT !.fl = InsertAt(@, i + 1, a)]

fl_add_block(h, a) ==
  LET swept == a + 1 <= h.sweepHp IN
  IF a > At(h, Len(h.fl))
  THEN [h EXCEPT !.fl = Append(@, a),
                 !.behind = @ \/ (h.phase = "sweep" /\ swept)]
  ELSE LET i == CHOOSE j \in 0..Len(h.fl) :
                  /\ \A k \in 1..j : h.fl[k] < a
                  /\ h.fl[j + 1] > a
       IN [h EXCEPT !.fl = InsertAt(@, i + 1, a),
                    !.flMerge = IF @ = At(h, i) /\ swept THEN a ELSE @]

(***************************************************************************)
(* The assertions of fl_check and of gc_stat, and those of fl_merge_block  *)
(* and fl_add_block on the place of a block in the list.                   *)
(***************************************************************************)
Blue(h) == {a \in DOMAIN h.blk : h.blk[a].color = "blue"}

ListExact(h) ==
  /\ ToSet(h.fl) = Blue(h) /\ Len(h.fl) = Len(SetToSeq(Blue(h)))
  /\ h.flPrev \in Blue(h) \cup {FlHead}
  /\ h.flMerge \in Blue(h) \cup {FlHead}

InOrder(h) == \A i, j \in DOMAIN h.fl : i < j => h.fl[i] < h.fl[j]

(* fl_merge is the last block of the list before gc_sweep_hp *)
MergePlace(h) ==
  /\ h.flMerge < h.sweepHp
  /\ \A a \in ToSet(h.fl) : a <= h.flMerge \/ a >= h.sweepHp
=============================================================================
