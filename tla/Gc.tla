-------------------------------- MODULE Gc ---------------------------------
(***************************************************************************)
(* The generational, incremental garbage collector of the byte-code        *)
(* runtime (src/kernel/Byterun: minor_gc.c, major_gc.c, memory.c, weak.c,  *)
(* roots.c, gc_ctrl.c, compact.c) beside a mutator that allocates, reads   *)
(* and writes blocks.                                                      *)
(*                                                                         *)
(* A value is 0 (anything that is not a pointer), a positive address of a  *)
(* block of the major heap, or -k for the k-th block of the minor heap.  A *)
(* pointer to an infix header stands for its block.  The collector runs    *)
(* inside the mutator's allocations; a slice may do any amount of work, so *)
(* one minor collection of the model does one iteration of the loop of     *)
(* mark_slice or sweep_slice, and a longer slice is several minor          *)
(* collections in a row.                                                   *)
(***************************************************************************)
EXTENDS FreeList, FiniteSets

CONSTANTS
  Root,        \* stack slots, local and global C roots
  FirstChunk,  \* the initial chunk of the major heap, [start, size]
  Spares,      \* the chunks malloc has left, in the order it returns them
  YoungSize,   \* words in the minor heap
  GraySizes,   \* sizes the table gray_vals may have when it can no longer grow
  MaxOps,      \* bound: allocations, reads and writes of the mutator
  Sizes        \* sizes in words of the blocks the mutator allocates

VARIABLES
  heap,    \* the collector's state, see FreeList and InitHeap
  roots,   \* what each root holds
  ops,     \* operations the mutator has done
  fatal    \* the runtime stopped: no memory during a minor collection

vars == <<heap, roots, ops, fatal>>

Chunk(h, start) == CHOOSE c \in ToSet(h.chunks) : c.start = start
Limit(h) == h.chunk + Chunk(h, h.chunk).size
ChunkNext(h, start) ==
  LET i == CHOOSE j \in DOMAIN h.chunks : h.chunks[j].start = start
  IN IF i = Len(h.chunks) THEN None ELSE h.chunks[i + 1].start
HeapStart(h) == h.chunks[1].start

IsYoung(v) == v < 0
InHeap(v) == v > 0

(* init_major_heap, then global_data is read: one block that holds another *)
InitHeap(gsize, gkeep, spare) ==
  LET Global == FirstChunk.start IN
  [global |-> Global,
   blk |-> (Global :> [wo |-> 1, color |-> "white", tag |-> "scan", f |-> <<Global + 2>>])
             @@ (Global + 2 :> [wo |-> 1, color |-> "white", tag |-> "scan", f |-> <<0>>])
             @@ (Global + 4 :> Free(FirstChunk.size - 5)),
   chunks |-> <<FirstChunk>>, spare |-> spare,
   fl |-> <<Global + 4>>, flPrev |-> FlHead, flMerge |-> FlHead, frag |-> None, behind |-> FALSE,
   phase |-> "idle", gray |-> <<>>, gsize |-> gsize, gkeep |-> gkeep, pure |-> TRUE,
   markHp |-> None, chunk |-> FirstChunk.start, sweepHp |-> FirstChunk.start,
   weak |-> <<>>, young |-> <<>>, refs |-> {}]

Init ==
  /\ \E n \in GraySizes, q \in Spares : \E k \in {0, n \div 2} : heap = InitHeap(n, k, q)
  /\ roots = [r \in Root |-> 0]
  /\ ops = 0 /\ fatal = FALSE

(***************************************************************************)
(* memory.c: expand_heap inserts a chunk in the list of chunks, by         *)
(* address; alloc_shr allocates in the major heap.  A heap with            *)
(* hp = None means that there is no memory.                                *)
(***************************************************************************)
expand_heap(h, wo) ==
  LET big == SelectSeq(h.spare, LAMBDA c : c.size >= Wh(wo))
  IN IF big = <<>> THEN [hp |-> None, h |-> h]
     ELSE LET c == Head(big)
              below == Len(SelectSeq(h.chunks, LAMBDA x : x.start < c.start))
          IN [hp |-> c.start,
              h |-> WithBlock([h EXCEPT !.spare = SelectSeq(@, LAMBDA x : x # c),
                                        !.chunks = InsertAt(@, below + 1, c)],
                              c.start, Free(c.size - 1))]

(* the heap and the header of a block of wo words, not coloured yet *)
Find(h, wo) ==
  LET Extended(more) == IF more.hp = None THEN more
                        ELSE fl_allocate(fl_add_block(more.h, more.hp), wo)
      Found(first) == IF first.hp # None THEN first ELSE Extended(expand_heap(h, wo))
  IN Found(fl_allocate(h, wo))

NewColor(h, hp) ==
  IF h.phase = "mark" \/ (h.phase = "sweep" /\ hp >= h.sweepHp)
  THEN "black" ELSE "white"

alloc_shr(h, wo, tag, f) ==
  LET Header(found) ==
        IF found.hp = None THEN found
        ELSE [hp |-> found.hp,
              h |-> WithBlock(found.h, found.hp,
                      [wo |-> wo, color |-> NewColor(h, found.hp), tag |-> tag, f |-> f])]
  IN Header(Find(h, wo))

(***************************************************************************)
(* major_gc.c: marking.                                                    *)
(***************************************************************************)
Paint(h, a, color) == [h EXCEPT !.blk[a].color = color]

(* realloc_gray_vals, when the table is full and cannot grow: part of it   *)
(* is dropped (all of it when realloc failed).                             *)
realloc_gray_vals(h) ==
  IF Len(h.gray) < h.gsize THEN h
  ELSE [h EXCEPT !.gray = SubSeq(@, 1, h.gkeep), !.pure = FALSE]

darken(h, v) ==
  IF InHeap(v) /\ h.blk[v].color = "white"
  THEN realloc_gray_vals([Paint(h, v, "gray") EXCEPT !.gray = Append(@, v)])
  ELSE h

DarkenAll(h, vs) == FoldLeft(darken, h, vs)

(* the fields that mark_slice follows *)
Children(b) == IF b.tag = "scan" THEN b.f ELSE <<>>

start_cycle(h, rs) ==
  [DarkenAll(h, <<h.global>> \o rs) EXCEPT !.phase = "mark", !.markHp = None]

(* Weak arrays that were not reached are dropped, the others forget the    *)
(* blocks that were not reached.                                           *)
update_weak_pointers(h) ==
  LET dead(a) == h.blk[a].color = "white"
      live == SelectSeq(h.weak, LAMBDA a : ~dead(a))
  IN [h EXCEPT !.weak = live,
        !.blk = [a \in DOMAIN @ |->
                   IF a \notin ToSet(live) THEN @[a]
                   ELSE [@[a] EXCEPT !.f = [i \in DOMAIN @ |->
                           IF InHeap(@[i]) /\ dead(@[i]) THEN 0 ELSE @[i]]]]]

(* one iteration of mark_slice *)
MarkGray(h) ==
  LET v == Last(h.gray)
  IN DarkenAll([Paint(h, v, "black") EXCEPT !.gray = Front(@)], Children(h.blk[v]))

MarkNextChunk(h) ==
  LET c == ChunkNext(h, h.chunk)
  IN IF c = None THEN [h EXCEPT !.markHp = None]
     ELSE [h EXCEPT !.chunk = c, !.markHp = c]

MarkScan(h) ==
  [h EXCEPT !.gray = IF h.blk[h.markHp].color = "gray" THEN Append(@, h.markHp) ELSE @,
            !.markHp = End(h, h.markHp)]

MarkDone(h) ==
  fl_init_merge([update_weak_pointers(h) EXCEPT
                   !.phase = "sweep", !.chunk = HeapStart(h), !.sweepHp = HeapStart(h)])

(* Mutation of mark_step: the heap is not scanned again after an overflow. *)
mark_stepOnce(h) ==
  CASE h.gray # <<>> -> MarkGray(h)
    [] OTHER -> MarkDone(h)

mark_step(h) ==
  CASE h.gray # <<>> -> MarkGray(h)
    [] h.gray = <<>> /\ h.markHp # None /\ h.markHp = Limit(h) -> MarkNextChunk(h)
    [] h.gray = <<>> /\ h.markHp # None /\ h.markHp # Limit(h) -> MarkScan(h)
    [] h.gray = <<>> /\ h.markHp = None /\ ~h.pure ->
         [h EXCEPT !.pure = TRUE, !.chunk = HeapStart(h), !.markHp = HeapStart(h)]
    [] OTHER -> MarkDone(h)

(* one iteration of sweep_slice *)
sweep_step(h) ==
  LET hp == h.sweepHp  c == ChunkNext(h, h.chunk)
  IN IF hp < Limit(h)
     THEN CASE h.blk[hp].color = "white" ->
                 LET Resume(m) == [m.h EXCEPT !.sweepHp = m.next]
                 IN Resume(fl_merge_block(h, hp))
            [] h.blk[hp].color = "blue" ->
                 [h EXCEPT !.flMerge = hp, !.sweepHp = End(h, hp)]
            [] OTHER -> [Paint(h, hp, "white") EXCEPT !.sweepHp = End(h, hp)]
     ELSE IF c = None THEN [h EXCEPT !.phase = "idle"]
     ELSE [h EXCEPT !.chunk = c, !.sweepHp = c]

slice_step(h) == IF h.phase = "mark" THEN mark_step(h) ELSE sweep_step(h)

Started(h, rs) == IF h.phase = "idle" THEN start_cycle(h, rs) ELSE h

major_collection_slice(h, rs) == slice_step(Started(h, rs))

RECURSIVE RunCycle(_)
RunCycle(h) == IF h.phase = "idle" THEN h ELSE RunCycle(slice_step(h))

finish_major_cycle(h, rs) == RunCycle(Started(h, rs))

(***************************************************************************)
(* minor_gc.c: oldify copies a young block and what it leads to into the   *)
(* major heap.  [h, v, ok]: the heap, the new value, and whether there was *)
(* memory.  A block that was copied holds its forward pointer.             *)
(***************************************************************************)
RECURSIVE oldify(_, _)
oldify(h, v) ==
  LET Field(acc, i) ==
        LET Set(o) == [acc EXCEPT !.h = [o.h EXCEPT !.blk[acc.v].f[i] = o.v], !.ok = o.ok]
        IN IF acc.ok THEN Set(oldify(acc.h, acc.h.blk[acc.v].f[i])) ELSE acc
      Copy(new, b) ==
        IF new.hp = None THEN [h |-> h, v |-> v, ok |-> FALSE]
        ELSE FoldLeft(Field, [h |-> [new.h EXCEPT !.young[-v].fwd = new.hp],
                              v |-> new.hp, ok |-> TRUE],
                      [i \in DOMAIN Children(b) |-> i])
      Forward(b) ==
        IF b.fwd # None THEN [h |-> h, v |-> b.fwd, ok |-> TRUE]
        ELSE Copy(alloc_shr(h, b.wo, b.tag, b.f), b)
  IN IF IsYoung(v) THEN Forward(h.young[-v]) ELSE [h |-> h, v |-> v, ok |-> TRUE]

RootSeq == SetToSeq(Root)

(* oldify_local_roots, then the fields of the major heap in the table of   *)
(* references; global_data is not among the roots.  [h, rs, ok].           *)
OldifyRoots(h, rs) ==
  LET Root1(acc, r) ==
        LET Set(o) == [h |-> o.h, rs |-> [acc.rs EXCEPT ![r] = o.v], ok |-> o.ok]
        IN IF acc.ok THEN Set(oldify(acc.h, acc.rs[r])) ELSE acc
  IN FoldLeft(Root1, [h |-> h, rs |-> rs, ok |-> TRUE], RootSeq)

OldifyRefs(s) ==
  LET Ref(acc, p) ==
        LET Set(o) == [acc EXCEPT !.h = [o.h EXCEPT !.blk[p[1]].f[p[2]] = o.v], !.ok = o.ok]
        IN IF acc.ok THEN Set(oldify(acc.h, acc.h.blk[p[1]].f[p[2]])) ELSE acc
  IN FoldLeft(Ref, s, SetToSeq(s.h.refs))

EmptyMinorHeap(h, rs) ==
  [OldifyRefs(OldifyRoots(h, rs)) EXCEPT !.h.young = <<>>, !.h.refs = {}]

Contents(rs) == [i \in DOMAIN RootSeq |-> rs[RootSeq[i]]]

(***************************************************************************)
(* compact.c: each block that something points to moves to the address     *)
(* compact_allocate gives it, in the order of the addresses; empty chunks  *)
(* may be given back, and the free-list is built again.  The pointers to a *)
(* block, which compact.c chains through its header, are a set here.       *)
(***************************************************************************)
Inverted(h) ==
  UNION {ToSet(h.blk[a].f) : a \in {x \in DOMAIN h.blk : h.blk[x].tag \in {"scan", "weak"}}}
Pointed(h, rs) == {h.global} \cup ToSet(rs) \cup ToSet(h.weak) \cup Inverted(h)

(* Chunk_alloc for each chunk, and where the blocks allocated so far went. *)
(* When the last chunk is nearly full the loop also reads the header of    *)
(* the chunk after it, at NULL; here it stops.                             *)
compact_allocate(s, a, wh) ==
  LET room(i) == s.h.chunks[i].size - s.used[i]
      fl == CHOOSE i \in s.fl..Len(s.h.chunks) :
              /\ \A j \in s.fl..(i - 1) : room(j) <= 4 /\ room(j + 1) <= 4
              /\ i = Len(s.h.chunks) \/ ~(room(i) <= 4 /\ room(i + 1) <= 4)
      c == CHOOSE i \in fl..Len(s.h.chunks) :
             room(i) >= wh /\ \A j \in fl..(i - 1) : room(j) < wh
  IN [s EXCEPT !.fl = fl, !.used[c] = @ + wh,
               !.to = (a :> (s.h.chunks[c].start + s.used[c])) @@ @]

(* The compacted heap and the new address of each block; kept is the set   *)
(* of empty chunks that percent_free asks to keep.                         *)
compact_heap(h, rs, kept) ==
  LET moved == SetToSortSeq(Pointed(h, rs) \cap DOMAIN h.blk, <)
      s == FoldLeft(LAMBDA acc, a : compact_allocate(acc, a, Wh(h.blk[a].wo)),
                    [h |-> h, fl |-> 1, used |-> [i \in DOMAIN h.chunks |-> 0], to |-> <<>>], moved)
      New(v) == IF InHeap(v) THEN s.to[v] ELSE v
      chunks == SelectSeq([i \in DOMAIN h.chunks |-> <<h.chunks[i], s.used[i]>>],
                          LAMBDA c : c[2] # 0 \/ c[1] \in kept \/ c[1] = h.chunks[1])
      blocks == [b \in {s.to[a] : a \in ToSet(moved)} |->
                   LET old == h.blk[CHOOSE a \in ToSet(moved) : s.to[a] = b]
                   IN [old EXCEPT !.f = [i \in DOMAIN @ |->
                         IF old.tag \in {"scan", "weak"} THEN New(@[i]) ELSE @[i]]]]
      Rebuild(acc, c) ==
        LET a == c[1].start + c[2]
        IN IF c[2] = c[1].size THEN acc
           ELSE fl_merge_block(WithBlock(acc, a, [Fragment EXCEPT !.wo = c[1].size - c[2] - 1]), a).h
  IN [to |-> [v \in ToSet(rs) |-> New(v)],
      h |-> FoldLeft(Rebuild,
              fl_reset([h EXCEPT !.blk = blocks, !.global = New(@), !.weak = [i \in DOMAIN @ |-> New(@[i])],
                                 !.chunks = [i \in DOMAIN chunks |-> chunks[i][1]],
                                 !.spare = @ \o SelectSeq(h.chunks, LAMBDA c : \A i \in DOMAIN chunks : c # chunks[i][1])]),
              chunks)]

(***************************************************************************)
(* The mutator.  Every operation may be preceded by a minor collection,    *)
(* which is an action of its own.                                          *)
(***************************************************************************)
Mutate == ~fatal /\ ops < MaxOps /\ ops' = ops + 1 /\ UNCHANGED fatal

Words(h) == FoldLeft(LAMBDA n, b : n + Wh(b.wo), 0, h.young)

(* Alloc_small, with the minor heap large enough; the fields are filled at *)
(* once, and not traced when the tag says so.                              *)
AllocSmall(r, wo, tag, v) ==
  /\ Mutate
  /\ Words(heap) + Wh(wo) <= YoungSize
  /\ heap' = [heap EXCEPT !.young =
                Append(@, [wo |-> wo, tag |-> tag, fwd |-> None,
                           f |-> [i \in 1..wo |-> IF tag = "scan" THEN v ELSE 0]])]
  /\ roots' = [roots EXCEPT ![r] = -(Len(heap.young) + 1)]

(* alloc_shr followed by initialize of every field, as in make_vect; no    *)
(* memory raises Out_of_memory.                                            *)
AllocShr(r, wo, v) ==
  /\ Mutate
  /\ LET new == alloc_shr(heap, wo, "scan", [i \in 1..wo |-> v])
     IN IF new.hp = None THEN UNCHANGED <<heap, roots>>
        ELSE /\ heap' = [new.h EXCEPT !.refs = @ \cup
                           (IF IsYoung(v) THEN {<<new.hp, i>> : i \in 1..wo} ELSE {})]
             /\ roots' = [roots EXCEPT ![r] = new.hp]

Block(h, v) == IF InHeap(v) THEN h.blk[v] ELSE h.young[-v]

(* Modify, on a block of the major heap.                                    *)
(* Mutations of Store: without the deletion barrier; a reference to a young *)
(* block is remembered only when the old value was a pointer.               *)
StoreNoDarken(h, a, i, v) ==
  LET h1 == [h EXCEPT !.blk[a].f[i] = v]
  IN IF IsYoung(v) THEN [h1 EXCEPT !.refs = @ \cup {<<a, i>>}] ELSE h1

StoreForgetful(h, a, i, v) ==
  LET old == h.blk[a].f[i]
      h1 == [h EXCEPT !.blk[a].f[i] = v]
      h2 == IF h.phase = "mark" THEN darken(h1, old) ELSE h1
  IN IF IsYoung(v) /\ InHeap(old) THEN [h2 EXCEPT !.refs = @ \cup {<<a, i>>}] ELSE h2

Store(h, a, i, v) ==
  LET old == h.blk[a].f[i]
      h1 == [h EXCEPT !.blk[a].f[i] = v]
      h2 == IF h.phase = "mark" THEN darken(h1, old) ELSE h1
  IN IF IsYoung(v) /\ ~IsYoung(old) THEN [h2 EXCEPT !.refs = @ \cup {<<a, i>>}] ELSE h2

Modify(b, i, v) ==
  /\ Mutate
  /\ b # 0 /\ Block(heap, b).tag = "scan" /\ i \in 1..Block(heap, b).wo
  /\ heap' = IF InHeap(b) THEN Store(heap, b, i, v)
             ELSE [heap EXCEPT !.young[-b].f[i] = v]
  /\ UNCHANGED roots

Load(r, b, i) ==
  /\ Mutate
  /\ b # 0 /\ Block(heap, b).tag = "scan" /\ i \in 1..Block(heap, b).wo
  /\ roots' = [roots EXCEPT ![r] = Block(heap, b).f[i]]
  /\ UNCHANGED heap

Drop(r) ==
  /\ Mutate /\ roots[r] # 0
  /\ roots' = [roots EXCEPT ![r] = 0]
  /\ UNCHANGED heap

(* weak.c.  A weak array has two words: the link of the list and one       *)
(* pointer, which is f[1] here.                                            *)
weak_create(r) ==
  /\ Mutate
  /\ LET new == alloc_shr(heap, 2, "weak", <<0>>)
     IN IF new.hp = None THEN UNCHANGED <<heap, roots>>
        ELSE /\ heap' = [new.h EXCEPT !.weak = <<new.hp>> \o @]
             /\ roots' = [roots EXCEPT ![r] = new.hp]

weak_set(r, v) ==
  /\ Mutate
  /\ InHeap(roots[r]) /\ heap.blk[roots[r]].tag = "weak"
  /\ heap' = Store([heap EXCEPT !.blk[roots[r]].f[1] = 0], roots[r], 1, v)
  /\ UNCHANGED roots

(* weak_get: the block found is darkened while marking; the option that    *)
(* holds it is left out.                                                   *)
Weak(h, v) == IF h.phase = "mark" THEN darken(h, v) ELSE h

weak_get(r) ==
  /\ Mutate
  /\ InHeap(roots[r]) /\ heap.blk[roots[r]].tag = "weak"
  /\ LET v == heap.blk[roots[r]].f[1]
     IN /\ heap' = Weak(heap, v)
        /\ roots' = [roots EXCEPT ![r] = v]

(***************************************************************************)
(* The collections.                                                        *)
(***************************************************************************)
(* minor_collection, called by an allocation or by a signal check *)
MinorCollection ==
  /\ ~fatal
  /\ \E s \in {EmptyMinorHeap(heap, roots)} :
       IF ~s.ok THEN fatal' = TRUE /\ UNCHANGED <<heap, roots>>
       ELSE /\ heap' = major_collection_slice(s.h, Contents(s.rs))
            /\ roots' = s.rs /\ UNCHANGED fatal
  /\ UNCHANGED ops

(* gc_compaction: minor_collection, two cycles to their end, compact_heap; *)
(* compact_heap_maybe compacts at the end of a cycle in the same way.      *)
Compaction ==
  /\ ~fatal /\ ops < MaxOps /\ ops' = ops + 1
  /\ \E s \in {EmptyMinorHeap(heap, roots)} :
       IF ~s.ok THEN fatal' = TRUE /\ UNCHANGED <<heap, roots>>
       ELSE \E rs \in {Contents(s.rs)} :
            \E h \in {finish_major_cycle(
                        finish_major_cycle(major_collection_slice(s.h, rs), rs), rs)} :
            \E kept \in SUBSET ToSet(h.chunks) :
            \E c \in {compact_heap(h, rs, kept)} :
              /\ heap' = c.h
              /\ roots' = [r \in Root |-> c.to[s.rs[r]]]
              /\ UNCHANGED fatal

Values == {0} \cup {roots[r] : r \in Root}

Mutator ==
  \E r \in Root :
    \/ \E wo \in Sizes, v \in Values :
         \/ \E tag \in {"scan", "noscan"} : AllocSmall(r, wo, tag, v)
         \/ AllocShr(r, wo, v)
    \/ \E b \in Values \cup {heap.global}, i \in 1..2 :
         Load(r, b, i) \/ \E v \in Values : Modify(b, i, v)
    \/ Drop(r)
    \/ weak_create(r) \/ weak_get(r)
    \/ \E v \in Values \ {0} : weak_set(r, v)

Next == Mutator \/ MinorCollection \/ Compaction

Spec == Init /\ [][Next]_vars

-----------------------------------------------------------------------------
(***************************************************************************)
(* Properties                                                              *)
(***************************************************************************)
Succ(v) == LET b == Block(heap, v) IN {x \in ToSet(Children(b)) : x # 0}

RECURSIVE ReachFrom(_, _)
ReachFrom(todo, seen) ==
  IF todo = {} THEN seen
  ELSE LET next == UNION {IF v > 0 /\ v \notin DOMAIN heap.blk THEN {} ELSE Succ(v) : v \in todo}
       IN ReachFrom(next \ (seen \cup todo), seen \cup todo)

Reachable == ReachFrom(({heap.global} \cup {roots[r] : r \in Root}) \ {0}, {})

(* What the mutator can reach is never given back to the free-list, moved  *)
(* without its pointers or cut: the barrier of Modify, the colour of new   *)
(* blocks, the table of references and the sweep work together.  What a    *)
(* weak array still points to is a block too.                              *)
NoLiveFreed ==
  ~fatal =>
    /\ \A v \in Reachable : InHeap(v) => v \in DOMAIN heap.blk /\ heap.blk[v].tag # "free"
    /\ \A i \in DOMAIN heap.weak :
         LET a == heap.weak[i] IN
         /\ a \in DOMAIN heap.blk /\ heap.blk[a].tag = "weak"
         /\ \A v \in ToSet(heap.blk[a].f) :
              InHeap(v) => v \in DOMAIN heap.blk /\ heap.blk[v].tag # "free"

(* A young block that the major heap points to is found by the next minor  *)
(* collection: the field is in the table of references.                    *)
RememberedSet ==
  \A a \in DOMAIN heap.blk : \A i \in DOMAIN heap.blk[a].f :
    IsYoung(heap.blk[a].f[i]) => <<a, i>> \in heap.refs

(* The comment of heap_is_pure: when the heap is pure, a gray block is in  *)
(* gray_vals or will be found by the scan at markhp, so that marking does  *)
(* not end with gray blocks.                                               *)
NoGrayLost ==
  \A a \in DOMAIN heap.blk : heap.blk[a].color = "gray" =>
    \/ a \in ToSet(heap.gray)
    \/ heap.phase = "mark" /\ (~heap.pure \/ (heap.markHp # None /\ heap.markHp <= a))

Tiled(c) ==
  LET inside == {a \in DOMAIN heap.blk : c.start <= a /\ a < c.start + c.size}
  IN /\ c.start \in inside
     /\ \A a \in inside : End(heap, a) \in inside \cup {c.start + c.size}
     /\ \A a, b \in inside : a < b => End(heap, a) <= b

(* fl_check and gc_stat: blocks fill the chunks, the free-list holds the   *)
(* free blocks, and fl_prev and fl_merge are in it, while the sweep, the   *)
(* allocations, the growth of the heap at either end and the compaction    *)
(* all modify the list.  The list is in the order of the addresses, and    *)
(* during a sweep fl_merge is the last block before gc_sweep_hp (the       *)
(* comment at freelist.c:266), as fl_merge_block needs - except after a    *)
(* chunk below gc_sweep_hp was added at the end of the list, where         *)
(* fl_add_block does not advance fl_merge (freelist.c:251-253).            *)
FreeListExact ==
  /\ ListExact(heap)
  /\ \A c \in ToSet(heap.chunks) : Tiled(c)
  /\ heap.behind \/ (InOrder(heap) /\ (heap.phase = "sweep" => MergePlace(heap)))

(* "The free-list is kept sorted by increasing addresses" (freelist.c:20). *)
FreeListSorted == InOrder(heap)
=============================================================================
