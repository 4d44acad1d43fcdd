-------------------------------- MODULE Pool --------------------------------
(***************************************************************************)
(* The pool allocator (src/kernel/Libc/port/pool.c) over xalloc, as the    *)
(* kernel instantiates it (Port/pool.c) and wraps it (Port/alloc.c).  Each *)
(* operation runs under the pool's lock (plock, punlock), so it is one     *)
(* step.  Sizes and addresses count 8-byte units, the size of a Bhdr and   *)
(* of a Btail.  A pool p is a record:                                      *)
(*   blk     the blocks: address -> [size, magic, slack], where slack is   *)
(*           the datasize of the tail, size minus the user's size          *)
(*   tail    address after a block -> the size its tail records            *)
(*   tree    the free tree, a node is [size, list, l, r]                   *)
(*   arenas  addresses of the arenas, in decreasing order                  *)
(*   mem     what each unit of memory holds: Junk, Align or user data      *)
(*   x       the state of xalloc                                           *)
(* move is nil in the kernel's pools: poolcompactl always answers 0.       *)
(***************************************************************************)
EXTENDS Xalloc, TLC

CONSTANTS
  Memory,      \* the units of memory: addresses 0 .. Memory - 1
  MaxSize,     \* maxsize of the pool
  MinArena,    \* minarena
  Quantum,     \* quantum
  SlackLimit,  \* 0x10000: what the two bytes of datasize cannot hold
  SkipLimit,   \* 0x1000: a front part that large is always given back
  Ids,         \* the callers' objects, positive numbers
  DataSizes,   \* sizes the callers ask for
  Alignments,  \* [align, offset, span] of mallocalign
  MaxOps       \* bound: operations

ASSUME PoolAssumption ==
  /\ Quantum >= 1 /\ SkipLimit >= 4 /\ SlackLimit >= Quantum + 5

VARIABLES
  pool,   \* the pool
  live,   \* id -> [v, n, align, offset, span, by] for an allocated object
  ops     \* operations done

vars == <<pool, live, ops>>

BhdrSize == 1
BtailSize == 1
ArenaSize == 3
MINBLOCKSIZE == 4
Npad == 1                 \* Npadlong words
Junk == <<0, 0>>          \* user data is <<id, index>>
ALIGN_MAGIC == <<0, 1>>
Nil == -1

Put(f, k, v) == [a \in DOMAIN f \cup {k} |-> IF a = k THEN v ELSE f[a]]
Del(f, k) == [a \in DOMAIN f \ {k} |-> f[a]]
Scribble(p, units) == [p EXCEPT !.mem = [a \in DOMAIN @ |-> IF a \in units THEN Junk ELSE @[a]]]

RoundUp(n, q) == ((n + q - 1) \div q) * q
dsize2bsize(n) == RoundUp(Max({n + BhdrSize + BtailSize, MINBLOCKSIZE}), Quantum)
bsize2asize(n) == RoundDown(Max({n + ArenaSize + BtailSize, MinArena}) + Quantum, Quantum)

B2NB(p, b) == b + p.blk[b].size
B2D(b) == b + BhdrSize
getdsize(p, b) == p.blk[b].size - p.blk[b].slack
Magic(p, b) == IF b \in DOMAIN p.blk THEN p.blk[b].magic ELSE "none"
IsFree(p, b) == Magic(p, b) = "free"
(* T2HDR(B2PT(b)) *)
Before(p, b) == b - p.tail[b]

(***************************************************************************)
(* The free tree: a binary tree by size of lists of blocks of that size.   *)
(***************************************************************************)
Empty == [size |-> 0]

RECURSIVE treeadd(_, _, _)
treeadd(t, size, b) ==
  CASE t = Empty -> [size |-> size, list |-> <<b>>, l |-> Empty, r |-> Empty]
    [] t # Empty /\ size = t.size -> [t EXCEPT !.list = Append(@, b)]       \* listadd
    [] t # Empty /\ size < t.size -> [t EXCEPT !.l = treeadd(@, size, b)]
    [] OTHER -> [t EXCEPT !.r = treeadd(@, size, b)]

(* the leftmost node, and the tree without it *)
RECURSIVE Leftmost(_)
Leftmost(t) == IF t.l = Empty THEN t ELSE Leftmost(t.l)
RECURSIVE WithoutLeftmost(_)
WithoutLeftmost(t) == IF t.l = Empty THEN t.r ELSE [t EXCEPT !.l = WithoutLeftmost(@)]

treedelete(t) ==
  CASE t.l = Empty -> t.r
    [] t.l # Empty /\ t.r = Empty -> t.l
    [] OTHER -> [Leftmost(t.r) EXCEPT !.l = t.l, !.r = WithoutLeftmost(t.r)]

(* listdelete, and treedelete when the list becomes empty *)
RECURSIVE treedel(_, _, _)
treedel(t, size, b) ==
  CASE size = t.size ->
         IF t.list = <<b>> THEN treedelete(t)
         ELSE [t EXCEPT !.list = SelectSeq(@, LAMBDA a : a # b)]
    [] size < t.size -> [t EXCEPT !.l = treedel(@, size, b)]
    [] OTHER -> [t EXCEPT !.r = treedel(@, size, b)]

RECURSIVE treelookupgt(_, _, _)
treelookupgt(t, size, lastgood) ==
  CASE t = Empty -> lastgood
    [] t # Empty /\ size = t.size -> Head(t.list)
    [] t # Empty /\ size < t.size -> treelookupgt(t.l, size, Head(t.list))
    [] OTHER -> treelookupgt(t.r, size, lastgood)

pooladd(p, b) ==
  Scribble([p EXCEPT !.blk[b].magic = "free", !.tree = treeadd(@, p.blk[b].size, b),
                     !.curfree = @ + p.blk[b].size], {b, b + 1, b + 2})

pooldel(p, b) ==
  Scribble([p EXCEPT !.blk[b].magic = "unalloc", !.tree = treedel(@, p.blk[b].size, b),
                     !.curfree = @ - p.blk[b].size], {b, b + 1, b + 2})

(***************************************************************************)
(* Blocks.                                                                 *)
(***************************************************************************)
(* A block that takes the size n; its tail is written. *)
blocksetsize(p, b, n) ==
  Scribble([p EXCEPT !.blk = Put(@, b, [size |-> n, magic |-> "unalloc", slack |-> 0]),
                     !.tail = Put(@, b + n, n)], {b, b + n - 1})

(* Mutation of Undo: a free block that is merged stays in the tree. *)
UndoNot(p, b) == p

Undo(p, b) == IF IsFree(p, b) THEN pooldel(p, b) ELSE p

(* blockmerge: a and b are adjacent. *)
(* Mutation of blockmerge: the tail of the result keeps the size of b. *)
JoinOldTail(p, a, b) ==
  Scribble([p EXCEPT !.blk = Put(Del(@, b), a,
                         [size |-> p.blk[a].size + p.blk[b].size, magic |-> "unalloc", slack |-> 0]),
                     !.tail = Del(@, b)], {b, b - 1, a})

Join(p, a, b) ==
  LET n == p.blk[a].size + p.blk[b].size
  IN Scribble([p EXCEPT !.blk = Put(Del(@, b), a, [size |-> n, magic |-> "unalloc", slack |-> 0]),
                        !.tail = Put(Del(@, b), a + n, n)], {b, b - 1, a, a + n - 1})

blockmerge(p, a, b) == Join(Undo(Undo(p, a), b), a, b)

(* the slack is kept in two bytes *)
blocksetdsize(p, b, dsize) ==
  [p EXCEPT !.blk[b].slack = (p.blk[b].size - dsize) % SlackLimit]

(* trim: keep what dsize needs, the rest becomes a free block. *)
Splits(size, dsize, bsize) ==
  \/ size - dsize >= SlackLimit
  \/ size - bsize >= bsize \div 4 /\ size - bsize >= MINBLOCKSIZE

trim(p, b, dsize) ==
  LET bsize == dsize2bsize(dsize)  size == p.blk[b].size
      Allocated(q) == blocksetdsize([q EXCEPT !.blk[b].magic = "alloc"], b, dsize)
  IN Allocated(IF Splits(size, dsize, bsize)
               THEN pooladd(blocksetsize(blocksetsize(p, b, bsize), b + bsize, size - bsize), b + bsize)
               ELSE p)

(* freefromfront: [p, b], the block that starts after the part given back *)
freefromfront(p, b, wanted) ==
  LET skip == RoundDown(wanted, Quantum)  size == p.blk[b].size
  IN IF skip >= SkipLimit \/ (skip >= size \div 4 /\ skip >= MINBLOCKSIZE)
     THEN [b |-> b + skip,
           p |-> pooladd(blocksetsize(blocksetsize(p, b + skip, size - skip), b, skip), b)]
     ELSE [b |-> b, p |-> p]

(***************************************************************************)
(* Arenas.  The first block follows the header, whose tail says 3; the     *)
(* last one ends where the tail of the arena starts.                       *)
(***************************************************************************)
A2B(a) == a + ArenaSize
A2TB(p, a) == a + p.blk[a].asize - BhdrSize

(* the bottom arena takes the top one; the block at its end takes the gap *)
blockgrow(p, b, nsize) ==
  LET Merged(q) == IF IsFree(q, b + nsize) THEN blockmerge(q, b, b + nsize) ELSE q
  IN IF IsFree(p, b) THEN pooladd(Merged(blocksetsize(pooldel(p, b), b, nsize)), b)
     ELSE trim(blocksetsize(p, b, nsize), b, getdsize(p, b))

arenamerge(p, bot, top) ==
  LET last == Before(p, A2TB(p, bot))
      Drop(q) == [q EXCEPT !.arenas = SelectSeq(@, LAMBDA a : a # top),
                           !.x = xmerge(@, bot, top),
                           !.tail = Del(Del(@, A2TB(p, bot)), A2B(top)),
                           !.blk = Put(Del(@, top), bot,
                                       [@[bot] EXCEPT !.asize = top - bot + p.blk[top].asize])]
  IN IF Mergeable(p.x, bot, top) THEN blockgrow(Drop(p), last, A2B(top) - last) ELSE p

(* poolnewarena: sort the new arena into the list, merge it with the one   *)
(* above and then with the one below.                                      *)
poolnewarena(p, asize) ==
  LET Header(q, a) ==
        Scribble([q EXCEPT !.cursize = @ + asize,
                           !.blk = Put(@, a, [size |-> ArenaSize, magic |-> "arena", asize |-> asize]),
                           !.tail = Put(@, A2B(a), ArenaSize),
                           !.arenas = SortSeq(Append(@, a), >)], a..(a + asize - 1))
      Filled(q, a) == pooladd(blocksetsize(q, A2B(a), asize - ArenaSize - BhdrSize), A2B(a))
      Index(q, a) == CHOOSE i \in DOMAIN q.arenas : q.arenas[i] = a
      MergeUp(q, i) == IF i > 1 THEN arenamerge(q, q.arenas[i], q.arenas[i - 1]) ELSE q
      MergeDown(q, i) == IF i < Len(q.arenas) THEN arenamerge(q, q.arenas[i + 1], q.arenas[i]) ELSE q
      Placed(q, a) == LET Up(r) == MergeDown(r, Index(r, a)) IN Up(MergeUp(q, Index(q, a)))
      New(r) == IF r.v = XNil THEN p
                ELSE Placed(Filled(Header([p EXCEPT !.x = r.x], r.v), r.v), r.v)
  IN IF p.cursize + asize > MaxSize THEN p ELSE New(xallocz(p.x, asize))

(***************************************************************************)
(* The operations.  [p, v]: the pool and the result, Nil for nil.          *)
(***************************************************************************)
poolallocl(p, dsize) ==
  LET Take(q, b) ==
        IF b = Nil THEN [p |-> q, v |-> Nil]
        ELSE LET Count(r) == [p |-> [r EXCEPT !.curalloc = @ + r.blk[b].size], v |-> B2D(b)]
             IN Count(trim(pooldel(q, b), b, dsize))
      Find(q) == treelookupgt(q.tree, dsize2bsize(dsize), Nil)
      Retry(q) == Take(q, Find(q))
      First(b) == IF b # Nil THEN Take(p, b)
                  ELSE Retry(poolnewarena(p, bsize2asize(dsize2bsize(dsize))))
  IN First(Find(p))

(* D2B: skip the marks that mallocalign left before v *)
D2B(p, v) ==
  LET k == CHOOSE i \in 0..v : p.mem[v - i - 1] # ALIGN_MAGIC
                                /\ \A j \in 0..(i - 1) : p.mem[v - j - 1] = ALIGN_MAGIC
  IN v - k - BhdrSize

Coalesce(p, b) ==
  LET Fwd(q, a) == IF IsFree(q, B2NB(q, a)) THEN <<blockmerge(q, a, B2NB(q, a)), a>> ELSE <<q, a>>
      Back(q, a) == IF IsFree(q, a) THEN Fwd(blockmerge(q, a, b), a) ELSE Fwd(q, b)
  IN Back(p, Before(p, b))

poolfreel(p, v) ==
  LET Add(c) == pooladd(c[1], c[2])
      Block(b) == Add(Coalesce([p EXCEPT !.nfree = @ + 1, !.curalloc = @ - p.blk[b].size], b))
  IN Block(D2B(p, v))

memmove(p, to, from, n) ==
  [p EXCEPT !.mem = [a \in DOMAIN @ |-> IF a \in to..(to + n - 1) THEN p.mem[from + a - to] ELSE @[a]]]

(* Returnblock: the data moves to the start of the block, which is trimmed *)
(* Mutation of Returnblock: the block is trimmed before the data moves.    *)
ReturnblockLate(p, b, v, odsize, obsize, ndsize) ==
  LET Moved(q) == IF v # B2D(b) THEN memmove(q, B2D(b), v, odsize) ELSE q
      Count(q) == [p |-> [q EXCEPT !.curalloc = @ - obsize + q.blk[b].size], v |-> B2D(b)]
  IN Count(Moved(trim(p, b, ndsize)))

Returnblock(p, b, v, odsize, obsize, ndsize) ==
  LET Moved == IF v # B2D(b) THEN memmove(p, B2D(b), v, odsize) ELSE p
      Count(q) == [p |-> [q EXCEPT !.curalloc = @ - obsize + q.blk[b].size], v |-> B2D(b)]
  IN Count(trim(Moved, b, ndsize))

poolreallocl(p, v, ndsize) ==
  LET a == D2B(p, v)
      size == p.blk[a].size  odsize == getdsize(p, a)  need == dsize2bsize(ndsize)
      left == Before(p, a)  right == B2NB(p, a)
      FreeSize(b) == IF IsFree(p, b) THEN p.blk[b].size ELSE 0
      Ret(q, b) == Returnblock(q, b, v, odsize, size, ndsize)
      MergeLeft(q, l, new) == IF l = new \/ IsFree(q, l) THEN blockmerge(q, l, a) ELSE q
      MergeRight(q, b, r, new) == IF r = new \/ IsFree(q, r) THEN blockmerge(q, b, r) ELSE q
      Near(q, l, r, new) ==
        LET b == IF l = new \/ IsFree(q, l) THEN l ELSE a
        IN Ret(MergeRight(MergeLeft(q, l, new), b, r, new), b)
      Beside(q, nv, l, r) ==
        IF nv - BhdrSize \in {l, r} THEN Near(q, l, r, nv - BhdrSize)
        ELSE [p |-> poolfreel(memmove(q, nv, v, odsize), v), v |-> nv]
      Elsewhere(n) == IF n.v = Nil THEN n ELSE Beside(n.p, n.v, Before(n.p, a), B2NB(n.p, a))
  IN CASE need <= size -> Ret(p, a)
       [] need > size /\ IsFree(p, right) /\ size + FreeSize(right) >= need ->
            Ret(blockmerge(p, a, right), a)
       [] need > size + FreeSize(right) /\ IsFree(p, left) /\ FreeSize(left) + size >= need ->
            Ret(blockmerge(p, left, a), left)
       [] /\ need > size + FreeSize(right) /\ need > size + FreeSize(left)
          /\ IsFree(p, left) /\ IsFree(p, right)
          /\ FreeSize(left) + size + FreeSize(right) >= need ->
            Ret(blockmerge(blockmerge(p, left, a), left, right), left)
       [] OTHER -> Elsewhere(poolallocl(p, ndsize))

(* poolallocalignl: the front is given back or marked. *)
alignptr(c, align, offset) ==
  IF align = 0 THEN c
  ELSE LET off == c % align
       IN IF off = offset THEN c ELSE c + offset - off + (IF off > offset THEN align ELSE 0)

Crosses(c, n, span) == span # 0 /\ c \div span # (c + n - 1) \div span

poolallocalignl(p, dsize, align, anyoffset, span) ==
  LET offset == IF align = 0 THEN anyoffset
                ELSE IF anyoffset < 0 THEN align - ((-anyoffset) % align) ELSE anyoffset % align
      asize == dsize + align
      Place(q, v, c, f) ==
        [v |-> c,
         p |-> trim([f.p EXCEPT !.mem = [u \in DOMAIN @ |->
                       IF u \in B2D(f.b)..(c - 1) THEN ALIGN_MAGIC ELSE @[u]]],
                    f.b, c - B2D(f.b) + dsize)]
      Fit(q, v, c) == IF Crosses(c, dsize, span) THEN [p |-> poolfreel(q, v), v |-> Nil]
                      ELSE Place(q, v, c, freefromfront(q, v - BhdrSize, c - v))
      Skip(c) == IF Crosses(c, dsize, span) THEN alignptr(c + span - (c % span), align, offset) ELSE c
      Aligned(r) == IF r.v = Nil THEN r ELSE Fit(r.p, r.v, Skip(alignptr(r.v, align, offset)))
      First(r) == IF r.v # Nil /\ span # 0 /\ r.v \div span # (r.v + asize) \div span
                  THEN poolallocl(poolfreel(r.p, r.v), 2 * asize) ELSE r
  IN Aligned(First(poolallocl(p, asize)))

(* poolmsize: the caller may use the whole block. *)
msizeof(p, b) == RoundDown(p.blk[b].size, Quantum) - BhdrSize - BtailSize
poolmsize(p, v) ==
  LET b == D2B(p, v) IN [p |-> blocksetdsize(p, b, msizeof(p, b)), n |-> msizeof(p, b)]

(***************************************************************************)
(* The kernel's wrappers and the callers, which write what they own.  A    *)
(* caller's pointer is Npad units after the pool's.                        *)
(***************************************************************************)
Step == ops < MaxOps /\ ops' = ops + 1

(* ids are given in order *)
Fresh(id) == id \notin DOMAIN live /\ \A j \in Ids : j < id => j \in DOMAIN live

Write(p, id, v, n) ==
  [p EXCEPT !.mem = [a \in DOMAIN @ |-> IF a \in v..(v + n - 1) THEN <<id, a - v>> ELSE @[a]]]

Own(by, v, n, al) ==
  [by |-> by, v |-> v, n |-> n, align |-> al.align, offset |-> al.offset, span |-> al.span]
NoAlign == [align |-> 0, offset |-> 0, span |-> 0]

(* malloc, mallocz; smalloc sleeps and tries again instead of failing. *)
malloc(id, n) ==
  /\ Step /\ Fresh(id)
  /\ \E r \in {poolallocl(pool, n + Npad)} :
       IF r.v = Nil THEN pool' = r.p /\ UNCHANGED live
       ELSE /\ pool' = Write(r.p, id, r.v + Npad, n)
            /\ live' = Put(live, id, Own("pool", r.v + Npad, n, NoAlign))

mallocalign(id, n, al) ==
  /\ Step /\ Fresh(id)
  /\ \E r \in {poolallocalignl(pool, n + Npad, al.align, al.offset - Npad, al.span)} :
       IF r.v = Nil THEN pool' = r.p /\ UNCHANGED live
       ELSE /\ pool' = Write(r.p, id, r.v + Npad, n)
            /\ live' = Put(live, id, Own("pool", r.v + Npad, n, al))

free(id) ==
  /\ Step /\ id \in DOMAIN live
  /\ pool' = poolfreel(pool, live[id].v - Npad)
  /\ live' = Del(live, id)

(* realloc; what a larger object gains is written by its owner afterwards. *)
(* Size 0 is poolfreel.                                                    *)
Kept(l, n) == Min({l.n, n})
Intact(p, id, v, n) == \A k \in 0..(n - 1) : p.mem[v + k] = <<id, k>>

realloc(id, n) ==
  /\ Step /\ id \in DOMAIN live
  /\ \E r \in {poolreallocl(pool, live[id].v - Npad, n + Npad)} :
       IF r.v = Nil THEN pool' = r.p /\ UNCHANGED live
       ELSE /\ pool' = IF Intact(r.p, id, r.v + Npad, Kept(live[id], n))
                       THEN Write(r.p, id, r.v + Npad, n) ELSE r.p
            /\ live' = [live EXCEPT ![id] = Own("pool", r.v + Npad, n, NoAlign)]

(* msize, not on what mallocalign returned: poolmsize also counts the part *)
(* of the block that mallocalign skipped.                                  *)
msize(id) ==
  /\ Step /\ id \in DOMAIN live /\ live[id].align = 0
  /\ \E r \in {poolmsize(pool, live[id].v - Npad)} :
       /\ pool' = Write(r.p, id, live[id].v, r.n - Npad)
       /\ live' = [live EXCEPT ![id].n = r.n - Npad]

(* The rest of the kernel calls xalloc, xfree and xspanalloc itself. *)
OtherXalloc(id, n) ==
  /\ Step /\ Fresh(id)
  /\ \E r \in {xallocz(pool.x, n)} :
       /\ r.v # XNil
       /\ pool' = Write([pool EXCEPT !.x = r.x], id, r.v, n)
       /\ live' = Put(live, id, Own("xalloc", r.v, n, NoAlign))

OtherXfree(id) ==
  /\ Step /\ id \in DOMAIN live /\ live[id].by = "xalloc"
  /\ pool' = [pool EXCEPT !.x = xfree(@, live[id].v)]
  /\ live' = Del(live, id)

(* xspanalloc panics when there is no memory; its callers ask for no more  *)
(* than a span.                                                            *)
OtherXspanalloc(id, n, al) ==
  /\ Step /\ Fresh(id) /\ (al.span = 0 \/ n + al.align <= al.span)
  /\ \E r \in {xspanalloc(pool.x, n, al.align, al.span)} :
       /\ r.v # XNil
       /\ pool' = Write([pool EXCEPT !.x = r.x], id, r.v, n)
       /\ live' = Put(live, id, Own("span", r.v, n, [al EXCEPT !.offset = 0]))

InPool(id) == id \in DOMAIN live /\ live[id].by = "pool"

Init ==
  /\ pool = [blk |-> <<>>, tail |-> <<>>, tree |-> Empty, arenas |-> <<>>,
             mem |-> [a \in 0..(Memory - 1) |-> Junk], curfree |-> 0, curalloc |-> 0,
             cursize |-> 0, nfree |-> 0,
             x |-> [holes |-> <<[addr |-> 0, size |-> Memory]>>, hdr |-> <<>>, leaked |-> 0]]
  /\ live = <<>> /\ ops = 0

Next ==
  \E id \in Ids :
    \/ \E n \in DataSizes : malloc(id, n) \/ OtherXalloc(id, n)
    \/ \E n \in DataSizes, al \in Alignments :
         mallocalign(id, n, al) \/ OtherXspanalloc(id, n, al)
    \/ InPool(id) /\ free(id)
    \/ InPool(id) /\ msize(id)
    \/ \E n \in DataSizes : InPool(id) /\ realloc(id, n)
    \/ OtherXfree(id)

Spec == Init /\ [][Next]_vars

-----------------------------------------------------------------------------
(***************************************************************************)
(* Properties                                                              *)
(***************************************************************************)
RECURSIVE TreeBlocks(_)
TreeBlocks(t) == IF t = Empty THEN <<>> ELSE TreeBlocks(t.l) \o t.list \o TreeBlocks(t.r)

(* checktree and curfree: the tree holds every free block once, in the     *)
(* order of the sizes, and curfree is what they add up to.                 *)
FreeTreeExact ==
  \E s \in {TreeBlocks(pool.tree)} :
    /\ {s[i] : i \in DOMAIN s} = {b \in DOMAIN pool.blk : pool.blk[b].magic = "free"}
    /\ \A i, j \in DOMAIN s : i < j => s[i] # s[j] /\ pool.blk[s[i]].size <= pool.blk[s[j]].size
    /\ pool.curfree = FoldLeft(LAMBDA n, b : n + pool.blk[b].size, 0, s)

(* poolcheckarena: the blocks of an arena follow each other from its       *)
(* header to its tail, each large enough to be freed, and every tail leads *)
(* back to its header, whatever was merged, split or grown.                *)
ArenasTiled ==
  \A i \in DOMAIN pool.arenas :
    LET a == pool.arenas[i]  end == A2TB(pool, a)
        inside == {b \in DOMAIN pool.blk : A2B(a) <= b /\ b < end}
    IN /\ A2B(a) \in inside
       /\ \A b \in inside :
            /\ pool.blk[b].magic \in {"free", "alloc"}
            /\ pool.blk[b].size >= MINBLOCKSIZE
            /\ B2NB(pool, b) \in inside \cup {end}
            /\ Before(pool, B2NB(pool, b)) = b
       /\ \A b, c \in inside : b < c => B2NB(pool, b) <= c

(* Whatever other callers did, what the owner of an object wrote is still  *)
(* there, after realloc too, and a mallocalign has the asked alignment.    *)
DataIntact ==
  \A id \in DOMAIN live :
    LET l == live[id]
    IN /\ Intact(pool, id, l.v, l.n)
       /\ l.align > 0 => l.v % l.align = l.offset % l.align
       /\ (l.align > 0 /\ l.span > 0) => l.v \div l.span = (l.v + l.n - 1) \div l.span

(* xalloc neither loses memory nor gives it twice: the holes, the pieces   *)
(* and what was leaked for want of slots add up to the memory, and no two  *)
(* of them overlap.                                                        *)
XallocExact ==
  LET x == pool.x
      parts == {<<x.holes[i].addr, x.holes[i].size>> : i \in DOMAIN x.holes}
                 \cup {<<a, x.hdr[a]>> : a \in DOMAIN x.hdr}
  IN /\ HolesSorted(x)
     /\ FoldSet(LAMBDA q, n : n + q[2], x.leaked, parts) = Memory
     /\ \A q, r \in parts : q[1] < r[1] => q[1] + q[2] <= r[1]
=============================================================================
