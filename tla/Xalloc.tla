------------------------------- MODULE Xalloc -------------------------------
(***************************************************************************)
(* The coarse kernel allocator (src/kernel/Port/xalloc.c).  A state x is a *)
(* record:                                                                 *)
(*   holes  the sorted list of holes [addr, size]                          *)
(*   hdr    the allocated pieces: address of the Xhdr -> size              *)
(*   leaked bytes lost because no slot of the hole table was left          *)
(* Addresses and sizes count 8-byte units, so a vlong and an Xhdr are one  *)
(* unit each; Nhole is the number of slots.                                *)
(***************************************************************************)
EXTENDS Integers, Sequences, SequencesExt, FiniteSetsExt

CONSTANT Nhole

ASSUME NholeAssumption == Nhole \in Nat \ {0}

XhdrSize == 1
XNil == -1

Slots(x) == Nhole - Len(x.holes)

(***************************************************************************)
(* xhole: give [addr, addr + size) back.  It extends the hole that ends    *)
(* there, which may then reach the next one, or the hole that starts at    *)
(* its end, or it takes a slot.                                            *)
(***************************************************************************)
(* Mutation of xhole: the extended hole is not joined to the next one. *)
xholeNoJoin(x, addr, size) ==
  LET Ending == {i \in DOMAIN x.holes : x.holes[i].addr + x.holes[i].size = addr}
      below == Cardinality({i \in DOMAIN x.holes : x.holes[i].addr <= addr})
  IN IF Ending # {} THEN [x EXCEPT !.holes[Max(Ending)].size = @ + size]
     ELSE IF Slots(x) = 0 THEN [x EXCEPT !.leaked = @ + size]
     ELSE [x EXCEPT !.holes = InsertAt(@, below + 1, [addr |-> addr, size |-> size])]

xhole(x, addr, size) ==
  LET h == x.holes
      Ending == {i \in DOMAIN h : h[i].addr + h[i].size = addr /\ h[i].addr <= addr}
      below == Cardinality({i \in DOMAIN h : h[i].addr <= addr})
      Follows(i) == i + 1 \in DOMAIN h /\ h[i + 1].addr = addr + size
      Extend(i) ==
        IF Follows(i)
        THEN [x EXCEPT !.holes = RemoveAt([@ EXCEPT ![i].size = @ + size + h[i + 1].size], i + 1)]
        ELSE [x EXCEPT !.holes[i].size = @ + size]
  IN CASE size = 0 -> x
       [] size # 0 /\ Ending # {} -> Extend(Min(Ending))
       [] size # 0 /\ Ending = {} /\ Follows(below) ->
            [x EXCEPT !.holes[below + 1] = [addr |-> addr, size |-> @.size + size]]
       [] OTHER ->
            IF Slots(x) = 0 THEN [x EXCEPT !.leaked = @ + size]
            ELSE [x EXCEPT !.holes = InsertAt(@, below + 1, [addr |-> addr, size |-> size])]

(***************************************************************************)
(* xallocz: first fit, from the bottom of the hole; an empty hole gives    *)
(* its slot back.  [x, v]: the state and the data, XNil when there is no   *)
(* hole.                                                                   *)
(***************************************************************************)
XSize(size) == size + 1 + XhdrSize

xallocz(x, size) ==
  LET fits == {i \in DOMAIN x.holes : x.holes[i].size >= XSize(size)}
      Take(i, h) ==
        [v |-> h.addr + XhdrSize,
         x |-> [x EXCEPT !.hdr = [a \in DOMAIN @ \cup {h.addr} |->
                                    IF a = h.addr THEN XSize(size) ELSE @[a]],
                         !.holes = IF h.size = XSize(size) THEN RemoveAt(@, i)
                                   ELSE [@ EXCEPT ![i] = [addr |-> h.addr + XSize(size),
                                                          size |-> h.size - XSize(size)]]]]
  IN IF fits = {} THEN [v |-> XNil, x |-> x] ELSE Take(Min(fits), x.holes[Min(fits)])

xfree(x, v) ==
  LET a == v - XhdrSize
  IN xhole([x EXCEPT !.hdr = [b \in DOMAIN @ \ {a} |-> @[b]]], a, x.hdr[a])

(* xspanalloc: what is before and after the span is given back at once.    *)
(* The Xhdr and the slack unit at the end stay allocated, and nobody can   *)
(* free the piece again.                                                   *)
RoundDown(a, n) == (a \div n) * n

xspanalloc(x, size, align, span) ==
  LET Aligned(v) == IF align > 1 THEN RoundDown(v + align, align) ELSE v
      Keep(y, v, a) ==
        [y EXCEPT !.hdr = [b \in DOMAIN @ \cup {v, a + size + align + span} |->
                             IF b = v THEN size + align
                             ELSE IF b \in {a - XhdrSize, a + size + align + span} THEN 1
                             ELSE @[b]]]
      Trim(r, v) == [v |-> Aligned(v),
                     x |-> Keep(xhole(xhole(r.x, r.v, v - r.v), v + size + align, r.v + span - v),
                                v, r.v)]
      Span(r) == IF r.v = XNil THEN r
                 ELSE IF span > 2 THEN Trim(r, RoundDown(r.v + span, span))
                 ELSE [r EXCEPT !.v = Aligned(@)]
  IN Span(xallocz(x, size + align + span))

(* xmerge: the second piece starts where the first one ends. *)
Mergeable(x, vp, vq) ==
  LET p == vp - XhdrSize IN p + x.hdr[p] = vq - XhdrSize

xmerge(x, vp, vq) ==
  LET p == vp - XhdrSize  q == vq - XhdrSize
  IN [x EXCEPT !.hdr = [a \in DOMAIN @ \ {q} |-> IF a = p THEN @[a] + @[q] ELSE @[a]]]

(* The holes are sorted, apart from each other and within their slots. *)
HolesSorted(x) ==
  /\ Len(x.holes) <= Nhole
  /\ \A i \in DOMAIN x.holes : x.holes[i].size > 0
  /\ \A i \in 1..(Len(x.holes) - 1) : x.holes[i].addr + x.holes[i].size < x.holes[i + 1].addr
=============================================================================
