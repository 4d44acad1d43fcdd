------------------------------ MODULE Marshal -------------------------------
(***************************************************************************)
(* Marshalling of values by the byte-code runtime (extern.c, intern.c).    *)
(*                                                                         *)
(* A value is [k, n, o]: an integer n, a pointer to block n, a pointer at  *)
(* offset o of closure n, an atom of tag n, a code pointer n or a pointer  *)
(* outside the heap.  A heap maps addresses, in words, to blocks           *)
(* [tag, f, bytes]; f are the fields of a structured block, bytes the      *)
(* contents of a string or of floats.  Bytes are those of the real format, *)
(* on a little-endian machine of 32 bits.                                  *)
(***************************************************************************)
EXTENDS Integers, Sequences, FiniteSets

CONSTANTS
  INITIAL_EXTERN_TABLE_SIZE,
  INITIAL_EXTERN_BLOCK_SIZE,
  INITIAL_OFFSET_MAX

Object_tag == 248
Infix_tag == 249
Closure_tag == 250
Abstract_tag == 251
String_tag == 252
Double_tag == 253
Double_array_tag == 254
Final_tag == 255

Value(k, n) == [k |-> k, n |-> n, o |-> 0]
Wosize(b) ==
  CASE b.tag = String_tag -> (Len(b.bytes) + 4) \div 4
    [] b.tag \in {Double_tag, Double_array_tag} -> Len(b.bytes) \div 4
    [] OTHER -> Len(b.f)

PREFIX_SMALL_BLOCK == 128
PREFIX_SMALL_INT == 64
PREFIX_SMALL_STRING == 32
Code == [INT8 |-> 0, INT16 |-> 1, INT32 |-> 2, INT64 |-> 3, SHARED8 |-> 4, SHARED16 |-> 5, SHARED32 |-> 6,
         BLOCK32 |-> 8, STRING8 |-> 9, STRING32 |-> 10, DOUBLE |-> 12, DOUBLE_ARRAY8 |-> 14, DOUBLE_ARRAY32 |-> 7,
         CODEPOINTER |-> 16, INFIXPOINTER |-> 17]
Intext_magic_number == <<132, 149, 166, 190>>
code_checksum == [i \in 1..16 |-> 7]

(* the n low bytes of x, the highest first *)
BytesOf(x, n) == [i \in 1..n |-> (x \div 2^(8 * (n - i))) % 256]

-----------------------------------------------------------------------------
(* The globals of extern.c: the table of objects seen, kept from one call   *)
(* to the next, and the output block.  failed is the exception raised.      *)
NoTable == <<>>
Init_extern == [table |-> NoTable, size |-> 0, initial_ofs |-> 1, obj_counter |-> 0,
                out |-> <<>>, limit |-> 0, malloced |-> FALSE, size_32 |-> 0, size_64 |-> 0, failed |-> ""]
EmptyTable(n) == [h \in 0..(n - 1) |-> [ofs |-> 0, obj |-> Value("none", 0)]]
Hash(v, size) == (v.n + v.o) % size

(* the slot of v, or the free slot where the probe for it ends *)
Probe(table, size, initial, v) ==
  LET At[i \in 0..size] ==
        LET h == (Hash(v, size) + i) % size
        IN IF table[h].ofs < initial \/ table[h].obj = v \/ i = size THEN h ELSE At[i + 1]
  IN At[0]

resize_extern_table(s) ==
  LET new == 2 * s.size
      Copied[i \in 0..s.size] ==
        IF i = 0 THEN EmptyTable(new)
        ELSE LET e == s.table[i - 1]
             IN IF e.ofs < s.initial_ofs THEN Copied[i - 1]
                ELSE [Copied[i - 1] EXCEPT ![Probe(Copied[i - 1], new, s.initial_ofs, e.obj)] = e]
  IN [s EXCEPT !.size = new, !.table = Copied[s.size]]

free_extern_table(s) ==
  IF s.size > INITIAL_EXTERN_TABLE_SIZE \/ s.initial_ofs >= INITIAL_OFFSET_MAX
    THEN [s EXCEPT !.table = NoTable] ELSE s

(* Mutation of Raise: the offset still names the objects of the failed call. *)
RaiseKeepOffset(s, msg) == [free_extern_table(s) EXCEPT !.failed = msg]

Raise(s, msg) == [free_extern_table([s EXCEPT !.initial_ofs = @ + s.obj_counter]) EXCEPT !.failed = msg]

resize_extern_block(s, required) ==
  LET Enough[size \in Nat] == IF size <= Len(s.out) + required THEN Enough[2 * size] ELSE size
  IN IF s.malloced THEN [s EXCEPT !.limit = Enough[s.limit]] ELSE Raise(s, "buffer overflow")

(* Write, writeblock, writecode8, writecode16, write32, writecode32 *)
Write(s, bytes) ==
  LET t == IF Len(s.out) + Len(bytes) > s.limit THEN resize_extern_block(s, Len(bytes)) ELSE s
  IN IF s.failed # "" \/ t.failed # "" THEN t ELSE [t EXCEPT !.out = @ \o bytes]
writecode8(s, code, x) == Write(s, <<code>> \o BytesOf(x, 1))
writecode16(s, code, x) == Write(s, <<code>> \o BytesOf(x, 2))
writecode32(s, code, x) == Write(s, <<code>> \o BytesOf(x, 4))

ExternInt(s, n) ==
  IF n \in 0..63 THEN Write(s, <<PREFIX_SMALL_INT + n>>)
  ELSE IF n \in (-128)..127 THEN writecode8(s, Code.INT8, n)
  ELSE IF n \in (-32768)..32767 THEN writecode16(s, Code.INT16, n)
  ELSE writecode32(s, Code.INT32, n)

ExternShared(s, d) ==
  IF d < 256 THEN writecode8(s, Code.SHARED8, d)
  ELSE IF d < 65536 THEN writecode16(s, Code.SHARED16, d)
  ELSE writecode32(s, Code.SHARED32, d)

AddSize(s, n32, n64) == [s EXCEPT !.size_32 = @ + n32, !.size_64 = @ + n64]
Header(tag, size) == size * 1024 + tag

RECURSIVE extern_rec(_, _, _, _), ExternFields(_, _, _, _, _)
ExternFields(s, heap, f, i, fl) ==
  IF i > Len(f) \/ s.failed # "" THEN s ELSE ExternFields(extern_rec(s, heap, f[i], fl), heap, f, i + 1, fl)

ExternBlock(s, heap, v, b, fl) ==
  LET len == Len(b.bytes)
      sz == Wosize(b)
  IN CASE v.k = "infix" ->
            extern_rec(writecode32(s, Code.INFIXPOINTER, 4 * v.o), heap, Value("ptr", v.n), fl)
       [] b.tag = String_tag ->
            AddSize(Write(IF len < 32 THEN Write(s, <<PREFIX_SMALL_STRING + len>>)
                          ELSE IF len < 256 THEN writecode8(s, Code.STRING8, len)
                          ELSE writecode32(s, Code.STRING32, len), b.bytes),
                    1 + (len + 4) \div 4, 1 + (len + 8) \div 8)
       [] b.tag = Double_tag -> AddSize(Write(Write(s, <<Code.DOUBLE>>), b.bytes), 3, 2)
       [] b.tag = Double_array_tag ->
            AddSize(Write(IF len \div 8 < 256 THEN writecode8(s, Code.DOUBLE_ARRAY8, len \div 8)
                          ELSE writecode32(s, Code.DOUBLE_ARRAY32, len \div 8), b.bytes),
                    1 + len \div 4, 1 + len \div 8)
       [] b.tag \in {Abstract_tag, Final_tag} -> Raise(s, "abstract value")
       [] b.tag = Object_tag -> Raise(s, "object value")
       [] OTHER ->
            ExternFields(AddSize(IF b.tag < 16 /\ sz < 8 THEN Write(s, <<PREFIX_SMALL_BLOCK + b.tag + 16 * sz>>)
                                 ELSE writecode32(s, Code.BLOCK32, Header(b.tag, sz)), 1 + sz, 1 + sz),
                         heap, b.f, 1, fl)

ExternSeen(s, heap, v, fl) ==
  LET t == IF 2 * s.obj_counter >= s.size THEN resize_extern_table(s) ELSE s
      h == Probe(t.table, t.size, t.initial_ofs, v)
  IN IF t.table[h].ofs >= t.initial_ofs
       THEN ExternShared(t, t.obj_counter - (t.table[h].ofs - t.initial_ofs))
       ELSE ExternBlock([t EXCEPT !.table[h] = [ofs |-> t.initial_ofs + t.obj_counter, obj |-> v], !.obj_counter = @ + 1],
                        heap, v, heap[v.n], fl)

extern_rec(s, heap, v, fl) ==
  CASE s.failed # "" -> s
    [] v.k = "int" -> ExternInt(s, v.n)
    [] v.k = "atom" -> IF v.n < 16 THEN Write(s, <<PREFIX_SMALL_BLOCK + v.n>>) ELSE writecode32(s, Code.BLOCK32, v.n)
    [] v.k \in {"ptr", "infix"} ->
         IF "NO_SHARING" \in fl THEN ExternBlock(s, heap, v, heap[v.n], fl) ELSE ExternSeen(s, heap, v, fl)
    [] v.k = "code" -> IF "CLOSURES" \in fl
                         THEN Write(writecode32(s, Code.CODEPOINTER, v.n), code_checksum)
                         ELSE Raise(s, "functional value")
    [] OTHER -> Raise(s, "abstract value")

(* The sizes are written over the room left for them after the magic number. *)
WriteSizes(s) ==
  [s EXCEPT !.out = Intext_magic_number \o BytesOf(Len(@) - 20, 4) \o BytesOf(s.obj_counter, 4)
                      \o BytesOf(s.size_32, 4) \o BytesOf(s.size_64, 4) \o SubSeq(@, 21, Len(@))]

extern_value(s, heap, v, fl) ==
  LET start == [s EXCEPT !.size = INITIAL_EXTERN_TABLE_SIZE, !.obj_counter = 0, !.size_32 = 0, !.size_64 = 0,
                         !.table = IF @ = NoTable THEN EmptyTable(INITIAL_EXTERN_TABLE_SIZE) ELSE @,
                         !.initial_ofs = IF s.table = NoTable THEN 1 ELSE @]
      LeaveRoom(magic) == IF magic.failed # "" THEN magic ELSE [magic EXCEPT !.out = @ \o [i \in 1..16 |-> 0]]
      Finish(done) == IF done.failed # "" THEN done
                      ELSE WriteSizes(free_extern_table([done EXCEPT !.initial_ofs = @ + done.obj_counter]))
  IN Finish(extern_rec(LeaveRoom(Write(start, Intext_magic_number)), heap, v, fl))

output_value_to_string(s, heap, v, fl) ==
  extern_value([s EXCEPT !.out = <<>>, !.limit = INITIAL_EXTERN_BLOCK_SIZE, !.malloced = TRUE, !.failed = ""], heap, v, fl)
output_value_to_buffer(s, heap, v, fl, len) ==
  extern_value([s EXCEPT !.out = <<>>, !.limit = len, !.malloced = FALSE, !.failed = ""], heap, v, fl)

-----------------------------------------------------------------------------
(* The globals of intern.c.  dest is the address of the next header; the    *)
(* result is in v.  Writing past the block or the table of objects, or      *)
(* reading an entry of it that is not there, is the failure "overrun".      *)
Signed(b) == IF b >= 128 THEN b - 256 ELSE b
Unsigned32(src, p) == ((src[p] * 256 + src[p + 1]) * 256 + src[p + 2]) * 256 + src[p + 3]
Signed32(src, p) == ((Signed(src[p]) * 256 + src[p + 1]) * 256 + src[p + 2]) * 256 + src[p + 3]

intern_alloc(whsize, num_objects) ==
  [pos |-> 21, dest |-> 0, whsize |-> whsize, heap |-> <<>>, table |-> <<>>,
   num_objects |-> IF whsize = 0 THEN 0 ELSE num_objects, v |-> Value("none", 0), failed |-> ""]

NewObject(s, b) ==
  LET n == 1 + Wosize(b)
      v == Value("ptr", s.dest + 1)
      seen == s.num_objects > 0
  IN IF s.dest + n > s.whsize \/ (seen /\ Len(s.table) = s.num_objects) THEN [s EXCEPT !.failed = "overrun"]
     ELSE [s EXCEPT !.dest = @ + n, !.v = v, !.table = IF seen THEN Append(@, v) ELSE @,
                    !.heap = [a \in DOMAIN @ \cup {s.dest + 1} |-> IF a = s.dest + 1 THEN b ELSE @[a]]]

RECURSIVE intern_rec(_, _), InternFields(_, _, _, _, _)
InternFields(s, src, a, i, n) ==
  IF i > n \/ s.failed # "" THEN [s EXCEPT !.v = Value("ptr", a)]
  ELSE LET t == intern_rec(s, src)
       IN InternFields(IF t.failed # "" THEN t ELSE [t EXCEPT !.heap[a].f[i] = t.v], src, a, i + 1, n)

ReadInt(s, n, len) == [s EXCEPT !.v = Value("int", n), !.pos = @ + len]
ReadBlock(s, src, tag, size, len) ==
  LET t == NewObject([s EXCEPT !.pos = @ + len], [tag |-> tag, f |-> [i \in 1..size |-> Value("int", 0)], bytes |-> <<>>])
  IN IF size = 0 THEN [s EXCEPT !.pos = @ + len, !.v = Value("atom", tag)]
     ELSE IF t.failed # "" THEN t ELSE InternFields(t, src, s.dest + 1, 1, size)
ReadBytes(s, src, tag, n, len) ==
  NewObject([s EXCEPT !.pos = @ + len + n],
            [tag |-> tag, f |-> <<>>, bytes |-> SubSeq(src, s.pos + len, s.pos + len + n - 1)])
ReadShared(s, d, len) ==
  IF d \in 1..Len(s.table) THEN [s EXCEPT !.pos = @ + len, !.v = s.table[Len(s.table) - d + 1]]
                           ELSE [s EXCEPT !.failed = "overrun"]
InfixOf(s, ofs) == IF s.failed # "" THEN s ELSE [s EXCEPT !.v = [k |-> "infix", n |-> s.v.n, o |-> ofs \div 4]]

intern_rec(s, src) ==
  LET p == s.pos
      code == src[p]
      u8 == src[p + 1]
      u16 == 256 * src[p + 1] + src[p + 2]
      u32 == Unsigned32(src, p + 1)
  IN CASE code >= PREFIX_SMALL_BLOCK -> ReadBlock(s, src, code % 16, (code \div 16) % 8, 1)
       [] code \in PREFIX_SMALL_INT..127 -> ReadInt(s, code % 64, 1)
       [] code \in PREFIX_SMALL_STRING..63 -> ReadBytes(s, src, String_tag, code % 32, 1)
       [] code = Code.INT8 -> ReadInt(s, Signed(u8), 2)
       [] code = Code.INT16 -> ReadInt(s, Signed(src[p + 1]) * 256 + src[p + 2], 3)
       [] code = Code.INT32 -> ReadInt(s, Signed32(src, p + 1), 5)
       [] code = Code.INT64 -> [s EXCEPT !.failed = "integer too large"]
       [] code = Code.SHARED8 -> ReadShared(s, u8, 2)
       [] code = Code.SHARED16 -> ReadShared(s, u16, 3)
       [] code = Code.SHARED32 -> ReadShared(s, u32, 5)
       [] code = Code.BLOCK32 -> ReadBlock(s, src, u32 % 256, u32 \div 1024, 5)
       [] code = Code.STRING8 -> ReadBytes(s, src, String_tag, u8, 2)
       [] code = Code.STRING32 -> ReadBytes(s, src, String_tag, u32, 5)
       [] code = Code.DOUBLE -> ReadBytes(s, src, Double_tag, 8, 1)
       [] code \in {Code.DOUBLE_ARRAY8, Code.DOUBLE_ARRAY32} -> [s EXCEPT !.failed = "cannot read float array"]
       [] code = Code.CODEPOINTER ->
            IF SubSeq(src, p + 5, p + 20) = code_checksum
              THEN [s EXCEPT !.pos = @ + 21, !.v = Value("code", u32)]
              ELSE [s EXCEPT !.failed = "code mismatch"]
       [] code = Code.INFIXPOINTER -> InfixOf(intern_rec([s EXCEPT !.pos = @ + 5], src), u32)
       [] OTHER -> [s EXCEPT !.failed = "ill-formed message"]

marshal_data_size(src) == Unsigned32(src, 5)
input_value_from_string(src) ==
  intern_rec(intern_alloc(Unsigned32(src, 13), Unsigned32(src, 9)), src)
input_value(src) ==
  CASE SubSeq(src, 1, 4) # Intext_magic_number -> [failed |-> "bad object"]
    [] Len(src) < 20 + marshal_data_size(src) -> [failed |-> "truncated object"]
    [] OTHER -> input_value_from_string(src)

-----------------------------------------------------------------------------
(* What marshalling should do *)
IsPointer(v) == v.k \in {"ptr", "infix"}
Fields(heap, a) == {heap[a].f[i] : i \in DOMAIN heap[a].f}
Reached(heap, v) ==
  LET Grow[n \in 0..Cardinality(DOMAIN heap)] ==
        IF n = 0 THEN IF IsPointer(v) THEN {v.n} ELSE {}
        ELSE Grow[n - 1] \cup {w.n : w \in {x \in UNION {Fields(heap, a) : a \in Grow[n - 1]} : IsPointer(x)}}
  IN Grow[Cardinality(DOMAIN heap)]
Values(heap, v) == {v} \cup UNION {Fields(heap, a) : a \in Reached(heap, v)}
TagsOf(heap, v) == {heap[a].tag : a \in Reached(heap, v)}

(* the same value with block a renamed f[a] *)
Renamed(f, v) == IF IsPointer(v) THEN [v EXCEPT !.n = f[v.n]] ELSE v
SameBlock(f, b, c) == c = [b EXCEPT !.f = [i \in DOMAIN @ |-> Renamed(f, @[i])]]
Isomorphic(h1, v1, h2, v2) ==
  \E f \in [Reached(h1, v1) -> Reached(h2, v2)] :
    /\ {f[a] : a \in DOMAIN f} = Reached(h2, v2) /\ Cardinality(DOMAIN f) = Cardinality(Reached(h2, v2))
    /\ v2 = Renamed(f, v1)
    /\ \A a \in DOMAIN f : SameBlock(f, h1[a], h2[f[a]])

(* the tree below v, to a given depth *)
RECURSIVE Tree(_, _, _)
Tree(heap, v, depth) ==
  IF ~IsPointer(v) \/ depth = 0 THEN <<v.k, IF IsPointer(v) THEN 0 ELSE v.n>>
  ELSE <<v.k, v.o, heap[v.n].tag, heap[v.n].bytes, [i \in DOMAIN heap[v.n].f |-> Tree(heap, heap[v.n].f[i], depth - 1)]>>

Writable(heap, v, fl) ==
  /\ TagsOf(heap, v) \cap {Abstract_tag, Final_tag, Object_tag} = {}
  /\ \A w \in Values(heap, v) : w.k # "out" /\ (w.k = "code" => "CLOSURES" \in fl)
Readable(heap, v) == Double_array_tag \notin TagsOf(heap, v)

(* extern_rec counts a pointer inside a closure as an object and intern_rec *)
(* does not: what is shared after one refers to the wrong object.           *)
References(heap, v) ==
  {<<0, 0>>} \cup UNION {{a} \X {i \in DOMAIN heap[a].f : IsPointer(heap[a].f[i])} : a \in Reached(heap, v)}
ShiftsTable(heap, v, fl) ==
  /\ "NO_SHARING" \notin fl /\ \E w \in Values(heap, v) : w.k = "infix"
  /\ Cardinality(References(heap, v)) > Cardinality(Reached(heap, v))

RECURSIVE SumSize(_, _)
SumSize(heap, A) == IF A = {} THEN 0 ELSE LET a == CHOOSE a \in A : TRUE IN 1 + Wosize(heap[a]) + SumSize(heap, A \ {a})

(* s is what extern_value left for v. *)
RoundTrip(s, heap, v, fl) ==
  LET ReadAs(t) ==
        IF ShiftsTable(heap, v, fl) THEN TRUE
        ELSE IF ~Readable(heap, v) THEN t.failed = "cannot read float array"
        ELSE /\ t.failed = "" /\ t.pos = Len(s.out) + 1 /\ t.dest = t.whsize
             /\ marshal_data_size(s.out) = Len(s.out) - 20
             /\ IF "NO_SHARING" \in fl THEN Tree(heap, v, 6) = Tree(t.heap, t.v, 6)
                ELSE /\ Isomorphic(heap, v, t.heap, t.v)
                     /\ s.obj_counter = Cardinality(Reached(heap, v)) + Cardinality({w \in Values(heap, v) : w.k = "infix"})
                     /\ s.size_32 = SumSize(heap, Reached(heap, v))
  IN ReadAs(input_value(s.out))
=============================================================================
