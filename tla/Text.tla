-------------------------------- MODULE Text --------------------------------
(***************************************************************************)
(* UTF-8, numbers and sorting in the kernel's C library (rune.c, utf*.c,   *)
(* strtoul.c, atol.c, qsort.c).  A string is a sequence of bytes without   *)
(* its final NUL; a pointer into it is an index, and the byte after the    *)
(* last one is 0.  A long has LongBits bits (32).                          *)
(***************************************************************************)
EXTENDS Integers, Sequences, FiniteSets

CONSTANT LongBits

UTFmax == 4
Runeself == 128
Runeerror == 65533
Runemax == 1114111
At(s, i) == IF i \in 1..Len(s) THEN s[i] ELSE 0

T(i) == 256 - 2^(8 - i)
RuneX(i) == 2^(7 - i + 6 * (i - 1)) - 1
Surrogates == 55296..57343
Continues(c) == c \in 128..191

(* the checks of chartorune on l, decoded from i + 1 bytes that start with c *)
BadRune(c, l, i) ==
  \/ i = 1 /\ (c < T(2) \/ l <= 127)
  \/ i > 1 /\ (l <= RuneX(i) \/ l > Runemax)
  \/ i = 2 /\ l \in Surrogates

Bad == [r |-> Runeerror, n |-> 1]
chartorune(s, p) ==
  LET c == At(s, p)
      From[i \in 1..UTFmax] ==        \* the value of the first i + 1 bytes
        IF i = UTFmax THEN Bad
        ELSE LET L[k \in 0..i] == IF k = 0 THEN c ELSE L[k - 1] * 64 + (At(s, p + k) % 64)
                 l == L[i] % (RuneX(i + 1) + 1)
             IN IF ~Continues(At(s, p + i)) THEN Bad
                ELSE IF c >= T(i + 2) THEN From[i + 1]
                ELSE IF BadRune(c, l, i) THEN Bad
                ELSE [r |-> l, n |-> i + 1]
  IN IF c < Runeself THEN [r |-> c, n |-> 1] ELSE From[1]

Encoded(c, i) == [j \in 1..i |-> IF j = 1 THEN T(i) + c \div 2^(6 * (i - 1)) ELSE 128 + ((c \div 2^(6 * (i - j))) % 64)]
Valid(c) == IF c > Runemax \/ c \in Surrogates THEN Runeerror ELSE c
runetochar(c) ==
  IF c < Runeself THEN <<c>>
  ELSE IF c <= RuneX(2) THEN Encoded(c, 2)
  ELSE IF Valid(c) <= RuneX(3) THEN Encoded(Valid(c), 3) ELSE Encoded(c, 4)
runelen(c) == Len(runetochar(c))
runenlen(r) ==
  LET Size(c) == IF c < Runeself THEN 1 ELSE IF c <= RuneX(2) THEN 2 ELSE IF c <= RuneX(3) THEN 3 ELSE 4
      Sum[i \in 0..Len(r)] == IF i = 0 THEN 0 ELSE Sum[i - 1] + Size(r[i])
  IN Sum[Len(r)]

(* whether the n bytes of s from p on hold a whole rune *)
fullrune(s, p, n) ==
  LET c == At(s, p)
  IN IF n <= 0 THEN FALSE
     ELSE IF c < Runeself THEN TRUE
     ELSE IF c < T(3) THEN n >= 2
     ELSE IF c < T(4) THEN n >= 3 ELSE n >= 4

(* the runes of s, what utflen counts and utfrune looks through *)
RunesOf(s) ==
  LET From[p \in 1..(Len(s) + UTFmax)] ==
        IF At(s, p) = 0 THEN <<>> ELSE <<[r |-> chartorune(s, p).r, p |-> p]>> \o From[p + chartorune(s, p).n]
  IN From[1]
utflen(s) == Len(RunesOf(s))
utfrune(s, c) ==
  LET at == IF c < Runeself THEN {p \in 1..Len(s) : s[p] = c}
            ELSE {RunesOf(s)[i].p : i \in {j \in DOMAIN RunesOf(s) : RunesOf(s)[j].r = c}}
  IN IF at = {} THEN 0 ELSE CHOOSE p \in at : \A q \in at : p <= q
(* a copy of from in n bytes, the NUL included *)
utfecpy(n, from) ==
  LET Cut[e \in 0..n] == IF e > 0 /\ Continues(from[e + 1]) THEN Cut[e - 1] ELSE e
  IN IF n <= 0 THEN <<>> ELSE IF Len(from) < n THEN from ELSE SubSeq(from, 1, Cut[n - 1])

-----------------------------------------------------------------------------
ULONG_MAX == 2^LongBits - 1
Word(n) == n % 2^LongBits
Signed(n) == IF n >= 2^(LongBits - 1) THEN n - 2^LongBits ELSE n
Space == {9, 10, 11, 12, 13, 32}
Digits == 48..57
DigitOf(c) == CASE c \in Digits -> c - 48 [] c \in 97..122 -> c - 87 [] c \in 65..90 -> c - 55 [] OTHER -> 36
IsX(c) == c \in {88, 120}

Skip(s, p, white) ==
  LET From[q \in p..(Len(s) + 1)] == IF At(s, q) \in white THEN From[q + 1] ELSE q IN From[p]

(* Mutation of Accumulate: only the product is checked. *)
AccumulateProduct(n, v, base, ovfl) ==
  [n |-> Word(n * base + v), ovfl |-> ovfl \/ n > ULONG_MAX \div base]
Accumulate(n, v, base, ovfl) ==
  LET nn == Word(n * base + v) IN [n |-> nn, ovfl |-> ovfl \/ n > ULONG_MAX \div base \/ nn < n]

strtoul(s, base0) ==
  LET blank == Skip(s, 1, Space)
      sign == At(s, blank) \in {43, 45}
      neg == At(s, blank) = 45
      p0 == IF sign THEN blank + 1 ELSE blank
      base == IF base0 # 0 THEN base0 ELSE IF At(s, p0) # 48 THEN 10 ELSE IF IsX(At(s, p0 + 1)) THEN 16 ELSE 8
      p1 == IF base = 16 /\ At(s, p0) = 48 /\ IsX(At(s, p0 + 1)) /\ DigitOf(At(s, p0 + 2)) < 16 THEN p0 + 2 ELSE p0
      From[q \in 1..(Len(s) + 1), n \in 0..ULONG_MAX, o \in BOOLEAN] ==
        IF DigitOf(At(s, q)) >= base THEN [p |-> q, n |-> n, ovfl |-> o]
        ELSE LET b == Accumulate(n, DigitOf(At(s, q)), base, o) IN From[q + 1, b.n, b.ovfl]
      end == From[p1, 0, FALSE]
  IN IF base < 2 \/ base > 36 THEN [n |-> 0, end |-> 1]
     ELSE [n |-> IF end.ovfl THEN ULONG_MAX ELSE IF neg THEN Word(-end.n) ELSE end.n,
           end |-> IF end.p = p1 THEN 1 ELSE end.p]

atol(s) ==
  LET blank == Skip(s, 1, {9, 32})
      sign == At(s, blank) \in {43, 45}
      p == IF sign THEN Skip(s, blank + 1, {9, 32}) ELSE blank
      octal == At(s, p) = 48 /\ At(s, p + 1) # 0
      hex == octal /\ IsX(At(s, p + 1))
      base == IF hex THEN 16 ELSE IF octal THEN 8 ELSE 10
      From[q \in 1..(Len(s) + 3), n \in 0..ULONG_MAX] ==
        IF DigitOf(At(s, q)) >= base THEN n ELSE From[q + 1, Word(n * base + DigitOf(At(s, q)))]
      n == From[IF hex THEN p + 2 ELSE p, 0]
  IN Signed(IF At(s, blank) = 45 THEN Word(-n) ELSE n)

-----------------------------------------------------------------------------
(* qsort on a sequence of records compared by their keys *)
cmp(x, y) == x.key - y.key
Swap(s, i, j) == [s EXCEPT ![i] = s[j], ![j] = s[i]]
pivot(s, a, n) ==
  LET j == n \div 6
      i == a + j
      m == i + 2 * j
      k == m + 2 * j
  IN IF cmp(s[i], s[m]) < 0
       THEN IF cmp(s[i], s[k]) < 0 THEN (IF cmp(s[m], s[k]) < 0 THEN m ELSE k) ELSE i
       ELSE IF cmp(s[m], s[k]) < 0 THEN (IF cmp(s[i], s[k]) < 0 THEN i ELSE k) ELSE m

(* the scans of one round: the next pi and pj *)
ScanUp(s, a, n, i) == LET Up[p \in i..(a + n)] == IF p < a + n /\ cmp(s[p], s[a]) < 0 THEN Up[p + 1] ELSE p IN Up[i]
ScanDown(s, a, j) == LET Down[p \in a..j] == IF p > a /\ cmp(s[p], s[a]) > 0 THEN Down[p - 1] ELSE p IN Down[j]

RECURSIVE Partition(_, _, _, _, _), qsorts(_, _, _)
Partition(s, a, n, i, j) ==
  LET pi == ScanUp(s, a, n, i + 1)
      pj == ScanDown(s, a, j - 1)
  IN IF pj < pi THEN [s |-> Swap(s, a, pj), j |-> pj - a] ELSE Partition(Swap(s, pi, pj), a, n, pi, pj)
qsorts(s, a, n) ==
  IF n <= 1 THEN s
  ELSE LET c == Partition(Swap(s, a, IF n > 10 THEN pivot(s, a, n) ELSE a + n \div 2), a, n, a, a + n)
           m == n - c.j - 1
       IN IF c.j >= m THEN qsorts(qsorts(c.s, a, c.j), a + c.j + 1, m)
                      ELSE qsorts(qsorts(c.s, a + c.j + 1, m), a, c.j)
qsort(s) == qsorts(s, 1, Len(s))

-----------------------------------------------------------------------------
(* Every rune decodes to itself, and every string decodes to runes whose    *)
(* encoding is the string, byte for byte, except where it has an error.     *)
RuneRoundTrip(c) ==
  /\ chartorune(runetochar(c), 1) = [r |-> Valid(c), n |-> runelen(c)]
  /\ c = Valid(c) => runenlen(<<c>>) = runelen(c)
  /\ \A n \in 0..4 : fullrune(runetochar(c), 1, n) <=> n >= runelen(c)
DecodeExact(s) ==
  LET d == chartorune(s, 1)
  IN /\ d.n > 1 => runetochar(d.r) = SubSeq(s, 1, d.n)
     /\ \A n \in 1..Len(s) : fullrune(s, 1, n) => chartorune(SubSeq(s, 1, n), 1) = d
     /\ \A n \in 1..(Len(s) + 1) : utfecpy(n, s) = SubSeq(s, 1, Len(utfecpy(n, s))) /\ Len(utfecpy(n, s)) < n
     /\ At(s, 1) # 0 => utfrune(s, d.r) = 1

(* the digits of s from p on, as a number that does not wrap *)
Number(s, p, base) ==
  LET N[q \in p..(Len(s) + 1), n \in Nat] == IF DigitOf(At(s, q)) >= base THEN n ELSE N[q + 1, n * base + DigitOf(At(s, q))]
  IN N[p, 0]
StrtoulExact(s, base) ==
  LET p == Skip(s, 1, Space)
      q == IF At(s, p) \in {43, 45} THEN p + 1 ELSE p
      hex == At(s, q) = 48 /\ IsX(At(s, q + 1)) /\ DigitOf(At(s, q + 2)) < 16
      b == IF base # 0 THEN base ELSE IF At(s, q) = 48 /\ IsX(At(s, q + 1)) THEN 16 ELSE IF At(s, q) = 48 THEN 8 ELSE 10
      n == Number(s, IF b = 16 /\ hex THEN q + 2 ELSE q, b)
  IN /\ strtoul(s, base).n = IF n > ULONG_MAX THEN ULONG_MAX ELSE IF At(s, p) = 45 THEN Word(-n) ELSE n
     /\ base = 0 /\ n <= ULONG_MAX /\ At(s, p) # 10 /\ At(s, q) \notin Space => atol(s) = Signed(strtoul(s, 0).n)

Sorted(s) == \A i \in 1..(Len(s) - 1) : s[i].key <= s[i + 1].key
SortExact(s) == Sorted(qsort(s)) /\ {qsort(s)[i] : i \in DOMAIN s} = {s[i] : i \in DOMAIN s} /\ Len(qsort(s)) = Len(s)
=============================================================================
