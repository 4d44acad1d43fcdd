--------------------------------- MODULE Fmt ---------------------------------
(***************************************************************************)
(* Formatted output in the kernel's C library (dofmt.c, fmt.c, fmtquote.c, *)
(* fmtdef.h and the vsnprint family).                                      *)
(*                                                                         *)
(* f is the structure Fmt: out are the cells written to the buffer, of     *)
(* room stop; written what flush has sent to the file descriptor; flags a  *)
(* set.  A cell is a byte, or a rune when f.runes.  ret is what the last   *)
(* function returned: negative when the output is full.  An argument is    *)
(* an integer or a string, given as <<n>> or as its bytes.                 *)
(***************************************************************************)
EXTENDS Text, TLC

CONSTANTS
  Maxintwidth,      \* digits an integer may take in _ifmt's buffer
  VlongBits,        \* bits of a vlong, a short and a char
  ShortBits,
  CharBits

Cells(f, c) == IF f.runes THEN <<c>> ELSE runetochar(c)

fmtflush(f, len) ==
  IF ~f.flush THEN [f EXCEPT !.stop = Len(f.out), !.ret = -1]
  ELSE IF len > f.stop THEN [f EXCEPT !.written = @ \o f.out, !.out = <<>>, !.stop = 0, !.ret = -1]
  ELSE [f EXCEPT !.written = @ \o f.out, !.out = <<>>]

(* FMTCHAR, FMTRCHAR, FMTRUNE: cells that must not be separated *)
PutCells(f, cells) ==
  LET g == IF Len(f.out) + Len(cells) > f.stop THEN fmtflush(f, Len(cells)) ELSE f
  IN IF f.ret < 0 \/ g.ret < 0 THEN g ELSE [g EXCEPT !.out = @ \o cells, !.nfmt = @ + Len(cells)]
PutRune(f, c) == PutCells(f, Cells(f, c))

fmtpad(f, n) ==
  LET Pad[i \in 0..n] == IF i = 0 THEN f ELSE PutRune(Pad[i - 1], 32) IN IF n <= 0 THEN f ELSE Pad[n]

PutRunes(f, r) ==
  LET Put[i \in 0..Len(r)] == IF i = 0 THEN f ELSE PutRune(Put[i - 1], r[i]) IN Put[Len(r)]

(* n runes padded to the width *)
Justify(f, n, r) ==
  IF "Left" \in f.flags THEN fmtpad(PutRunes(f, r), f.width - n) ELSE PutRunes(fmtpad(f, f.width - n), r)
Precision(f, n) == IF "Prec" \in f.flags /\ n > f.prec THEN f.prec ELSE n
Prefix(r, n) == SubSeq(r, 1, IF n < Len(r) THEN n ELSE Len(r))

(* the first n runes of m; an incomplete one at the end is left out *)
Decode(m, n) ==
  LET From[p \in 1..(Len(m) + 1), k \in 0..n] ==
        IF k = 0 \/ p > Len(m) \/ ~(At(m, p) < Runeself \/ Len(m) - p + 1 >= UTFmax \/ fullrune(m, p, Len(m) - p + 1))
          THEN <<>>
          ELSE <<chartorune(m, p).r>> \o From[p + chartorune(m, p).n, k - 1]
  IN From[1, n]
CopyBytes(f, m, n) == Justify(f, n, Decode(m, n))
CopyRunes(f, r, n) == Justify(f, n, Prefix(r, n))
fmtcpy(f, m, n) == CopyBytes(f, m, Precision(f, n))
fmtrcpy(f, r) == CopyRunes(f, r, Precision(f, Len(r)))

Arg(f) == Head(f.args)
Took(f) == [f EXCEPT !.args = Tail(@)]

charfmt(f) == fmtcpy([Took(f) EXCEPT !.prec = 1], <<Arg(f)[1] % 256>>, 1)
runefmt(f) == fmtrcpy(Took(f), Arg(f))
(* the bytes of the first n runes of s *)
FirstRunes(s, runes, n) == IF n < Len(runes) THEN SubSeq(s, 1, runes[n + 1].p - 1) ELSE s
fmtstrcpy(f, s) == CopyBytes(f, FirstRunes(s, RunesOf(s), Precision(f, utflen(s))), Precision(f, utflen(s)))
strfmt(f) == fmtstrcpy(Took(f), Arg(f))
runesfmt(f) == fmtrcpy(Took(f), Arg(f))
percentfmt(f) == fmtrcpy([f EXCEPT !.prec = 1], <<f.r>>)
badfmt(f) == [fmtrcpy([f EXCEPT !.prec = 3], <<37, f.r, 37>>) EXCEPT !.ret = 0]

-----------------------------------------------------------------------------
Narrow(n, bits) == IF n % 2^bits >= 2^(bits - 1) THEN (n % 2^bits) - 2^bits ELSE n % 2^bits
Width(fl) ==
  CASE "VLong" \in fl -> VlongBits
    [] "VLong" \notin fl /\ "Long" \in fl -> LongBits
    [] "Long" \notin fl /\ "Byte" \in fl -> CharBits
    [] fl \cap {"Long", "Byte"} = {} /\ "Short" \in fl -> ShortBits
    [] OTHER -> LongBits
(* %n stores the count of cells written so far. *)
countfmt(f) == [Took(f) EXCEPT !.count = Narrow(f.nfmt, Width(f.flags))]
Integer(fl, n) == IF "Unsigned" \in fl THEN n % 2^Width(fl) ELSE Narrow(n, Width(fl))
Base(r) == CASE r = 100 -> 10 [] r \in {88, 120} -> 16 [] r = 98 -> 2 [] r = 111 -> 8
Conv(r, d) == IF d < 10 THEN 48 + d ELSE (IF r = 88 THEN 55 ELSE 87) + d

Digit(f, u) == Conv(f.r, u % Base(f.r))
(* the digits of u, with a comma before each group of three *)
Spelled(f, fl, u) ==
  LET From[v \in 0..u, n \in 0..Maxintwidth] ==
        IF v = 0 THEN <<>>
        ELSE IF "Comma" \in fl /\ n % 4 = 3 THEN From[v \div Base(f.r), n + 2] \o <<Digit(f, v), 44>>
        ELSE From[v \div Base(f.r), n + 1] \o <<Digit(f, v)>>
  IN IF u = 0 THEN <<48>> ELSE From[u, 0]

(* zeros in front, as long as there is room in the buffer for the sign and the 0x *)
Zeros(digits, extra, w) ==
  LET room == Maxintwidth - 3 - Len(digits)
      want == w - extra - Len(digits)
      n == IF want < room THEN want ELSE room
  IN IF n <= 0 THEN digits ELSE [i \in 1..n |-> 48] \o digits

SharpOf(f, fl, digits) ==
  IF "Sharp" \notin fl THEN <<>>
  ELSE IF Base(f.r) = 16 THEN <<48, f.r>>
  ELSE IF Base(f.r) = 8 /\ digits[1] # 48 THEN <<48>> ELSE <<>>
SignOf(fl, neg) == IF neg THEN <<45>> ELSE IF "Sign" \in fl THEN <<43>> ELSE IF "Space" \in fl THEN <<32>> ELSE <<>>

(* sign, prefix and digits, with the zeros that fill the field and its width *)
ZeroFilled(fl) == "Zero" \in fl /\ fl \cap {"Left", "Prec"} = {}
IntegerText(f, fl, sign, sharp, digits) ==
  sign \o sharp \o (IF ZeroFilled(fl) THEN Zeros(digits, Len(sign) + Len(sharp), f.width) ELSE digits)
PutInteger(f, fl, text) == CopyBytes([f EXCEPT !.width = IF ZeroFilled(fl) THEN 0 ELSE @], text, Len(text))
Spell(f, fl, x, digits) == PutInteger(f, fl, IntegerText(f, fl, SignOf(fl, x < 0), SharpOf(f, fl, digits), digits))
SpellValue(f, fl, x) == Spell(f, fl, x, Zeros(Spelled(f, fl, IF x < 0 THEN -x ELSE x), 0, f.prec))
ifmt(f) ==
  IF f.r = 112 THEN SpellValue([Took(f) EXCEPT !.r = 120], f.flags \cup {"Unsigned"}, Word(Arg(f)[1]))
               ELSE SpellValue(Took(f), f.flags, Integer(f.flags, Arg(f)[1]))

-----------------------------------------------------------------------------
(* Quoted strings.  q counts what fits: bytes and runes, in and out.        *)
NeedsQuote(c) == c <= 32 \/ c = 39
Room(q, runesout, nout, bytes, runes) == IF runesout THEN q.nrunesout + runes <= nout ELSE q.nbytesout + bytes <= nout
Opened(q) == [q EXCEPT !.quoted = TRUE, !.nbytesout = @ + 2, !.nrunesout = @ + 2]

QuoteRoom(q, c, w, nout, runesout) ==
  /\ ~q.quoted => Room(q, runesout, nout, w + 2, 3)
  /\ c = 39 => Room(IF q.quoted THEN q ELSE Opened(q), runesout, nout, w + 1, 2)

(* runes: [c, w] with their width in the input; nin limits their number *)
quotesetup(runes, nin, nout, sharp, runesout) ==
  LET zero == [quoted |-> FALSE, nbytesout |-> 0, nrunesout |-> 0, nrunesin |-> 0]
      From[i \in 1..(Len(runes) + 1), q \in [quoted : BOOLEAN, nbytesout : Nat, nrunesout : Nat, nrunesin : Nat]] ==
        IF i > Len(runes) \/ i > nin THEN q
        ELSE LET c == runes[i].c
                 w == runes[i].w
                 open == IF NeedsQuote(c) /\ ~q.quoted THEN Opened(q) ELSE q
                 twice == IF c = 39 THEN 1 ELSE 0
             IN IF ~Room(q, runesout, nout, w, 1) THEN q
                ELSE IF NeedsQuote(c) /\ ~QuoteRoom(q, c, w, nout, runesout)
                  THEN IF ~q.quoted /\ Room(q, runesout, nout, w + 2, 3) THEN open ELSE q
                ELSE From[i + 1, [open EXCEPT !.nbytesout = @ + w + twice, !.nrunesout = @ + 1 + twice, !.nrunesin = @ + 1]]
  IN IF sharp \/ nin = 0 \/ runes = <<>>
       THEN IF nout < 2 THEN zero ELSE From[1, Opened(zero)]
       ELSE From[1, zero]

Doubled(r) ==
  LET D[i \in 0..Len(r)] == IF i = 0 THEN <<>> ELSE D[i - 1] \o (IF r[i] = 39 THEN <<39, 39>> ELSE <<r[i]>>) IN D[Len(r)]
qstrfmt(f, q, r) == Justify(f, IF f.runes THEN q.nrunesout ELSE q.nbytesout, <<39>> \o Doubled(Prefix(r, q.nrunesin)) \o <<39>>)

WithWidths(s, runes) ==
  [i \in DOMAIN runes |-> [c |-> runes[i].r, w |-> (IF i < Len(runes) THEN runes[i + 1].p ELSE Len(s) + 1) - runes[i].p]]
InputRunes(s, runesin) ==
  IF runesin THEN [i \in DOMAIN s |-> [c |-> s[i], w |-> runelen(s[i])]]
  ELSE WithWidths(s, RunesOf(s))
QuoteRunes(f, s, q) ==
  IF q.quoted THEN qstrfmt(f, q, [i \in DOMAIN s |-> s[i] % 256]) ELSE fmtrcpy(f, Prefix(s, q.nrunesin))
QuoteBytes(f, m, q) == IF q.quoted THEN qstrfmt(f, q, Decode(m, q.nrunesin)) ELSE fmtcpy(f, m, q.nrunesin)
QuoteLimits(f, runes) ==
  quotesetup(runes, IF "Prec" \in f.flags THEN f.prec ELSE Len(runes) + 1,
             IF f.flush THEN 1000 ELSE f.stop - Len(f.out), "Sharp" \in f.flags, f.runes)
QuoteFirst(f, s, q) == QuoteBytes(f, FirstRunes(s, RunesOf(s), q.nrunesin), q)
quotestrfmt(f, runesin) ==
  IF runesin THEN QuoteRunes(Took(f), Arg(f), QuoteLimits(f, InputRunes(Arg(f), TRUE)))
             ELSE QuoteFirst(Took(f), Arg(f), QuoteLimits(f, InputRunes(Arg(f), FALSE)))

-----------------------------------------------------------------------------
Flag == (44 :> "Comma") @@ (45 :> "Left") @@ (43 :> "Sign") @@ (35 :> "Sharp") @@ (32 :> "Space") @@ (117 :> "Unsigned")
flagfmt(f) ==
  CASE f.r \in DOMAIN Flag -> [f EXCEPT !.flags = @ \cup {Flag[f.r]}]
    [] f.r = 104 -> [f EXCEPT !.flags = @ \cup (IF "Short" \in @ THEN {"Byte"} ELSE {"Short"})]
    [] f.r = 108 -> [f EXCEPT !.flags = @ \cup (IF "Long" \in @ THEN {"VLong"} ELSE {"Long"})]

IsFlag(r) == r \in DOMAIN Flag \cup {104, 108}
(* the conversion fmtfmt finds for f.r; %q and %Q are installed, %r and    *)
(* the floating formats are left out                                      *)
Convert(f) ==
  CASE f.r = 37 -> percentfmt(f)
    [] f.r = 67 -> runefmt(f)
    [] f.r = 83 -> runesfmt(f)
    [] f.r = 99 -> charfmt(f)
    [] f.r = 110 -> countfmt(f)
    [] f.r = 115 -> strfmt(f)
    [] f.r = 113 -> quotestrfmt(f, FALSE)
    [] f.r = 81 -> quotestrfmt(f, TRUE)
    [] f.r \in {88, 98, 100, 111, 112, 120} -> ifmt(f)
    [] OTHER -> badfmt(f)

NumFlag(f, i) ==
  IF "Width" \in f.flags THEN [f EXCEPT !.flags = @ \cup {"Prec"}, !.prec = i]
                         ELSE [f EXCEPT !.flags = @ \cup {"Width"}, !.width = i]
Star(f) ==
  LET i == Arg(f)[1]
      g == Took(f)
  IN IF i >= 0 THEN NumFlag(g, i)
     ELSE IF "Prec" \in f.flags THEN [g EXCEPT !.flags = @ \ {"Prec"}, !.prec = 0]
     ELSE NumFlag([g EXCEPT !.flags = @ \cup {"Left"}], -i)

RECURSIVE FmtLoop(_, _, _)
(* the f after the conversion at position p of fmt, and where fmt goes on; *)
(* d is the rune there                                                      *)
FmtStep(f, fmt, p, d) ==
  CASE d.r = 0 -> [f |-> [f EXCEPT !.ret = -1], p |-> p]
    [] d.r = 46 -> FmtLoop([f EXCEPT !.flags = @ \cup {"Width", "Prec"}], fmt, p + 1)
    [] d.r = 48 /\ "Width" \notin f.flags -> FmtLoop([f EXCEPT !.flags = @ \cup {"Zero"}], fmt, p + 1)
    [] d.r \in Digits /\ (d.r # 48 \/ "Width" \in f.flags) ->
         FmtLoop(NumFlag(f, Number(SubSeq(fmt, p, Skip(fmt, p, Digits) - 1), 1, 10)), fmt, Skip(fmt, p, Digits))
    [] d.r = 42 -> FmtLoop(Star(f), fmt, p + 1)
    [] IsFlag(d.r) -> FmtLoop(flagfmt([f EXCEPT !.r = d.r]), fmt, p + 1)
    [] OTHER -> [f |-> Convert([f EXCEPT !.r = d.r]), p |-> p + d.n]
FmtLoop(f, fmt, p) == FmtStep(f, fmt, p, chartorune(fmt, p))
Restored(e, f) == [e EXCEPT !.f.flags = f.flags, !.f.width = f.width, !.f.prec = f.prec]
fmtdispatch(f, fmt, p) == Restored(FmtLoop([f EXCEPT !.flags = {}, !.width = 0, !.prec = 0], fmt, p), f)

RECURSIVE dofmt(_, _, _)
Resume(e, fmt) == dofmt(e.f, fmt, e.p)
Literal(f, fmt, p, d) == dofmt(PutCells(f, IF f.runes THEN <<d.r>> ELSE SubSeq(fmt, p, p + d.n - 1)), fmt, p + d.n)
dofmt(f, fmt, p) ==
  CASE f.ret < 0 -> f
    [] f.ret >= 0 /\ At(fmt, p) = 0 -> [f EXCEPT !.ret = f.nfmt]
    [] f.ret >= 0 /\ At(fmt, p) = 37 -> Resume(fmtdispatch(f, fmt, p + 1), fmt)
    [] OTHER -> Literal(f, fmt, p, chartorune(fmt, p))

New(runes, stop, flush, args) ==
  [runes |-> runes, out |-> <<>>, stop |-> stop, flush |-> flush, written |-> <<>>, nfmt |-> 0, flags |-> {},
   width |-> 0, prec |-> 0, r |-> 0, args |-> args, count |-> -1, ret |-> 0]
vsnprint(len, fmt, args) == dofmt(New(FALSE, len - 1, FALSE, args), fmt, 1)
Flushed(f) == IF f.ret > 0 THEN [f EXCEPT !.written = @ \o f.out, !.out = <<>>] ELSE f
vfprint(size, fmt, args) == Flushed(dofmt(New(FALSE, size, TRUE, args), fmt, 1))

-----------------------------------------------------------------------------
IsPrefix(s, t) == Len(s) <= Len(t) /\ s = SubSeq(t, 1, Len(s))
IsQuoted(fmt) == \E i \in 1..Len(fmt) : fmt[i] \in {81, 113}
Full(fmt, args) == vsnprint(200, fmt, args)

(* f is what vsnprint does with a buffer of len bytes and g with a larger   *)
(* one: it keeps to the buffer and cuts the output at a rune.               *)
CutExact(f, g, len, fmt) ==
  /\ Len(f.out) < len /\ f.nfmt = Len(f.out)
  /\ f.ret >= 0 => Len(f.out) = f.ret
  /\ ~IsQuoted(fmt) => /\ IsPrefix(f.out, g.out)
                       /\ f.ret < 0 /\ g.ret >= 0 => len - 1 - Len(f.out) < 4 /\ ~Continues(At(g.out, Len(f.out) + 1))
                       /\ len > Len(g.out) => f.out = g.out
(* f is what vfprint does: where its buffer is flushed does not matter. *)
FlushExact(f, g) == g.ret >= 0 => f.written = g.out /\ f.ret = Len(f.written)

(* An integer reads back as itself, and is as wide as was asked for. *)
Without(s, C) ==
  LET Kept[i \in 0..Len(s)] == IF i = 0 THEN <<>> ELSE IF s[i] \in C THEN Kept[i - 1] ELSE Append(Kept[i - 1], s[i]) IN Kept[Len(s)]
GroupsExact(d) == \A i \in DOMAIN d : d[i] = 44 => (Len(d) - i) % 4 = 3
ReadsAs(text, fl, r) ==
  strtoul(text, IF Base(r) = 2 THEN 2 ELSE IF "Sharp" \in fl /\ Base(r) # 10 THEN 0 ELSE Base(r)).n
IntegerExact(out, fl, width, r, n) ==
  /\ ReadsAs(Without(out, {32, 44}), fl, r) = Word(Integer(fl, n))
  /\ Len(out) >= width /\ (Len(out) > width => out = Without(out, {32}) \/ "Space" \in fl)
  /\ "Comma" \in fl => GroupsExact(Without(out, {32}))

(* What fits of a quoted string, quotes included, reads back as a prefix of *)
(* the string, and one more rune would not fit beside the final zero.       *)
Unquoted(r) ==
  LET U[i \in 1..Len(r)] == IF i >= Len(r) THEN <<>>
                             ELSE IF r[i] = 39 THEN <<39>> \o U[i + 2] ELSE <<r[i]>> \o U[i + 1]
  IN IF r # <<>> /\ r[1] = 39 THEN U[2] ELSE r
QuotedSize(r) ==
  LET Size[i \in 0..Len(r)] == IF i = 0 THEN 0 ELSE Size[i - 1] + runelen(r[i]) + (IF r[i] = 39 THEN 1 ELSE 0)
  IN Size[Len(r)] + (IF \E i \in DOMAIN r : NeedsQuote(r[i]) THEN 2 ELSE 0)
ReadsBack(got, s, len) ==
  IsPrefix(got, s) /\ (got # s => QuotedSize(Prefix(s, Len(got) + 1)) > len - 1)
QuoteExact(f, len, s) ==
  /\ f.ret >= 0
  /\ f.out # <<>> /\ f.out[1] = 39 => Len(f.out) >= 2 /\ f.out[Len(f.out)] = 39
  /\ ReadsBack(Unquoted(Decode(f.out, Len(f.out))), Decode(s, Len(s)), len)
=============================================================================
