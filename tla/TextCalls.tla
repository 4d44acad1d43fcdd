----------------------------- MODULE TextCalls ------------------------------
(***************************************************************************)
(* Text, numbers, sorting and formatted printing at the limits of buffers. *)
(***************************************************************************)
EXTENDS Calls

(* Text.  Runes and bytes at the limits of the encodings. *)
TX == INSTANCE Fmt WITH LongBits <- 16, VlongBits <- 20, ShortBits <- 8, CharBits <- 5, Maxintwidth <- 12
Runes == {0, 65, 127, 128, 2047, 2048, 55295, 55296, 57343, 57344, 65533, 65535, 65536, 1114111, 1114112, 2097151}
Lead == {65, 127, 128, 191, 192, 193, 194, 223, 224, 225, 237, 239, 240, 241, 244, 245, 247, 248, 255}
Decode ==
  \E a \in Lead, b \in {0, 65, 127, 128, 143, 144, 159, 160, 191, 192}, c, d \in {0, 65, 128, 191, 192} :
    \E s \in {TX!Without(<<a, b, c, d>>, {0})} :
      call' = [f |-> "decode", s |-> s] /\ result' = TX!chartorune(s, 1)
Encode == \E c \in Runes : call' = [f |-> "encode", c |-> c] /\ result' = TX!runetochar(c)

(* numbers of up to four characters, and around the largest one *)
Letters == {32, 45, 48, 55, 57, 102, 120}
Numerals == UNION {[1..n -> Letters] : n \in 0..4}
              \cup {<<54, 53, 53, 51, 53>>, <<54, 53, 53, 51, 54>>, <<54, 53, 53, 52, 48>>, <<48, 120, 102, 102, 102, 102>>,
                    <<45, 54, 53, 53, 51, 53>>, <<49, 50, 51, 52, 53, 54>>, <<49, 101, 107, 102>>, <<49, 101, 107, 103>>}
Parse == \E s \in Numerals, base \in {0, 10, 16, 36} : call' = [f |-> "strtoul", s |-> s, base |-> base] /\ result' = TX!strtoul(s, base)

Keyed(k) == [i \in DOMAIN k |-> [key |-> k[i], id |-> i]]
Arrays == UNION {[1..n -> 1..3] : n \in 0..5} \cup {[i \in 1..n |-> (i * k) % m] : n \in 11..14, k \in 1..12, m \in {2, 5, 13}}
Sort == \E k \in Arrays : call' = [f |-> "qsort", s |-> Keyed(k)] /\ result' = TX!qsort(Keyed(k))

(* formats: flags, width, precision and verb *)
FlagChars == {<<>>, <<45>>, <<48>>, <<43>>, <<35>>, <<32>>, <<44>>, <<117>>, <<104>>, <<108>>, <<108, 108>>, <<104, 104>>, <<45, 35>>, <<48, 43>>, <<48, 35>>}
Widths == {<<>>, <<51>>, <<57>>}
PrintInteger ==
  \E fl \in FlagChars, w \in Widths, r \in {100, 120, 111, 98}, n \in {0, 7, 8, 255, 1000, -1, -128, 4660} :
    /\ r = 98 => n \in {0, 7, 8}
    /\ \E fmt \in {<<37>> \o fl \o w \o <<r>>} :
      /\ call' = [f |-> "integer", fmt |-> fmt, fl |-> {TX!Flag[c] : c \in {fl[i] : i \in DOMAIN fl} \cap DOMAIN TX!Flag}
                                                 \cup (IF 108 \in {fl[i] : i \in DOMAIN fl} THEN {"Long"} ELSE {})
                                                 \cup (IF fl = <<108, 108>> THEN {"VLong"} ELSE {})
                                                 \cup (IF 104 \in {fl[i] : i \in DOMAIN fl} THEN {"Short"} ELSE {})
                                                 \cup (IF fl = <<104, 104>> THEN {"Byte"} ELSE {}),
                  w |-> IF w = <<>> THEN 0 ELSE w[1] - 48, r |-> r, n |-> n]
      /\ result' = TX!Full(fmt, <<<<n>>>>)

Messages ==
  {[fmt |-> <<97, 195, 169, 37, 115, 98>>, args |-> <<<<226, 130, 172, 120>>>>],
   [fmt |-> <<37, 45, 53, 115, 124, 37, 46, 49, 115>>, args |-> <<<<195, 169>>, <<226, 130, 172, 120>>>>],
   [fmt |-> <<37, 42, 100, 37, 42, 100, 37, 46, 42, 100>>, args |-> <<<<4>>, <<12>>, <<-4>>, <<12>>, <<-1>>, <<5>>>>],
   [fmt |-> <<37, 53, 67, 37, 83, 37, 110>>, args |-> <<<<8364>>, <<128512, 65>>, <<0>>>>],
   [fmt |-> <<37, 37, 37, 122, 37, 99, 37, 51, 99>>, args |-> <<<<65>>, <<200>>>>],
   [fmt |-> <<37, 52, 46, 50, 83, 240, 159, 152, 128, 37, 112>>, args |-> <<<<233, 233, 233>>, <<-1>>>>],
   [fmt |-> <<120, 37>>, args |-> <<>>],
   [fmt |-> <<37, 56, 113, 37, 81, 37, 46, 48, 113>>, args |-> <<<<39, 195, 169>>, <<65, 32>>, <<65>>>>]}
Format ==
  \E m \in Messages, len \in 1..24 : call' = [f |-> "format", m |-> m, len |-> len] /\ 
    /\ result' = <<TX!vsnprint(len, m.fmt, m.args), TX!vfprint(len, m.fmt, m.args), TX!Full(m.fmt, m.args)>>
Quote ==
  \E n \in 0..4 : \E s \in [1..n -> {<<39>>, <<32>>, <<65>>, <<195, 169>>}] :
    \E len \in 1..14 :
    \E q \in {s} : \E b \in {LET C[i \in 0..n] == IF i = 0 THEN <<>> ELSE C[i - 1] \o s[i] IN C[n]} :
      call' = [f |-> "quote", s |-> b, len |-> len] /\ result' = TX!vsnprint(len, <<37, 113>>, <<b>>)

(* The C library's text functions against definitions that do not follow   *)
(* their loops: runes round-trip and bad bytes are decoded one at a time   *)
(* (rune.c), strtoul is the number or saturates, qsort sorts, print puts   *)
(* out what the flags ask for, and a buffer that is too small or flushed   *)
(* many times changes nothing but the length of the output (dofmt.c,       *)
(* fmtquote.c).                                                            *)
TextExact ==
  /\ call.f = "encode" => TX!RuneRoundTrip(call.c)
  /\ call.f = "decode" => TX!DecodeExact(call.s)
  /\ call.f = "strtoul" => TX!StrtoulExact(call.s, call.base)
  /\ call.f = "qsort" => TX!SortExact(call.s)
  /\ call.f = "integer" => TX!IntegerExact(result.out, call.fl, call.w, call.r, call.n)
  /\ call.f = "format" => TX!CutExact(result[1], result[3], call.len, call.m.fmt) /\ (call.len >= 4 => TX!FlushExact(result[2], result[3]))
  /\ call.f = "quote" => TX!QuoteExact(result, call.len, call.s)
=============================================================================
