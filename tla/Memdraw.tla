------------------------------ MODULE Memdraw -------------------------------
(***************************************************************************)
(* Drawing on images in memory (src/kernel/Libmemdraw: draw.c, alphadraw.c,*)
(* color.c, resolution.c, transfer.c, alloc.c, chan.c).  memimagedraw      *)
(* paints src through mask onto dst; it clips, then tries memset and       *)
(* memmove, then characters, then the general composition, and all of them *)
(* must paint the same pixels.                                             *)
(*                                                                         *)
(* mem maps the name of a Memdata to its bytes, from offset 0.  A byte has *)
(* Bits bits.  A channel descriptor is a sequence of <<type, bits>>, from  *)
(* the lowest bits of a pixel to the highest.  An image is                 *)
(* [data, r, clipr, chan, repl, zero, width], width in bytes.  The entry   *)
(* drawbuf of mem has one byte: what is in alphadraw's buffer where a line *)
(* was not written.                                                        *)
(***************************************************************************)
EXTENDS Geometry, SequencesExt, Bitwise

CONSTANTS
  Bits,       \* in a byte (8); an even number
  WordBytes   \* bytes in a word, to which lines are rounded up (4)

Ones == 2^Bits - 1
drawbuf == "drawbuf"

(* memsetchan: what is derived from a descriptor, [depth, nbits, shift] *)
memsetchan(desc) ==
  LET Types == {desc[k][1] : k \in DOMAIN desc}
      At(t) == CHOOSE k \in DOMAIN desc : desc[k][1] = t
      Below[k \in 0..Len(desc)] == IF k = 0 THEN 0 ELSE Below[k - 1] + desc[k][2]
  IN [depth |-> Below[Len(desc)], nbits |-> [t \in Types |-> desc[At(t)][2]],
      shift |-> [t \in Types |-> Below[At(t) - 1]]]

GREY1 == memsetchan(<<<<"k", 1>>>>)
GREY8 == memsetchan(<<<<"k", Bits>>>>)
RGB16 == memsetchan(<<<<"b", Bits \div 2>>, <<"g", Bits>>, <<"r", Bits \div 2>>>>)
RGB24 == memsetchan(<<<<"b", Bits>>, <<"g", Bits>>, <<"r", Bits>>>>)
RGBA32 == memsetchan(<<<<"a", Bits>>, <<"b", Bits>>, <<"g", Bits>>, <<"r", Bits>>>>)

Has(chan, t) == t \in DOMAIN chan.nbits
nbits(chan, t) == chan.nbits[t]
shift(chan, t) == chan.shift[t]
Fgrey(i) == Has(i.chan, "k")
Falpha(i) == Has(i.chan, "a")
Fbytes(i) == \A t \in DOMAIN i.chan.nbits : i.chan.nbits[t] = Bits
depth(i) == i.chan.depth
nb(i) == depth(i) \div Bits                    \* bytes in a pixel

(* the pixel made of a byte of part for each channel of chan *)
Packed(chan, part) ==
  LET Of(t) == IF Has(chan, t) THEN (part[t] \div 2^(Bits - nbits(chan, t))) * 2^shift(chan, t) ELSE 0
  IN Of("a") + Of("b") + Of("g") + Of("r") + Of("k")

allocmemimaged(data, r, chan) ==
  LET l == unitsperline(r, chan.depth, Bits * WordBytes)
  IN [data |-> data, r |-> r, clipr |-> r, chan |-> chan, repl |-> FALSE, width |-> l * WordBytes,
      zero |-> -(l * WordBytes * r.y0 + (r.x0 * chan.depth) \div Bits)]

byteaddr(i, p) == i.zero + p[2] * i.width
                   + (IF depth(i) < Bits THEN p[1] \div (Bits \div depth(i)) ELSE p[1] * nb(i))

(* little endian *)
Little(bytes) ==
  LET Low[k \in 0..Len(bytes)] == IF k = 0 THEN 0 ELSE Low[k - 1] + bytes[k] * 2^(Bits * (k - 1))
  IN Low[Len(bytes)]
ByteOf(v, k) == (v \div 2^(Bits * k)) % 2^Bits

(* Pixel `off' of the byte at a, or the pixel whose bytes begin there. *)
PixelIn(mem, i, a, off) ==
  IF depth(i) < Bits THEN (mem[i.data][a] \div 2^(Bits - depth(i) - depth(i) * off)) % 2^depth(i)
  ELSE Little([k \in 1..nb(i) |-> mem[i.data][a + k - 1]])
npack(i) == Bits \div depth(i)

(* the pixel at p as the readers find it *)
PixelAt(mem, i, p) == PixelIn(mem, i, byteaddr(i, p), p[1] % npack(i))

(* pixelbits, without the repetition of the pixel in the whole word; C's   *)
(* remainder has the sign of pt.x                                          *)
pixelbits(mem, i, pt) ==
  PixelIn(mem, i, byteaddr(i, pt), IF pt[1] < 0 THEN -((-pt[1]) % npack(i)) ELSE pt[1] % npack(i))

(* replbit: n bits repeated to fill a byte *)
RECURSIVE replbit(_, _)
replbit(n, v) == IF n >= Bits THEN v \div 2^(n - Bits) ELSE replbit(2 * n, v + v * 2^n)

MUL(x, y) == LET t == x * y + 2^(Bits - 1) IN (t + t \div 2^Bits) \div 2^Bits
RGB2K(c) == (156763 * c.r + 307758 * c.g + 59769 * c.b) \div 2^19

Field(chan, val, t) == replbit(nbits(chan, t), (val \div 2^shift(chan, t)) % 2^nbits(chan, t))

imgtorgba(i, val) ==
  LET Colour(t) == Field(i.chan, val, IF Fgrey(i) THEN "k" ELSE t)
  IN [r |-> Colour("r"), g |-> Colour("g"), b |-> Colour("b"),
      a |-> IF Falpha(i) THEN Field(i.chan, val, "a") ELSE Ones]

rgbatoimg(i, c) ==
  Packed(i.chan, [r |-> c.r, g |-> c.g, b |-> c.b, a |-> c.a, k |-> RGB2K(c)])

(***************************************************************************)
(* drawclip: the rectangles in dst, src and mask, of the same size, or     *)
(* NoRect.                                                                 *)
(***************************************************************************)
NoRect == [r |-> Rect(0, 0, 0, 0), sr |-> Rect(0, 0, 0, 0), mr |-> Rect(0, 0, 0, 0)]

(* r clipped by each of bounds in turn, empty as soon as one is disjoint *)
Clip(r, b) == IF rectXrect(r, b) THEN rectclip(r, b) ELSE Rect(0, 0, 0, 0)
ClipTo(r, i) == IF i.repl THEN Clip(r, i.clipr) ELSE Clip(Clip(r, i.r), i.clipr)
Sized(p, r) == Rect(p[1], p[2], p[1] + Dx(r), p[2] + Dy(r))
Reflected(r, new, old) ==
  Rect(r.x0 + new.x0 - old.x0, r.y0 + new.y0 - old.y0, r.x1 + new.x1 - old.x1, r.y1 + new.y1 - old.y1)

drawclip(dst, r0, src, q0, mask, q1) ==
  LET r == Clip(Clip(r0, dst.r), dst.clipr)
      moved == subpt(MinPt(r), MinPt(r0))
      p0 == addpt(q0, moved)
      Aligned(sr, mr, sr3) ==
        [r |-> rectaddpt(sr, subpt(MinPt(r), p0)), sr |-> sr3, mr |-> Sized(drawrepl(mask.r, MinPt(mr)), sr3)]
      Repeated(sr, mr) == Aligned(sr, mr, IF src.repl THEN Sized(drawrepl(src.r, MinPt(sr)), sr) ELSE sr)
      InMask(sr, omr, mr) ==
        IF Dx(mr) = 0 THEN NoRect ELSE Repeated(IF q0 = q1 THEN mr ELSE Reflected(sr, mr, omr), mr)
      (* splitcoords: the mask has a point of its own *)
      Split(sr) == IF q0 = q1 THEN sr ELSE Sized(addpt(addpt(q1, moved), subpt(MinPt(sr), p0)), sr)
      InSource(sr) == IF Dx(sr) = 0 THEN NoRect ELSE InMask(sr, Split(sr), ClipTo(Split(sr), mask))
  IN IF Dx(r0) <= 0 \/ Dy(r0) <= 0 \/ Dx(r) = 0 THEN NoRect ELSE InSource(ClipTo(Sized(p0, r), src))

(***************************************************************************)
(* Bytes of a line that are partly touched: the mask of each byte of the   *)
(* pixels x0 to x1 - 1 of a line, where d < Bits.                          *)
(***************************************************************************)
RowMasks(r, d) ==
  LET ppb == Bits \div d
      lm == 2^(Bits - (r.x0 % ppb) * d) - 1
      rm == Ones - (2^(Bits - (r.x1 % ppb) * d) - 1)
      dx == Dx(r) - (ppb - (r.x0 % ppb)) - (r.x1 % ppb)
  IN IF dx < 0 THEN <<lm & rm>>
     ELSE <<lm>> \o [k \in 1..(dx \div ppb) |-> Ones] \o <<rm>>

Blend(old, new, m) == old ^^ ((new ^^ old) & m)

Put(mem, data, a, b) == [mem EXCEPT ![data][a] = b]

(* the bytes of data from address a on replaced by bytes *)
PutBytes(mem, data, a, bytes) ==
  [mem EXCEPT ![data] = [x \in DOMAIN @ |-> IF x - a + 1 \in DOMAIN bytes THEN bytes[x - a + 1] ELSE @[x]]]

(* a line of pixels of n bytes each *)
Bytes(n, pixels) == [k \in 1..(n * Len(pixels)) |-> ByteOf(pixels[1 + (k - 1) \div n], (k - 1) % n)]
PutPixels(mem, i, p, pixels) == PutBytes(mem, i.data, byteaddr(i, p), Bytes(nb(i), pixels))
PutPixel(mem, i, p, v) == PutPixels(mem, i, p, <<v>>)

(* the bytes of a line from address a on, where mask allows *)
Masked(mem, data, a, new, masks) ==
  PutBytes(mem, data, a, [k \in DOMAIN masks |-> Blend(mem[data][a + k - 1], new[k], masks[k])])

(* the first case of memoptdraw: one opaque pixel through an opaque mask *)
Fill(mem, dst, r, v) ==
  LET masks == RowMasks(r, depth(dst))
      Row(m, y) ==
        IF depth(dst) >= Bits THEN PutPixels(m, dst, <<r.x0, y>>, [k \in 1..Dx(r) |-> v])
        ELSE Masked(m, dst.data, byteaddr(dst, <<r.x0, y>>),
                    [k \in DOMAIN masks |-> replbit(depth(dst), v)], masks)
      Line[n \in 0..Dy(r)] == IF n = 0 THEN mem ELSE Row(Line[n - 1], r.y0 + n - 1)
  IN Line[Dy(r)]

(* The lines from the first or from the last, when an image is copied onto *)
(* a higher address of itself.                                             *)
Backward(dst, r, src, sr) ==
  src.data = dst.data /\ byteaddr(dst, MinPt(r)) > byteaddr(src, MinPt(sr))
Order(par, n) ==
  IF Backward(par.dst, par.r, par.src, par.sr) THEN [k \in 1..n |-> n - k] ELSE [k \in 1..n |-> k - 1]

(* the second case of memoptdraw: memmove of each line *)
Copy(mem, par) ==
  LET ys == Order(par, Dy(par.r))
      Row(m, y) ==
        LET s == byteaddr(par.src, <<par.sr.x0, par.sr.y0 + y>>)
        IN PutBytes(m, par.dst.data, byteaddr(par.dst, <<par.r.x0, par.r.y0 + y>>),
                    [k \in 1..(Dx(par.r) * nb(par.dst)) |-> m[par.src.data][s + k - 1]])
      Line[n \in 0..Len(ys)] == IF n = 0 THEN mem ELSE Row(Line[n - 1], ys[n])
  IN Line[Len(ys)]

(* the third case: three boolean images with the same alignment.  The      *)
(* bytes of a line go in the order of the lines; the right edge is left    *)
(* alone when no bit of it is touched.                                     *)
BitCopy(mem, par) ==
  LET masks == RowMasks(par.r, 1)
      ys == Order(par, Dy(par.r))
      ks == SelectSeq(Order(par, Len(masks)), LAMBDA k : masks[k + 1] # 0)
      Byte(m, y, k) ==
        LET In(i, r) == byteaddr(i, <<r.x0, r.y0 + y>>) + k
        IN Put(m, par.dst.data, In(par.dst, par.r),
               Blend(m[par.dst.data][In(par.dst, par.r)], m[par.src.data][In(par.src, par.sr)],
                     m[par.mask.data][In(par.mask, par.mr)] & masks[k + 1]))
      Row(m, y) ==
        LET Left[n \in 0..Len(ks)] == IF n = 0 THEN m ELSE Byte(Left[n - 1], y, ks[n]) IN Left[Len(ks)]
      Line[n \in 0..Len(ys)] == IF n = 0 THEN mem ELSE Row(Line[n - 1], ys[n])
  IN Line[Len(ys)]

(***************************************************************************)
(* A buffer holds the bytes of each pixel of a line, and where the red,    *)
(* green, blue, grey and alpha bytes are, 0 for a missing one.             *)
(***************************************************************************)
Direct(p) == ~p.img.repl /\ ~p.convgrey /\ Fbytes(p.img)
Alpha(b, k) == IF b.alpha = 0 THEN Ones ELSE b.px[k][b.alpha]

(* the k-th pixel of a line, from p.r.x0 and again from the left edge *)
At(p, y, k) == <<drawreplxy(p.img.r.x0, p.img.r.x1, p.r.x0 + k - 1), p.img.r.y0 + y>>

readnbit(mem, p, y) ==
  [px |-> [k \in 1..p.dx |-> <<replbit(depth(p.img), PixelAt(mem, p.img, At(p, y, k)))>>],
   red |-> 1, grn |-> 1, blu |-> 1, grey |-> 1, alpha |-> 0]

(* The bytes as they are, or expanded to alpha, blue, green, red or to     *)
(* alpha, grey and then read again, delta bytes a pixel.  copyalpha is     *)
(* img->flags&Falpha, and bool is an int: an image with alpha has 8 there, *)
(* not 1, so its colours are looked for 8 bytes after its alphas and       *)
(* beyond the line, where other lines or nothing was written: any byte.    *)
FalphaFlag == 8
readbyte(mem, p, y) ==
  LET i == p.img
      copyalpha == IF Falpha(i) THEN FalphaFlag ELSE 0
      Offset(t) == IF Has(i.chan, t) THEN 1 + shift(i.chan, t) \div Bits ELSE 0
      one == Fgrey(i) \/ p.convgrey
      Expanded(c) == (IF Falpha(i) THEN <<c.a>> ELSE <<>>)
                       \o (IF p.alphaonly THEN <<>> ELSE IF one THEN <<RGB2K(c)>> ELSE <<c.b, c.g, c.r>>)
      buf == [k \in 1..p.dx |-> Expanded(imgtorgba(i, PixelAt(mem, i, At(p, y, k))))]
      n == Len(buf[1])
      Byte(o) == IF o < n * p.dx THEN buf[1 + o \div n][1 + (o % n)] ELSE mem[drawbuf][0]
      delta == IF p.alphaonly THEN 1 ELSE copyalpha + (IF one THEN 1 ELSE 3)
      Colour(at) == IF p.alphaonly THEN 0 ELSE copyalpha + (IF one THEN 1 ELSE at)
  IN IF Direct(p)
     THEN [px |-> [k \in 1..p.dx |-> [j \in 1..nb(i) |-> mem[i.data][byteaddr(i, At(p, y, k)) + j - 1]]],
           alpha |-> Offset("a"), grey |-> Offset("k"),
           red |-> IF Fgrey(i) THEN Offset("k") ELSE Offset("r"),
           grn |-> IF Fgrey(i) THEN Offset("k") ELSE Offset("g"),
           blu |-> IF Fgrey(i) THEN Offset("k") ELSE Offset("b")]
     ELSE [px |-> [k \in 1..p.dx |-> [j \in 1..delta |-> Byte((k - 1) * delta + j - 1)]],
           alpha |-> IF Falpha(i) THEN 1 ELSE 0, grey |-> IF one THEN Colour(1) ELSE 0,
           red |-> Colour(3), grn |-> Colour(2), blu |-> Colour(1)]

readfn(mem, p, y) == IF depth(p.img) < Bits THEN readnbit(mem, p, y) ELSE readbyte(mem, p, y)

(* the grey of a mask without alpha is its alpha *)
greymaskread(mem, p, y) ==
  LET Relabel(b) == [b EXCEPT !.alpha = b.grey] IN Relabel(readfn(mem, p, y))

(* the value in img's format of pixel k of a buffer *)
Value(i, b, k) ==
  LET Byte(at) == IF at = 0 THEN Ones ELSE b.px[k][at]
  IN Packed(i.chan, [r |-> Byte(b.red), g |-> Byte(b.grn), b |-> Byte(b.blu),
                     k |-> Byte(b.grey), a |-> Byte(b.alpha)])

writebyte(mem, p, y, b) ==
  PutPixels(mem, p.img, <<p.r.x0, p.img.r.y0 + y>>, [k \in 1..p.dx |-> Value(p.img, b, k)])

(* bits are gathered until a byte is full; the first and the last byte     *)
(* keep the bits that are not drawn                                        *)
writenbit(mem, p, y, b) ==
  LET i == p.img  d == depth(i)
      first == byteaddr(i, <<p.r.x0, i.r.y0 + y>>)
      skip == p.r.x0 % (Bits \div d)
      Step(s, bits) ==
        IF s.n + d = Bits
        THEN [mem |-> Put(s.mem, i.data, s.w, bits), w |-> s.w + 1, bits |-> 0, n |-> 0]
        ELSE [s EXCEPT !.bits = bits, !.n = @ + d]
      Add(s, v) == Step(s, s.bits * 2^d + v \div 2^(Bits - d))
      Line[k \in 0..p.dx] ==
        IF k = 0 THEN [mem |-> mem, w |-> first, n |-> d * skip,
                       bits |-> mem[i.data][first] \div 2^(Bits - d * skip)]
        ELSE Add(Line[k - 1], b.px[k][b.grey])
      Rest(s, sh) ==
        IF s.n = 0 THEN s.mem
        ELSE Put(s.mem, i.data, s.w, s.bits * 2^sh + (s.mem[i.data][s.w] % 2^sh))
      End(s) == Rest(s, Bits - s.n)
  IN End(Line[p.dx])

writefn(mem, p, y, b) ==
  IF depth(p.img) < Bits THEN writenbit(mem, p, y, b) ELSE writebyte(mem, p, y, b)

(***************************************************************************)
(* The calculations.  fs and fd are the fractions of source and            *)
(* destination; q is the path that multiplies the four bytes of a pixel at *)
(* once, byte by byte in the order they are in.                            *)
(***************************************************************************)
Bit(op, f) == (op \div f) % 2 = 1
DoutS == 1
SoutD == 2
DinS == 4
DatopS == 6
DoverS == 7
SinD == 8
SatopD == 9
S == 10
SoverD == 11

Mix(d, s, k, grey, q, fs, fd) ==
  LET new(at) == MUL(fs, s.px[k][at]) IN
  [j \in DOMAIN d.px[k] |->
     IF grey /\ j = d.grey THEN MUL(fs, s.px[k][s.grey]) + MUL(fd, d.px[k][j])
     ELSE IF ~grey /\ q THEN new(j) + MUL(fd, d.px[k][j])
     ELSE IF j = d.alpha THEN MUL(fs, Alpha(s, k)) + MUL(fd, d.px[k][j])
     ELSE new(IF j = d.red THEN s.red ELSE IF j = d.grn THEN s.grn ELSE s.blu) + MUL(fd, d.px[k][j])]

Quad(d, s) == Len(s.px[1]) = 4 /\ Len(d.px[1]) = 4

(* the fractions of alphacalc14, alphacalc2810, alphacalc3679, alphacalc11 *)
alphacalc14(sa, ma, da, op) ==
  [fs |-> 0, fd |-> IF op = DoutS THEN Ones - MUL(sa, ma) ELSE MUL(sa, ma)]
alphacalc2810(sa, ma, da, op) ==
  [fs |-> IF op = S THEN ma ELSE MUL(ma, IF op = SoutD THEN Ones - da ELSE da), fd |-> 0]
(* Mutation of alphacalc3679: DatopS keeps what the source does not cover. *)
alphacalc3679Out(sa, ma, da, op) ==
  [fs |-> MUL(ma, IF op = SatopD THEN da ELSE Ones - da),
   fd |-> IF op = DoverS THEN Ones ELSE Ones - MUL(sa, ma)]
alphacalc3679(sa, ma, da, op) ==
  [fs |-> MUL(ma, IF op = SatopD THEN da ELSE Ones - da),
   fd |-> IF op = DoverS THEN Ones ELSE IF op = DatopS THEN MUL(sa, ma) ELSE Ones - MUL(sa, ma)]
alphacalc11(sa, ma, da, op) == [fs |-> ma, fd |-> Ones - MUL(sa, ma)]
alphacalcS(sa, ma, da, op) == [fs |-> ma, fd |-> Ones - ma]

Fractions(sa, ma, da, op) ==
  CASE op \in {DoutS, DinS} -> alphacalc14(sa, ma, da, op)
    [] op \in {SoutD, SinD, S} -> alphacalc2810(sa, ma, da, op)
    [] op = SoverD -> alphacalc11(sa, ma, da, op)
    [] OTHER -> alphacalc3679(sa, ma, da, op)

Pixels(d, f(_)) == [d EXCEPT !.px = [k \in DOMAIN @ |-> f(k)]]
Zeros(px) == [j \in DOMAIN px |-> 0]

alphacalc(d, s, m, grey, op) ==
  LET Pixel(k) == LET f == Fractions(Alpha(s, k), m.px[k][m.alpha], Alpha(d, k), op)
                  IN Mix(d, s, k, grey, Quad(d, s), f.fs, f.fd)
  IN CASE op = 0 -> Pixels(d, LAMBDA k : Zeros(d.px[k]))
       [] op = 5 -> d
       [] OTHER -> Pixels(d, Pixel)

(* the source has no alpha: the mask is boolean, or op is SoverD *)
boolcalc14(d, s, m, grey, op) ==
  Pixels(d, LAMBDA k : IF (m.px[k][m.alpha] # 0) = (op = DoutS) THEN Zeros(d.px[k]) ELSE d.px[k])
boolcalc236789(d, s, m, grey, op) ==
  LET Pixel(k) ==
        IF m.px[k][m.alpha] # 0
        THEN Mix(d, s, k, grey, FALSE, IF Bit(op, 2) THEN Ones - Alpha(d, k) ELSE Alpha(d, k),
                 IF Bit(op, 4) THEN Ones ELSE 0)
        ELSE IF Bit(op, 1) THEN d.px[k] ELSE Zeros(d.px[k])
  IN Pixels(d, Pixel)
boolcalc1011(d, s, m, grey, op) ==
  LET Pixel(k) == IF m.px[k][m.alpha] # 0 THEN Mix(d, s, k, grey, FALSE, Ones, 0)
                  ELSE IF Bit(op, 1) THEN d.px[k] ELSE Zeros(d.px[k])
  IN Pixels(d, Pixel)
boolcalc(d, s, m, grey, op) ==
  CASE op \in {DoutS, DinS} -> boolcalc14(d, s, m, grey, op)
    [] op \in {S, SoverD} -> boolcalc1011(d, s, m, grey, op)
    [] op \in {0, 5} -> alphacalc(d, s, m, grey, op)
    [] OTHER -> boolcalc236789(d, s, m, grey, op)
opaquecalc(d, s, m, grey) ==
  Pixels(d, LAMBDA k : LET f == alphacalcS(Ones, m.px[k][m.alpha], 0, SoverD)
                       IN Mix(d, s, k, grey, FALSE, f.fs, f.fd))

(***************************************************************************)
(* alphadraw.                                                              *)
(***************************************************************************)
getparam(i, r, convgrey) ==
  [img |-> i, r |-> r, dx |-> Dx(r), convgrey |-> convgrey, alphaonly |-> FALSE]

MAXBCACHE == 16
replcache(i, r) == i.repl /\ Dy(i.r) <= MAXBCACHE /\ Dy(i.r) < Dy(r)
(* A line that was read before is taken from the cache. *)
replread(cache, cached, y, line) == IF cached /\ y \in DOMAIN cache THEN cache[y] ELSE line
Keep(cache, y, line) == [x \in DOMAIN cache \cup {y} |-> IF x = y THEN line ELSE cache[x]]

(* The lines of src in dst's format: one period, repeated *)
genconv(mem, spar, dst, y) ==
  LET n == Smaller(spar.dx, Dx(spar.img.r))
      Repeat(b) == [k \in 1..spar.dx |-> Value(dst, b, 1 + ((k - 1) % n))]
  IN Repeat(readfn(mem, [spar EXCEPT !.dx = n], y))

(* boolcopy copies the pixels where the mask is set, from left to right;   *)
(* boolmemmove all of them at once.  The source is in a buffer or, when it *)
(* has the format of dst, where it is.                                     *)
Opaque(par) == par.simplemask /\ par.mval = 2^depth(par.mask) - 1          \* Fullmask

boolcopy(mem, par, spar, y, srcy, m) ==
  LET inplace == par.src.chan = par.dst.chan /\ ~par.src.repl
      From(n, conv, k) ==
        IF inplace THEN PixelAt(IF Opaque(par) THEN mem ELSE n, par.src, At(spar, srcy, k)) ELSE conv[k]
      Step(n, conv, k) ==
        IF m.px[k][m.grey] = 0 /\ ~Opaque(par) THEN n
        ELSE PutPixel(n, par.dst, <<par.r.x0 + k - 1, par.r.y0 + y>>, From(n, conv, k))
      Copied(conv) ==
        LET Line[k \in 0..Dx(par.r)] == IF k = 0 THEN mem ELSE Step(Line[k - 1], conv, k)
        IN Line[Dx(par.r)]
  IN Copied(IF inplace THEN <<>> ELSE genconv(mem, spar, par.dst, srcy))

alphadraw(mem0, par) ==
  LET src == par.src  dst == par.dst  mask == par.mask
      grey == Fgrey(dst)
      bool == ~Falpha(src) /\ mask.chan = GREY1
      spar == getparam(src, par.sr, grey)
      dpar == getparam(dst, par.r, grey)
      mpar == [getparam(mask, par.mr, ~Falpha(mask)) EXCEPT !.alphaonly = Falpha(mask)]
      calc(d, s, m) ==
        IF bool THEN boolcalc(d, s, m, grey, par.op)
        ELSE IF ~Falpha(mask) /\ par.op = SoverD /\ ~Falpha(src) THEN opaquecalc(d, s, m, grey)
        ELSE alphacalc(d, s, m, grey, par.op)
      rdmask(mem, y) == IF Falpha(mask) THEN readbyte(mem, mpar, y) ELSE greymaskread(mem, mpar, y)
      Row(st, y) ==
        LET srcy == (y + par.sr.y0 - src.r.y0) % Dy(src.r)
            masky == (y + par.mr.y0 - mask.r.y0) % Dy(mask.r)
            dsty == y + par.r.y0 - dst.r.y0
            Written(bs, bm) ==
              [mem |-> writefn(st.mem, dpar, dsty, calc(readfn(st.mem, dpar, dsty), bs, bm)),
               sc |-> Keep(st.sc, srcy, bs), mc |-> Keep(st.mc, masky, bm)]
            Copied(bm) ==
              [st EXCEPT !.mem = boolcopy(@, par, spar, y, srcy, bm), !.mc = Keep(@, masky, bm)]
            bmask == replread(st.mc, replcache(mask, par.mr), masky, rdmask(st.mem, masky))
        IN IF bool /\ depth(dst) >= Bits /\ par.op = SoverD THEN Copied(bmask)
           ELSE Written(replread(st.sc, replcache(src, par.sr), srcy, readfn(st.mem, spar, srcy)), bmask)
      ys == Order(par, Dy(par.r))
      Line[n \in 0..Len(ys)] ==
        IF n = 0 THEN [mem |-> mem0, sc |-> <<>>, mc |-> <<>>] ELSE Row(Line[n - 1], ys[n])
  IN Line[Len(ys)].mem

(***************************************************************************)
(* memoptdraw and chardraw, with the conditions under which they are used. *)
(***************************************************************************)
CanFill(par) == par.simplesrc /\ Opaque(par) /\ par.srgba.a = Ones /\ par.op \in {S, SoverD}

CanCopy(par) ==
  /\ Opaque(par) /\ ~par.src.repl
  /\ depth(par.src) >= Bits /\ par.src.chan = par.dst.chan /\ ~Falpha(par.src)
  /\ par.op \in {S, SoverD}

CanBitCopy(par) ==
  /\ ~par.src.repl /\ ~par.mask.repl
  /\ par.dst.chan = GREY1 /\ par.src.chan = GREY1 /\ par.mask.chan = GREY1
  /\ par.r.x0 % Bits = par.sr.x0 % Bits /\ par.r.x0 % Bits = par.mr.x0 % Bits

CanChar(par) ==
  /\ par.simplesrc /\ ~par.mask.repl /\ depth(par.mask) = 1
  /\ ~Falpha(par.src) /\ depth(par.dst) >= Bits /\ par.dst.data # par.src.data
  /\ par.op = SoverD

(* The bits of a line of the mask from the left; a byte is fetched when    *)
(* its first bit is needed, the first byte also when bits are skipped.     *)
chardraw(mem0, par) ==
  LET bsh == par.mr.x0 % Bits
      Step(st, bits, i, k, y) ==
        [bits |-> bits, q |-> IF i = Bits - 1 THEN st.q + 1 ELSE st.q,
         mem |-> IF (bits \div 2^i) % 2 = 0 THEN st.mem
                 ELSE PutPixel(st.mem, par.dst, <<par.r.x0 + k, par.r.y0 + y>>, par.sdval)]
      Draw(st, i, k, y) == Step(st, IF i = Bits - 1 THEN mem0[par.mask.data][st.q] ELSE st.bits, i, k, y)
      Row(mem, y, rp) ==
        LET Line[k \in 0..Dx(par.r)] ==
              IF k = 0 THEN [mem |-> mem, bits |-> mem0[par.mask.data][rp], q |-> IF bsh = 0 THEN rp ELSE rp + 1]
              ELSE Draw(Line[k - 1], (-bsh - k) % Bits, k - 1, y)
        IN Line[Dx(par.r)].mem
      Lines[n \in 0..Dy(par.r)] ==
        IF n = 0 THEN mem0
        ELSE Row(Lines[n - 1], n - 1, byteaddr(par.mask, <<par.mr.x0, par.mr.y0 + n - 1>>))
  IN Lines[Dy(par.r)]

Simple(i) == i.repl /\ Dx(i.r) = 1 /\ Dy(i.r) = 1

Params(mem, dst, r, src, p0, mask, p1, op) ==
  LET colour == imgtorgba(src, pixelbits(mem, src, MinPt(src.r)))
      Par(clip) ==
        [dst |-> dst, r |-> clip.r, src |-> src, sr |-> clip.sr, mask |-> mask, mr |-> clip.mr,
         op |-> op, simplesrc |-> Simple(src), simplemask |-> Simple(mask),
         srgba |-> colour, sdval |-> rgbatoimg(dst, colour), mval |-> pixelbits(mem, mask, MinPt(mask.r))]
  IN Par(drawclip(dst, r, src, p0, mask, p1))

(* nothing to draw, or a transparent source or mask over the destination *)
NoEffect(par) ==
  \/ par.r.x0 = par.r.x1
  \/ /\ Bit(par.op, DoutS)
     /\ (par.simplesrc /\ par.srgba.a = 0) \/ (par.simplemask /\ par.mval = 0)

memimagedraw(mem, dst, r, src, p0, mask, p1, op) ==
  LET Paint(par) ==
        IF NoEffect(par) THEN mem
        ELSE IF CanFill(par) THEN Fill(mem, dst, par.r, par.sdval)
        ELSE IF CanCopy(par) THEN Copy(mem, par)
        ELSE IF CanBitCopy(par) THEN BitCopy(mem, par)
        ELSE IF CanChar(par) THEN chardraw(mem, par)
        ELSE alphadraw(mem, par)
  IN Paint(Params(mem, dst, r, src, p0, mask, p1, op))

(***************************************************************************)
(* transfer.c and memfillcolor.                                            *)
(***************************************************************************)
(* loadmemimage: lines of bytes, aligned as in the image *)
loadmemimage(mem, i, r, data) ==
  LET l == unitsperline(r, depth(i), Bits)
      m == IF depth(i) >= Bits THEN Ones
           ELSE Ones \div 2^((r.x0 % (Bits \div depth(i))) * depth(i))
      rpart == IF depth(i) >= Bits THEN 0 ELSE (r.x1 % (Bits \div depth(i))) * depth(i)
      mr == Ones ^^ (Ones \div 2^rpart)
      Mask(k) == IF l = 1 THEN IF rpart # 0 THEN m ^^ (Ones \div 2^rpart) ELSE m
                 ELSE IF k = 1 THEN m
                 ELSE IF k = l /\ rpart # 0 THEN mr ELSE Ones
      Row(n, y) == Masked(n, i.data, byteaddr(i, <<r.x0, y>>),
                          SubSeq(data, (y - r.y0) * l + 1, (y - r.y0 + 1) * l), [k \in 1..l |-> Mask(k)])
      Line[n \in 0..Dy(r)] == IF n = 0 THEN mem ELSE Row(Line[n - 1], r.y0 + n - 1)
  IN IF ~rectinrect(r, i.r) \/ Len(data) < l * Dy(r) THEN mem ELSE Line[Dy(r)]

unloadmemimage(mem, i, r) ==
  LET l == unitsperline(r, depth(i), Bits)
  IN [k \in 1..(l * Dy(r)) |->
        mem[i.data][byteaddr(i, <<r.x0, r.y0 + (k - 1) \div l>>) + ((k - 1) % l)]]

(* every line, to the end of its last word *)
DNofill == [r |-> Ones, g |-> Ones, b |-> Ones, a |-> 0]
memfillcolor(mem, i, c) ==
  LET v == rgbatoimg(i, c)
  IN IF c = DNofill THEN mem
     ELSE IF nb(i) = 3 THEN Fill(mem, i, i.r, v)
     ELSE PutBytes(mem, i.data, 0, [a \in 1..(i.width * Dy(i.r)) |->
            IF depth(i) < Bits THEN replbit(depth(i), v) ELSE ByteOf(v, (a - 1) % nb(i))])

-----------------------------------------------------------------------------
(***************************************************************************)
(* What drawing must do, one pixel at a time.                              *)
(***************************************************************************)
(* Porter and Duff's operators: op says which parts of source and          *)
(* destination count, inside and outside of each other.                    *)
Compose(dst, d, s, m, op) ==
  LET ma == m
      fs == MUL(ma, (IF Bit(op, SinD) THEN d.a ELSE 0) + (IF Bit(op, SoutD) THEN Ones - d.a ELSE 0))
      fd == (IF Bit(op, DinS) THEN MUL(s.a, ma) ELSE 0)
              + (IF Bit(op, DoutS) THEN Ones - MUL(s.a, ma) ELSE 0)
      Sum(x, y) == MUL(fs, x) + MUL(fd, y)
      k == Sum(RGB2K(s), d.r)
  IN IF Fgrey(dst) THEN [r |-> k, g |-> k, b |-> k, a |-> Ones]
     ELSE [r |-> Sum(s.r, d.r), g |-> Sum(s.g, d.g), b |-> Sum(s.b, d.b), a |-> Sum(s.a, d.a)]

Covers(i, p) == ptinrect(p, i.clipr) /\ (i.repl \/ ptinrect(p, i.r))
ColourAt(mem, i, p) == imgtorgba(i, PixelAt(mem, i, IF i.repl THEN drawrepl(i.r, p) ELSE p))
MaskAt(mem, i, p) == LET c == ColourAt(mem, i, p) IN IF Falpha(i) THEN c.a ELSE RGB2K(c)

(* The lines of an image, with the pixels that fill its last bytes. *)
Area(i) == [i.r EXCEPT !.x0 = IF depth(i) < Bits THEN @ - (@ % (Bits \div depth(i))) ELSE @,
                       !.x1 = IF depth(i) < Bits THEN @ + ((-@) % (Bits \div depth(i))) ELSE @]
BytesOf(i) == {byteaddr(i, p) + k : p \in Points(Area(i)), k \in 0..(Larger(nb(i), 1) - 1)}

(* The points of a draw c that dst, src and mask cover. *)
From(c, p, q) == addpt(q, subpt(p, MinPt(c.r)))
Drawn(c, p) ==
  /\ ptinrect(p, c.r) /\ ptinrect(p, c.dst.r) /\ Covers(c.dst, p)
  /\ Covers(c.src, From(c, p, c.p0)) /\ Covers(c.mask, From(c, p, c.p1))

(* In new each of these points is composed from the pixels there were in   *)
(* c.mem...                                                                *)
Composed(c, new) ==
  \A p \in Points(c.dst.r) : Drawn(c, p) =>
    PixelAt(new, c.dst, p) =
      rgbatoimg(c.dst, Compose(c.dst, ColourAt(c.mem, c.dst, p), ColourAt(c.mem, c.src, From(c, p, c.p0)),
                               MaskAt(c.mem, c.mask, From(c, p, c.p1)), c.op))

(* ... and every other bit is as it was. *)
Kept(c, new) ==
  /\ \A d \in DOMAIN c.mem \ {c.dst.data} : new[d] = c.mem[d]
  /\ \A a \in DOMAIN c.mem[c.dst.data] \ BytesOf(c.dst) : new[c.dst.data][a] = c.mem[c.dst.data][a]
  /\ \A p \in Points(Area(c.dst)) : ~Drawn(c, p) => PixelAt(new, c.dst, p) = PixelAt(c.mem, c.dst, p)

(* the pixels of r come from image j, all others are as they were *)
Loaded(mem, after, i, j, r) ==
  /\ \A p \in Points(i.r) : PixelAt(after, i, p) = IF ptinrect(p, r) THEN PixelAt(mem, j, p) ELSE PixelAt(mem, i, p)
  /\ \A a \in DOMAIN mem[i.data] \ BytesOf(i) : after[i.data][a] = mem[i.data][a]
=============================================================================
