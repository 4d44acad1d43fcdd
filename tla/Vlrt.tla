-------------------------------- MODULE Vlrt --------------------------------
(***************************************************************************)
(* 64-bit arithmetic made of two 32-bit words, for a compiler whose target *)
(* has none (src/kernel/Libc/arm/vlrt.c).  A word has W bits here, so that *)
(* every pair of operands can be tried; a Vlong is [lo, hi].  A double has *)
(* a sign, an exponent e relative to the point right of its mantissa (1075 *)
(* minus the biased exponent is -e) and a mantissa of MHi + W bits below   *)
(* the implicit one.                                                       *)
(***************************************************************************)
EXTENDS Integers, Sequences, Bitwise

CONSTANTS
  W,    \* bits in a ulong (32)
  MHi   \* bits of the mantissa of a double that are in its high word (20)

Base == 2^W
Words == 0..(Base - 1)
Vlongs == [lo : Words, hi : Words]
V(lo, hi) == [lo |-> lo, hi |-> hi]

(* the machine's own operations on ulong and long *)
Wrap(n) == n % Base
Long(n) == IF n >= Base \div 2 THEN n - Base ELSE n          \* (long)n
Shl(n, k) == Wrap(n * 2^k)
Shr(n, k) == n \div 2^k
Sar(n, k) == Wrap(Long(n) \div 2^k)                          \* (long)n >> k
Neg(n) == Wrap(-n)
Com(n) == Base - 1 - n
Signed(n) == n >= Base \div 2                                \* n & SIGN(32)
Quo(n, d) == LET q == (IF n < 0 THEN -n ELSE n) \div (IF d < 0 THEN -d ELSE d)
             IN IF (n < 0) = (d < 0) THEN q ELSE -q          \* C's n / d
Rem(n, d) == n - d * Quo(n, d)
SignWord(v) == Sar(v.lo, W - 1)                              \* ((long)v.lo) >> 31

_addv(a, b) ==
  LET lo == Wrap(a.lo + b.lo)
  IN V(lo, Wrap(a.hi + b.hi + (IF lo < a.lo THEN 1 ELSE 0)))

_subv(a, b) ==
  LET lo == Wrap(a.lo - b.lo)
  IN V(lo, Wrap(a.hi - b.hi - (IF lo > a.lo THEN 1 ELSE 0)))

vneg(v) == IF v.lo = 0 THEN V(0, Neg(v.hi)) ELSE V(Neg(v.lo), Com(v.hi))

(* Overflow is NoVlong: the C code converts a double that does not fit. *)
NoVlong == V(-1, -1)

_d2v(x) ==
  LET xhi == x.mhi + 2^MHi  xlo == x.mlo  sh == -x.e
      y == CASE sh = 0 -> V(xlo, xhi)
             [] sh > 0 /\ sh < W -> V(Shr(xlo, sh) | Shl(xhi, W - sh), Shr(xhi, sh))
             [] sh = W -> V(xhi, 0)
             [] sh > W /\ sh < 2 * W -> V(Shr(xhi, sh - W), 0)
             [] sh >= 2 * W -> V(0, 0)
             [] sh < 0 /\ -sh <= W - MHi - 2 ->
                  V(Shl(xlo, -sh), Shl(xhi, -sh) | Shr(xlo, W + sh))
             [] OTHER -> NoVlong
  IN IF x.neg /\ y # NoVlong THEN vneg(y) ELSE y

(* the value of the double, which is exact here *)
_v2d(v) ==
  LET Mag(u) == Long(u.hi) * Base + u.lo
  IN IF Signed(v.hi) THEN -Mag(vneg(v)) ELSE Mag(v)

(***************************************************************************)
(* dodiv: the divisor is shifted left until it reaches the numerator, then *)
(* back one bit at a time.                                                 *)
(***************************************************************************)
ltu(a, b) == a.hi < b.hi \/ (a.hi = b.hi /\ a.lo < b.lo)
Double(v) == V(Shl(v.lo, 1), Shl(v.hi, 1) | Shr(v.lo, W - 1))
Half(v) == V(Shr(v.lo, 1) | Shl(v.hi, W - 1), Shr(v.hi, 1))

RECURSIVE ShiftUp(_, _, _)
ShiftUp(den, top, i) ==
  IF ltu(den, top) THEN ShiftUp(Double(den), top, i + 1) ELSE [den |-> den, i |-> i]

(* Mutation of divide: the last bit is not tried. *)
RECURSIVE divideShort(_, _, _, _)
divideShort(num, den, quo, i) ==
  IF i <= 0 THEN [q |-> quo, r |-> num]
  ELSE IF ltu(num, den) THEN divideShort(num, Half(den), Double(quo), i - 1)
  ELSE divideShort(_subv(num, den), Half(den), [Double(quo) EXCEPT !.lo = @ + 1], i - 1)

RECURSIVE divide(_, _, _, _)
divide(num, den, quo, i) ==
  IF i < 0 THEN [q |-> quo, r |-> num]
  ELSE IF ltu(num, den) THEN divide(num, Half(den), Double(quo), i - 1)
  ELSE divide(_subv(num, den), Half(den), [Double(quo) EXCEPT !.lo = @ + 1], i - 1)

dodiv(num, den) ==
  LET top == IF Signed(num.hi) THEN V(0, Base \div 2) ELSE num
      Back(s) == divide(num, s.den, V(0, 0), s.i)
  IN Back(ShiftUp(den, top, 0))

_divvu(n, d) == IF n.hi = 0 /\ d.hi = 0 THEN V(n.lo \div d.lo, 0) ELSE dodiv(n, d).q
_modvu(n, d) == IF n.hi = 0 /\ d.hi = 0 THEN V(n.lo % d.lo, 0) ELSE dodiv(n, d).r

Abs(v) == IF Signed(v.hi) THEN vneg(v) ELSE v
InWord(v) == v.hi = SignWord(v)
FromLong(n) == V(Wrap(n), IF Signed(Wrap(n)) THEN Base - 1 ELSE 0)

_divv(n, d) ==
  LET q == dodiv(Abs(n), Abs(d)).q
  IN IF InWord(n) /\ InWord(d) THEN FromLong(Quo(Long(n.lo), Long(d.lo)))
     ELSE IF Signed(n.hi) # Signed(d.hi) THEN vneg(q) ELSE q

_modv(n, d) ==
  LET r == dodiv(Abs(n), Abs(d)).r
  IN IF InWord(n) /\ InWord(d) THEN FromLong(Rem(Long(n.lo), Long(d.lo)))
     ELSE IF Signed(n.hi) THEN vneg(r) ELSE r

_rshav(a, b) ==
  CASE b >= 2 * W -> V(Sar(a.hi, W - 1), Sar(a.hi, W - 1))
    [] b >= W /\ b < 2 * W -> V(Sar(a.hi, b - W), Sar(a.hi, W - 1))
    [] b <= 0 -> a
    [] OTHER -> V(Shl(a.hi, W - b) | Shr(a.lo, b), Sar(a.hi, b))

_rshlv(a, b) ==
  CASE b >= 2 * W -> V(0, 0)
    [] b >= W /\ b < 2 * W -> V(Shr(a.hi, b - W), 0)
    [] b <= 0 -> a
    [] OTHER -> V(Shl(a.hi, W - b) | Shr(a.lo, b), Shr(a.hi, b))

_lshv(a, b) ==
  CASE b >= 2 * W -> V(0, 0)
    [] b >= W /\ b < 2 * W -> V(0, Shl(a.lo, b - W))
    [] b <= 0 -> a
    [] OTHER -> V(Shl(a.lo, b), Shr(a.lo, W - b) | Shl(a.hi, b))

_andv(a, b) == V(a.lo & b.lo, a.hi & b.hi)
_orv(a, b) == V(a.lo | b.lo, a.hi | b.hi)
_xorv(a, b) == V(a.lo ^^ b.lo, a.hi ^^ b.hi)

_vpp(r) == [old |-> r, new |-> V(Wrap(r.lo + 1), Wrap(r.hi + (IF Wrap(r.lo + 1) = 0 THEN 1 ELSE 0)))]
_ppv(r) == [old |-> _vpp(r).new, new |-> _vpp(r).new]
_vmm(r) == [old |-> r, new |-> V(Wrap(r.lo - 1), Wrap(r.hi - (IF r.lo = 0 THEN 1 ELSE 0)))]

_mmv(r) == [old |-> _vmm(r).new, new |-> _vmm(r).new]

(***************************************************************************)
(* _vasop: lv op= rv, where lv has n bits; a signed lv is extended by      *)
(* `t.lo >> 31' on an unsigned t.lo, so that the high word is 1 and not -1.*)
(***************************************************************************)
Extend(n, lv) == IF lv >= 2^(n - 1) THEN Wrap(lv - 2^n) ELSE lv   \* (t << 24) >> 24
Operand(n, signed, lv) ==
  IF signed THEN V(Extend(n, lv), Shr(Extend(n, lv), W - 1)) ELSE V(lv, 0)

_vasop(lv, fn, n, signed, rv) ==
  LET Store(u) == [lv |-> u.lo % 2^n, ret |-> u] IN Store(fn[Operand(n, signed, lv), rv])

(* _sc2v, _sh2v, _si2v, _sl2v and _uc2v, _uh2v, _ui2v, _ul2v, _p2v *)
s2v(n, x) == V(Extend(n, x % 2^n), Sar(Extend(n, x % 2^n), W - 1))
u2v(n, x) == V(x % 2^n, 0)
(* _v2sc to _v2si, and _v2uc to _v2ui *)
v2s(n, v) == Extend(n, v.lo % 2^n)
v2u(n, v) == v.lo % 2^n

_testv(v) == v.lo # 0 \/ v.hi # 0
_eqv(a, b) == a.lo = b.lo /\ a.hi = b.hi
_nev(a, b) == a.lo # b.lo \/ a.hi # b.hi
_ltv(a, b) == Long(a.hi) < Long(b.hi) \/ (a.hi = b.hi /\ a.lo < b.lo)
_lev(a, b) == Long(a.hi) < Long(b.hi) \/ (a.hi = b.hi /\ a.lo <= b.lo)
_gtv(a, b) == Long(a.hi) > Long(b.hi) \/ (a.hi = b.hi /\ a.lo > b.lo)
_gev(a, b) == Long(a.hi) > Long(b.hi) \/ (a.hi = b.hi /\ a.lo >= b.lo)
_lov(a, b) == a.hi < b.hi \/ (a.hi = b.hi /\ a.lo < b.lo)
_lsv(a, b) == a.hi < b.hi \/ (a.hi = b.hi /\ a.lo <= b.lo)
_hiv(a, b) == a.hi > b.hi \/ (a.hi = b.hi /\ a.lo > b.lo)
_hsv(a, b) == a.hi > b.hi \/ (a.hi = b.hi /\ a.lo >= b.lo)

-----------------------------------------------------------------------------
(***************************************************************************)
(* What the operations must compute, on the integers they stand for.       *)
(***************************************************************************)
Unsigned(v) == v.hi * Base + v.lo
IntOf(v) == LET u == Unsigned(v) IN IF Signed(v.hi) THEN u - Base * Base ELSE u
Of(n) == LET u == n % (Base * Base) IN V(u % Base, u \div Base)
MostNegative == -(Base * Base) \div 2

(* a quotient of two words that does not fit in a word *)
WordOverflow(n, d) == IntOf(n) = -(Base \div 2) /\ IntOf(d) = -1

(* Sums, differences, quotients and remainders, signed and unsigned, are   *)
(* the exact ones modulo 2^(2W), whichever path (words or dodiv) is taken. *)
DivisionExact(n, d) ==
  /\ _addv(n, d) = Of(IntOf(n) + IntOf(d)) /\ _subv(n, d) = Of(IntOf(n) - IntOf(d))
  /\ _testv(d) => /\ _divvu(n, d) = Of(Unsigned(n) \div Unsigned(d))
                  /\ _modvu(n, d) = Of(Unsigned(n) % Unsigned(d))
                  /\ ~WordOverflow(n, d) => _divv(n, d) = Of(Quo(IntOf(n), IntOf(d)))
                  /\ _modv(n, d) = Of(Rem(IntOf(n), IntOf(d)))

(* Shifts by any count, comparisons, bits, conversions and increments.     *)
ShiftsExact(n, b) ==
  /\ _rshav(n, b) = Of(IntOf(n) \div 2^b)
  /\ _rshlv(n, b) = Of(Unsigned(n) \div 2^b)
  /\ _lshv(n, b) = Of(Unsigned(n) * 2^b)

OrderExact(n, d) ==
  /\ _ltv(n, d) = (IntOf(n) < IntOf(d)) /\ _lev(n, d) = (IntOf(n) <= IntOf(d))
  /\ _lov(n, d) = (Unsigned(n) < Unsigned(d)) /\ _lsv(n, d) = (Unsigned(n) <= Unsigned(d))
  /\ _eqv(n, d) = (IntOf(n) = IntOf(d)) /\ _nev(n, d) = (IntOf(n) # IntOf(d))
  /\ _gtv(n, d) = (IntOf(n) > IntOf(d)) /\ _gev(n, d) = (IntOf(n) >= IntOf(d))
  /\ _hiv(n, d) = (Unsigned(n) > Unsigned(d)) /\ _hsv(n, d) = (Unsigned(n) >= Unsigned(d))
  /\ _addv(_xorv(n, d), _lshv(_andv(n, d), 1)) = _addv(n, d)
  /\ _addv(_orv(n, d), _andv(n, d)) = _addv(n, d)

ConversionsExact(n) ==
  /\ _ppv(n).old = Of(IntOf(n) + 1) /\ _mmv(n).old = Of(IntOf(n) - 1)
  /\ \A k \in 1..W : /\ v2u(k, n) = IntOf(n) % 2^k
                     /\ v2u(k, s2v(k, v2s(k, n))) = v2u(k, n)
                     /\ IntOf(s2v(k, n.lo)) \in -(2^(k - 1))..(2^(k - 1) - 1)
                     /\ IntOf(u2v(k, n.lo)) = n.lo % 2^k
  /\ IntOf(n) # MostNegative => _v2d(n) = IntOf(n)

(* the integer part of a double that fits *)
Mantissa(x) == (2^MHi + x.mhi) * Base + x.mlo
DoubleExact(x) ==
  _d2v(x) # NoVlong =>
    LET m == IF x.e >= 0 THEN Mantissa(x) * 2^(x.e) ELSE Mantissa(x) \div 2^(-x.e)
    IN _d2v(x) = Of(IF x.neg THEN -m ELSE m)

(* lv op= rv of a narrow lv keeps the right low bits for +, - and bits,    *)
(* and for an unsigned lv for every operation.                             *)
AssignExact(n, lv, rv) ==
  LET value(signed) == IF signed /\ lv >= 2^(n - 1) THEN lv - 2^n ELSE lv
      Kept(Op(_, _), s, low) == _vasop(lv, [a, b \in Vlongs |-> Op(a, b)], n, s, rv).lv = low % 2^n
  IN /\ \A s \in BOOLEAN : /\ Kept(_addv, s, value(s) + IntOf(rv)) /\ Kept(_subv, s, value(s) - IntOf(rv))
                           /\ Kept(_andv, s, lv & rv.lo) /\ Kept(_xorv, s, lv ^^ (rv.lo % 2^n))
     /\ _testv(rv) => _vasop(lv, [a, b \in Vlongs |-> _divvu(a, b)], n, FALSE, rv).lv = (lv \div Unsigned(rv)) % 2^n
=============================================================================
