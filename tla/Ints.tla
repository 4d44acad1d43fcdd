-------------------------------- MODULE Ints --------------------------------
(***************************************************************************)
(* The integer instructions of the byte-code interpreter on tagged words   *)
(* (src/kernel/Byterun/interp.c), and what they mean on integers.          *)
(***************************************************************************)
EXTENDS TaggedInts, Bitwise

WordAnd(a, b) == AsLong(Unsigned(a) & Unsigned(b))
WordOr(a, b) == AsLong(Unsigned(a) | Unsigned(b))
WordXor(a, b) == AsLong(Unsigned(a) ^^ Unsigned(b))
Quotient(n, d) ==
  LET q == (IF n < 0 THEN -n ELSE n) \div (IF d < 0 THEN -d ELSE d)
  IN IF (n < 0) = (d < 0) THEN q ELSE -q
Truth(b) == Val_long(IF b THEN 1 ELSE 0)

(* the instruction op on the words accu = a and *sp++ = b; the divisor is  *)
(* not zero                                                                *)
Arith(op, a, b) ==
  CASE op = "NEGINT" -> AsLong(2 - a)
    [] op = "ADDINT" -> AsLong(a + b - 1)
    [] op = "SUBINT" -> AsLong(a - b + 1)
    [] op = "MULINT" -> Val_long(Long_val(a) * Long_val(b))
    [] op = "DIVINT" -> Val_long(Quotient(Long_val(a), Long_val(b)))
    [] op = "MODINT" -> Val_long(Long_val(a) - Long_val(b) * Quotient(Long_val(a), Long_val(b)))
    [] op = "ANDINT" -> WordAnd(a, b)
    [] op = "ORINT" -> WordOr(a, b)
    [] op = "XORINT" -> WordOr(WordXor(a, b), 1)
    [] op = "LSLINT" -> AsLong((a - 1) * 2^Long_val(b) + 1)
    [] op = "LSRINT" -> WordOr(AsLong(Unsigned(a - 1) \div 2^Long_val(b)), 1)
    [] op = "ASRINT" -> WordOr((a - 1) \div 2^Long_val(b), 1)
    [] op = "EQ" -> Truth(a = b)
    [] op = "NEQ" -> Truth(a # b)
    [] op = "LTINT" -> Truth(a < b)
    [] op = "LEINT" -> Truth(a <= b)
    [] op = "GTINT" -> Truth(a > b)
    [] op = "GEINT" -> Truth(a >= b)
    [] op = "OFFSETINT" -> AsLong(a + 2 * Long_val(b))

-----------------------------------------------------------------------------
Bit(x, k) == (x \div 2^k) % 2
FromBits(f) == LET Sum[k \in 0..(WordBits - 1)] == IF k = 0 THEN 0 ELSE Sum[k - 1] + f[k - 1] * 2^(k - 1)
               IN Integer(Sum[WordBits - 1])
Both(P(_, _), x, y) == FromBits([k \in 0..(WordBits - 2) |-> IF P(Bit(x, k) = 1, Bit(y, k) = 1) THEN 1 ELSE 0])
Bool(b) == IF b THEN 1 ELSE 0

(* what the operation means on integers *)
Meaning(op, x, y) ==
  CASE op = "NEGINT" -> Integer(-x)
    [] op \in {"ADDINT", "OFFSETINT"} -> Integer(x + y)
    [] op = "SUBINT" -> Integer(x - y)
    [] op = "MULINT" -> Integer(x * y)
    [] op = "DIVINT" -> Integer(CHOOSE q \in -Base..Base :
                              \E r \in (-Base)..Base : /\ x = q * y + r /\ r * r < y * y
                                                       /\ r = 0 \/ (r > 0) = (x > 0))
    [] op = "MODINT" -> CHOOSE r \in (-Base)..Base :
                          /\ r * r < y * y /\ (r = 0 \/ (r > 0) = (x > 0))
                          /\ \E q \in -Base..Base : x = q * y + r
    [] op = "ANDINT" -> Both(LAMBDA p, q : p /\ q, x, y)
    [] op = "ORINT" -> Both(LAMBDA p, q : p \/ q, x, y)
    [] op = "XORINT" -> Both(LAMBDA p, q : p # q, x, y)
    [] op = "LSLINT" -> Integer(x * 2^y)
    [] op = "LSRINT" -> Integer((x % (Base \div 2)) \div 2^y)
    [] op = "ASRINT" -> x \div 2^y
    [] op = "EQ" -> Bool(x = y)
    [] op = "NEQ" -> Bool(x # y)
    [] op = "LTINT" -> Bool(x < y)
    [] op = "LEINT" -> Bool(x <= y)
    [] op = "GTINT" -> Bool(x > y)
    [] op = "GEINT" -> Bool(x >= y)

Defined(op, y) == /\ op \in {"DIVINT", "MODINT"} => y # 0
                  /\ op \in {"LSLINT", "LSRINT", "ASRINT"} => y \in 0..(WordBits - 2)
IntExact(op, x, y) ==
  Defined(op, y) => Arith(op, Val_long(x), Val_long(y)) = Val_long(Meaning(op, x, y))
=============================================================================
