----------------------------- MODULE TaggedInts -----------------------------
(***************************************************************************)
(* Integers as tagged words (src/kernel/Byterun/mlvalues.h).  A word has   *)
(* WordBits bits (32) and is given by its value as a long; the integer x   *)
(* is the word 2 x + 1.                                                    *)
(***************************************************************************)
EXTENDS Integers

CONSTANT WordBits

Base == 2^WordBits
Unsigned(w) == w % Base
AsLong(n) == LET u == n % Base IN IF u >= Base \div 2 THEN u - Base ELSE u
Longs == -(Base \div 2)..(Base \div 2 - 1)

Val_long(x) == AsLong(2 * x + 1)
Long_val(w) == w \div 2
Val_not(w) == Val_long(1 - Long_val(w))           \* 4 - w

(* The integers of the language have one bit less than a word. *)
Integer(n) == LET u == n % (Base \div 2) IN IF u >= Base \div 4 THEN u - Base \div 2 ELSE u

(* the instructions that compute on integers *)
Ops == {"NEGINT", "ADDINT", "SUBINT", "MULINT", "DIVINT", "MODINT", "ANDINT", "ORINT", "XORINT",
        "LSLINT", "LSRINT", "ASRINT", "EQ", "NEQ", "LTINT", "LEINT", "GTINT", "GEINT", "OFFSETINT"}
=============================================================================
