-------------------------- MODULE ArithmeticCalls ---------------------------
(***************************************************************************)
(* Integer arithmetic on every pair of small words.                        *)
(***************************************************************************)
EXTENDS Calls, Vlrt

(* 64-bit arithmetic on every pair of small words *)
Arithmetic ==
  \E n, d \in Vlongs : call' = [f |-> "arithmetic", n |-> n, d |-> d] /\ result' = _divv(n, IF _testv(d) THEN d ELSE V(1, 0))

Doubles == [neg : BOOLEAN, e : (-2 * W - 1)..(W + 1), mhi : 0..(2^MHi - 1), mlo : Words]
FromDouble == \E x \in Doubles : call' = [f |-> "_d2v", x |-> x] /\ result' = _d2v(x)

(* the interpreter's integers, in words of five bits *)
IN5 == INSTANCE Ints WITH WordBits <- 5
Tagged == \E op \in IN5!Ops, x, y \in -8..7 :
            call' = [f |-> "tagged", op |-> op, x |-> x, y |-> y]
              /\ result' = IF IN5!Defined(op, y) THEN IN5!Arith(op, IN5!Val_long(x), IN5!Val_long(y)) ELSE <<>>

(* Sums, quotients, remainders, shifts, comparisons and conversions of 64-  *)
(* bit integers made of two words are the exact ones (vlrt.c), except the   *)
(* overflowing quotient of the most negative word by -1; the interpreter's  *)
(* instructions compute on tagged words what they mean on integers          *)
(* (interp.c:768).                                                          *)
ArithmeticExact ==
  /\ call.f = "arithmetic" =>
       /\ DivisionExact(call.n, call.d) /\ OrderExact(call.n, call.d)
       /\ call.d.hi = 0 => ShiftsExact(call.n, call.d.lo)
       /\ call.d = V(0, 0) => ConversionsExact(call.n)
       /\ call.n.hi = 0 => \A k \in {2, W} : AssignExact(k, call.n.lo % 2^k, call.d)
  /\ call.f = "_d2v" => DoubleExact(call.x)
  /\ call.f = "tagged" => IN5!IntExact(call.op, call.x, call.y)

=============================================================================
