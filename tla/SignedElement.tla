--------------------------- MODULE SignedElement ---------------------------
(***************************************************************************)
(* SignedElement (signed_element.rs): an Element and a sign.  IntOf is the *)
(* integer a pair stands for, the reference for every operation.           *)
(***************************************************************************)
EXTENDS Element

SignedElements == [value : U256, negative : BOOLEAN]

(* new: there is one zero.  The fields are public and the type can be      *)
(* deserialized, so other code may hold a pair that new never returns.     *)
signed(value, negative) == [value |-> value, negative |-> negative /\ value # 0]

Normal == {s \in SignedElements : s.negative => s.value # 0}

IntOf(s) == IF s.negative THEN 0 - s.value ELSE s.value

(* ZERO, ONE, NEG_ONE. *)
ZERO    == [value |-> 0, negative |-> FALSE]
ONE     == [value |-> 1, negative |-> FALSE]
NEG_ONE == [value |-> 1, negative |-> TRUE]

unsigned_abs(i) == IF i < 0 THEN 0 - i ELSE i

(* From<Element>, From<u64>; From<i64>. *)
from_unsigned(e) == signed(e, FALSE)
from_i64(i)      == signed(unsigned_abs(i), i < 0)

signum(s) == IF s.value = 0 THEN ZERO ELSE IF s.negative THEN NEG_ONE ELSE ONE

----------------------------------------------------------------------------
Neg(s) == IF s.value = 0 THEN s ELSE signed(s.value, ~s.negative)

Add(s, t) ==
  IF s.negative = t.negative THEN signed(add(s.value, t.value), s.negative)
  ELSE IF s.value = t.value  THEN ZERO
  ELSE IF s.value > t.value  THEN signed(sub(s.value, t.value), s.negative)
  ELSE signed(sub(t.value, s.value), t.negative)

Sub(s, t) == Add(s, Neg(t))

Mul(s, t) == signed(mul(s.value, t.value), s.negative # t.negative)

(* Panics when t is zero. *)
Div(s, t) == signed(div(s.value, t.value), s.negative # t.negative)

(* The same operations with an Element or a u64 on the right, and with an  *)
(* i64.                                                                    *)
Arith(op, s, t) ==
  CASE op = "add" -> Add(s, t) [] op = "sub" -> Sub(s, t)
    [] op = "mul" -> Mul(s, t) [] op = "div" -> Div(s, t)

ArithUnsigned(op, s, e) == Arith(op, s, from_unsigned(e))
ArithI64(op, s, i)      == Arith(op, s, from_i64(i))

----------------------------------------------------------------------------
(* Ord.                                                                    *)
Compare(a, b) == IF a < b THEN "Less" ELSE IF a = b THEN "Equal" ELSE "Greater"

cmp(s, t) ==
  CASE ~s.negative /\ ~t.negative -> Compare(s.value, t.value)
    [] s.negative /\ t.negative   -> Compare(t.value, s.value)
    [] s.negative /\ ~t.negative  -> "Less"
    [] ~s.negative /\ t.negative  -> "Greater"

(* PartialEq and PartialOrd with an Element or a u64. *)
eq_unsigned(s, e)  == ~s.negative /\ s.value = e
cmp_unsigned(s, e) == IF s.negative THEN "Less" ELSE Compare(s.value, e)

(* PartialEq<i64>. *)
eq_i64(s, i) == s.negative = (i < 0) /\ s.value = unsigned_abs(i)

(* PartialOrd<i64>: two negative numbers are compared by the lowest word   *)
(* of the Element (as_u64 truncates).                                      *)
cmp_i64(s, i) ==
  IF i < 0
  THEN IF s.negative THEN Compare(unsigned_abs(i), s.value % Word) ELSE "Greater"
  ELSE IF s.negative THEN "Less" ELSE Compare(s.value, i)

(* to_i64: None outside of i64, and for its least number too. *)
to_i64(s) == IF s.value > Half - 1 THEN NoValue ELSE IntOf(s)
============================================================================
