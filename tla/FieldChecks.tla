---------------------------- MODULE FieldChecks ----------------------------
(***************************************************************************)
(* The operators of Element and SignedElement against their reference, the *)
(* integers, over every value of a small word.  TLC evaluates the          *)
(* assumptions at the start of a run.                                      *)
(***************************************************************************)
EXTENDS SignedElement

(* A sample with both ends of the range, for the pairs. *)
Sample  == {e \in U256 : e \in 0..(2 * Word + 1) \/ e > Top - 4 \/ e \in {Modulus - 1, Modulus, Modulus + 1}}
Signeds == {signed(e, b) : e \in Sample, b \in BOOLEAN}

(* The words, the arrays and the bytes of an Element give it back, and the *)
(* two decompositions agree: the high half first, whatever the byte order  *)
(* (convert.rs).                                                           *)
ASSUME ConversionsRoundTrip ==
  \A e \in U256 :
    /\ from_words(to_words(e)) = e
    /\ from_u64_array(to_u64_array(e)) = e
    /\ from_be(to_be(e)) = e /\ from_le(to_le(e)) = e
    /\ decompose_be(e) = decompose_le(e)
    /\ decompose_be(e)[1] * Word * Word + decompose_be(e)[2] = e

(* Two Elements stand for the same field value exactly when they differ by *)
(* a multiple of the modulus; going through the field and back keeps the   *)
(* canonical ones only (noir.rs).                                          *)
ASSUME FieldAliases ==
  \A e \in U256 :
    /\ (reduced(e) = e) <=> IsCanonical(e)
    /\ e + Modulus \in U256 => to_base(e + Modulus) = to_base(e) /\ ~IsCanonical(e + Modulus)

(* The Elements that add wraps are not those that the field wraps: there   *)
(* are sums that fit the words, and whose field value is another number.   *)
ASSUME WordsAreNotTheField ==
  \E e, f \in Base : ~Wraps(e + f) /\ to_base(add(e, f)) # add(e, f)

(* collides_with compares the DEPTH - 1 lowest bits: it is congruence, and *)
(* a tree one level deeper tells at least as many leaves apart.            *)
ASSUME CollisionsAreCongruences ==
  \A depth \in 1..6, e, f \in Sample :
    /\ collides_with(depth, e, f) <=> e % Bit(depth - 1) = f % Bit(depth - 1)
    /\ collides_with(depth + 1, e, f) => collides_with(depth, e, f)

(* The lowest bits of two Elements are ordered like the numbers they spell *)
(* (impl Ord for Lsb), as long as the counts are the same.                 *)
ASSUME LsbOrderIsNumeric ==
  \A count \in 0..4, e, f \in 0..(2 * Word) :
    lsb_less(lsb(e, count), lsb(f, count)) <=> e % Bit(count) < f % Bit(count)

(* Multiplication, division and the conversions of signed integers are     *)
(* those of the integers, division rounding towards zero.                  *)
ASSUME SignedArithmetic ==
  \A s, t \in Signeds :
    /\ s.value * t.value \in U256 => IntOf(Mul(s, t)) = IntOf(s) * IntOf(t)
    /\ s.value + t.value \in U256 => IntOf(Add(s, t)) = IntOf(s) + IntOf(t)
    /\ t.value # 0 =>
         LET q == IntOf(Div(s, t)) r == IntOf(s) - q * IntOf(t)
         IN  unsigned_abs(r) < t.value /\ (r = 0 \/ (r < 0) = s.negative)
    /\ Mul(signum(s), [value |-> s.value, negative |-> FALSE]) = s
    /\ ~t.negative => ArithUnsigned("sub", s, t.value) = Sub(s, t)

(* An i64 goes through a SignedElement and back, its least value excepted: *)
(* to_i64 refuses it.  Comparing with one is right on the words it can     *)
(* hold.                                                                   *)
ASSUME SignedConversions ==
  /\ \A i \in I64 : to_i64(from_i64(i)) = IF i = 0 - Half THEN NoValue ELSE i
  /\ \A s \in Signeds, i \in I64 :
       /\ eq_i64(s, i) <=> IntOf(s) = i
       /\ s.value \in U64 => cmp_i64(s, i) = Compare(IntOf(s), i)
  /\ \A s \in Signeds, e \in Sample :
       eq_unsigned(s, e) = (IntOf(s) = e) /\ cmp_unsigned(s, e) = Compare(IntOf(s), e)

(* A negative zero, which the public fields allow, is equal to no i64 and  *)
(* below zero: only new keeps the pair in its normal form.                 *)
ASSUME NegativeZeroIsNotZero ==
  LET z == [value |-> 0, negative |-> TRUE]
  IN  z \notin Normal /\ cmp(z, ZERO) = "Less" /\ IntOf(z) = IntOf(ZERO) /\ Neg(z) = z
============================================================================
