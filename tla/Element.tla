------------------------------ MODULE Element ------------------------------
(***************************************************************************)
(* The integers of the whole program (crate element): an Element is an     *)
(* unsigned integer of four 64-bit words, a Base an integer modulo the     *)
(* prime of the circuits' field.  Operators only.  The arithmetic is that  *)
(* of the words, never that of the field: an operation whose result does   *)
(* not fit panics in a debug build and wraps in a release build, and a     *)
(* field value has several Elements.                                       *)
(***************************************************************************)
EXTENDS Integers, Sequences

CONSTANTS
  Half,    \* half the range of a 64-bit word
  Modulus  \* the prime of BN254 (Element::MODULUS)

ASSUME HalfAssumption == Half \in Nat \ {0}

(* A word of 64 bits, and of 128; i64 is the signed word. *)
Word == 2 * Half
U64  == 0..(Word - 1)
I64  == (-Half)..(Half - 1)
U128 == 0..(Word * Word - 1)

Top   == Word * Word * Word * Word
U256  == 0..(Top - 1)
ASSUME ModulusAssumption == Modulus \in 1..(Top - 1)

Base == 0..(Modulus - 1)

----------------------------------------------------------------------------
(* Arithmetic (binop!, Sum, Product).                                      *)
Wraps(n) == n \notin U256
Wrap(n)  == n % Top

add(a, b) == Wrap(a + b)
sub(a, b) == Wrap(a - b)
mul(a, b) == Wrap(a * b)
div(a, b) == a \div b   \* panics when b is 0
rem(a, b) == a % b

(* The partial sums of a list of Elements; its sum is the last of them. *)
sums(s) == LET f[i \in 0..Len(s)] == IF i = 0 THEN 0 ELSE add(f[i - 1], s[i]) IN f
sum(s)  == sums(s)[Len(s)]

products(s) == LET f[i \in 0..Len(s)] == IF i = 0 THEN 1 ELSE mul(f[i - 1], s[i]) IN f
product(s)  == products(s)[Len(s)]

Bit(i) == LET f[k \in 0..i] == IF k = 0 THEN 1 ELSE 2 * f[k - 1] IN f[i]

shl(a, k) == Wrap(a * Bit(k))
shr(a, k) == a \div Bit(k)

----------------------------------------------------------------------------
(* The field (noir.rs).  from_base embeds; to_base reduces, so it does not *)
(* tell an Element from one that differs by the modulus.                   *)
from_base(b) == b
to_base(e)   == e % Modulus

IsCanonical(e) == e \in Base

(* random, secure_random, hash_private_key_for_psi: reduced. *)
reduced(e) == from_base(to_base(e))

----------------------------------------------------------------------------
(* Words and bytes (convert.rs).                                           *)
NoValue == "none"

(* TryFrom<Element> of an unsigned type. *)
try_into(e, T) == IF e \in T THEN e ELSE NoValue

as_bool(e) == CASE e = 0 -> FALSE [] e = 1 -> TRUE [] OTHER -> NoValue

to_words(e)   == <<e \div (Word * Word), e % (Word * Word)>>     \* high first
from_words(w) == w[1] * (Word * Word) + w[2]

(* Four words, the lowest first. *)
to_u64_array(e) == LET w == to_words(e)
                   IN <<w[2] % Word, w[2] \div Word, w[1] % Word, w[1] \div Word>>
from_u64_array(a) == from_words(<<a[3] + a[4] * Word, a[1] + a[2] * Word>>)

(* The digits of an Element, the highest first; the little-endian ones are *)
(* the same in the other order.                                            *)
to_be(e) == LET a == to_u64_array(e) IN <<a[4], a[3], a[2], a[1]>>
to_le(e) == to_u64_array(e)
from_be(d) == from_u64_array(<<d[4], d[3], d[2], d[1]>>)
from_le(d) == from_u64_array(d)

(* The halves, the high one first, whatever the order of the bytes. *)
decompose_be(e) == <<from_be(<<0, 0, to_be(e)[1], to_be(e)[2]>>),
                     from_be(<<0, 0, to_be(e)[3], to_be(e)[4]>>)>>
decompose_le(e) == <<from_le(<<to_le(e)[3], to_le(e)[4], 0, 0>>),
                     from_le(<<to_le(e)[1], to_le(e)[2], 0, 0>>)>>

----------------------------------------------------------------------------
(* Lsb: the count lowest bits, the lowest last.  Equality and hash look at *)
(* them only; count may be at most the width.                              *)
lsb(e, count) == [i \in 1..count |-> (e \div Bit(count - i)) % 2]

lsb_less(s, t) ==
  \/ Len(s) < Len(t) /\ s = SubSeq(t, 1, Len(s))
  \/ \E i \in DOMAIN s \cap DOMAIN t :
       s[i] < t[i] /\ SubSeq(s, 1, i - 1) = SubSeq(t, 1, i - 1)

(* Two leaves that would have the same place in a tree of that depth. *)
collides_with(depth, e, other) == lsb(e, depth - 1) = lsb(other, depth - 1)
============================================================================
