------------------------------ MODULE Circuits ------------------------------
(***************************************************************************)
(* The circuits (noir/): which private and public inputs each of them      *)
(* accepts.  Their numbers are field values, their sums those of the       *)
(* field.  A circuit is a predicate: the conjunction of its assertions.    *)
(***************************************************************************)
EXTENDS Utxo

CONSTANTS
  Limit,      \* 2^240: assert_max_bit_size::<240>
  OldHash(_)  \* the Poseidon of the old addresses (poseidon_alt)

(* Three numbers below the limit do not wrap around the field. *)
ASSUME LimitAssumption == Limit \in Nat /\ 3 * Limit <= Modulus

plus(a, b) == (a + b) % Modulus

(* A note of the circuits: what Note becomes on the way in (From<&Note>    *)
(* for InputValue).  The circuits' kind is the contract; the format is the *)
(* literal 2.                                                              *)
CircuitNote == [kind : Base, value : Base, address : Base, psi : Base]

circuit_note(n) ==
  [kind |-> to_base(n.contract), value |-> to_base(n.value),
   address |-> to_base(n.address), psi |-> to_base(n.psi)]

circuit_input(i) ==
  [note |-> circuit_note(i.note), secret_key |-> to_base(i.secret_key)]

----------------------------------------------------------------------------
(* common: commitments and ownership.                                      *)
note_commitment_ok(n) == n.kind = 0 => n.value = 0

get_note_commitment(n) ==
  IF n.kind = 0 THEN 0 ELSE Hash(<<2, n.kind, n.value, n.address, n.psi, 0, 0>>)

check_commitment(n, c) == note_commitment_ok(n) /\ get_note_commitment(n) = c

get_address(sk) == Hash(<<sk, 0>>)

compute_nullifier(psi, sk) == Hash(<<psi, sk>>)

check_input_note_ownership(i) == i.note.value # 0 => get_address(i.secret_key) = i.note.address

(* The kinds other than 0 among the notes are not all the same.            *)
is_multiple_kinds(notes) ==
  \E i, j \in DOMAIN notes : notes[i].kind # 0 /\ notes[j].kind # 0 /\ notes[i].kind # notes[j].kind

----------------------------------------------------------------------------
(* utxo_lib: the transaction.  ins: two notes with their keys; outs: two   *)
(* notes; c: four commitments; m: five messages.                           *)
commitments_ok(ins, outs, c) ==
  /\ check_commitment(ins[1].note, c[1])
  /\ check_commitment(ins[2].note, c[2])
  /\ check_commitment(outs[1], c[3])
  /\ check_commitment(outs[2], c[4])

sizes_ok(outs, m) == outs[1].value < Limit /\ outs[2].value < Limit /\ m[3] < Limit

kinds_ok(ins, outs) == ~is_multiple_kinds(<<ins[1].note, ins[2].note, outs[1], outs[2]>>)

circuit_in(ins)   == plus(ins[1].note.value, ins[2].note.value)
circuit_out(outs) == plus(outs[1].value, outs[2].value)

send_ok(ins, outs) == circuit_in(ins) = circuit_out(outs)

mint_ok(ins, outs, m) ==
  /\ circuit_out(outs) = plus(circuit_in(ins), m[3])
  /\ Hash(<<outs[1].psi, outs[2].psi>>) = m[4]
  /\ outs[1].kind = m[2]

burn_ok(ins, outs, pmessage4, c, m) ==
  /\ pmessage4 = m[5]
  /\ c[1] = m[4]
  /\ circuit_in(ins) = plus(circuit_out(outs), m[3])
  /\ ins[1].note.kind = m[2]

balance_ok(ins, outs, pmessage4, c, m) ==
  \/ m[1] = 1 /\ send_ok(ins, outs)
  \/ m[1] = 2 /\ mint_ok(ins, outs, m)
  \/ m[1] = 3 /\ burn_ok(ins, outs, pmessage4, c, m)

utxo_main(ins, outs, pmessage4, c, m) ==
  /\ commitments_ok(ins, outs, c)
  /\ sizes_ok(outs, m)
  /\ kinds_ok(ins, outs)
  /\ balance_ok(ins, outs, pmessage4, c, m)
  /\ check_input_note_ownership(ins[1])
  /\ check_input_note_ownership(ins[2])

(* hyli_utxo: the same for a blob of a Hyli transaction.  The name of the  *)
(* blob's contract has 9 characters, the blob 4 fields of 32 bytes.        *)
build_blob_payload(c, nullifiers) == SubSeq(c, 3, 4) \o nullifiers

hyli_utxo_main(frame, ins, outs, pmessage4, c, m) ==
  /\ frame.name_len = 9
  /\ utxo_main(ins, outs, pmessage4, c, m)
  /\ frame.tx_blob_count \in {3, 4}
  /\ frame.blob = build_blob_payload(c,
                    [i \in 1..2 |-> compute_nullifier(ins[i].note.psi, ins[i].secret_key)])

----------------------------------------------------------------------------
(* points: ten notes of which one owns the keys, and their total.          *)
field_sum(s) == LET f[i \in 0..Len(s)] == IF i = 0 THEN 0 ELSE plus(f[i - 1], s[i]) IN f[Len(s)]

points_main(notes, keys, address, timestamp, value, hash, c) ==
  /\ \A i \in DOMAIN notes :
       /\ check_commitment(notes[i], c[i])
       /\ check_input_note_ownership([note |-> notes[i], secret_key |-> keys[i]])
  /\ value = field_sum([i \in DOMAIN notes |-> notes[i].value])
  /\ Hash(<<timestamp, address>>) = hash

(* migrate: one key, its address under the old hash and under the new.     *)
migrate_main(pk, old_address, new_address) ==
  get_address(pk) = new_address /\ OldHash(<<pk, 0>>) = old_address

(* signature: the message's hash is private.                               *)
signature_main(pk, message_hash, address, message) ==
  get_address(pk) = address /\ Hash(<<pk, message>>) = message_hash
============================================================================
