------------------------------ MODULE Bindings ------------------------------
(***************************************************************************)
(* The Rust side of the circuits (crate barretenberg): a witness becomes   *)
(* the inputs of its circuit, the backend answers with a string of fields, *)
(* and the string is split into public inputs and proof.  Verifying puts   *)
(* the two together again and hands them to the backend.                   *)
(***************************************************************************)
EXTENDS Aggregation

CONSTANTS
  Rest(_, _),        \* the fields of a proof: of a circuit, for public inputs
  ParseFrame(_)      \* the public inputs hyli_output makes of a frame

Circuit == {"utxo", "agg_utxo", "agg_agg", "migrate", "points", "signature",
            "hyli_utxo", "hyli_smt_incl_proof"}

(* How many public inputs a circuit has (fixtures/programs, its abi) and   *)
(* how many the wrapper of its proof takes off the front.                  *)
public_inputs_of(circuit) ==
  CASE circuit = "utxo" -> 9 [] circuit = "agg_utxo" -> 18 [] circuit = "agg_agg" -> 33
    [] circuit = "migrate" -> 2 [] circuit = "points" -> 13 [] circuit = "signature" -> 2
    [] circuit = "hyli_utxo" -> 713 [] circuit = "hyli_smt_incl_proof" -> 686

UTXO_PUBLIC_INPUTS_COUNT           == 9
AGG_UTXO_PUBLIC_INPUTS_COUNT       == 18
AGG_AGG_PUBLIC_INPUTS_COUNT        == 33
MIGRATE_PUBLIC_INPUTS_COUNT        == 2
POINTS_PUBLIC_INPUTS_COUNT         == 13
SIGNATURE_PUBLIC_INPUTS_COUNT      == 2
HYLI_UTXO_PUBLIC_INPUTS_COUNT      == 713
HYLI_SMT_INCL_PUBLIC_INPUTS_COUNT  == 705

UTXO_PROOF_SIZE == 456

----------------------------------------------------------------------------
(* The backend.  Solving the program gives a witness, of which the public  *)
(* inputs count here, or an error; both backends return the public inputs  *)
(* followed by the proof.                                                  *)
execute(accepted, public) == IF accepted THEN {public} ELSE {}

backend_prove(circuit, public) == public \o Rest(circuit, public)

prove(circuit, accepted, public) ==
  {backend_prove(circuit, witness) : witness \in execute(accepted, public)}

(* Taking the public inputs off the front; too short a string panics.      *)
split_at(bytes, n) == [public_inputs |-> SubSeq(bytes, 1, n), proof |-> SubSeq(bytes, n + 1, Len(bytes))]

to_bytes(p) == p.public_inputs \o p.proof

(* The verifier proper: the public inputs and the proof that belongs to    *)
(* them.  The library's own verifier splits by the circuit's count.        *)
bb_verify(circuit, public, proof) ==
  Len(public) = public_inputs_of(circuit) /\ proof = Rest(circuit, public)

rs_verify(circuit, bytes) ==
  LET n == public_inputs_of(circuit)
  IN  Len(bytes) >= n /\ bb_verify(circuit, split_at(bytes, n).public_inputs, split_at(bytes, n).proof)

(* The command line gets two files; the split is at a fixed place.         *)
cli_verify(circuit, bytes) ==
  /\ Len(bytes) >= UTXO_PUBLIC_INPUTS_COUNT
  /\ LET p == split_at(bytes, UTXO_PUBLIC_INPUTS_COUNT) IN bb_verify(circuit, p.public_inputs, p.proof)

(* The two circuits of Hyli call the command line themselves.              *)
verify_with_bb(circuit, n, bytes) ==
  Len(bytes) >= n /\ bb_verify(circuit, split_at(bytes, n).public_inputs, split_at(bytes, n).proof)

----------------------------------------------------------------------------
(* The inputs of a circuit, made of the witness (From<&..> for ..Input and *)
(* the input maps), and whether it accepts them.                           *)
utxo_input(u) ==
  [input_notes |-> [i \in 1..2 |-> circuit_input(u.input_notes[i])],
   output_notes |-> [i \in 1..2 |-> circuit_note(u.output_notes[i])],
   pmessage4 |-> to_base(utxo_messages(u)[5]),
   commitments |-> to_bases(leaf_elements(u)),
   messages |-> to_bases(utxo_messages(u))]

utxo_accepts(u) ==
  LET w == utxo_input(u)
  IN  utxo_main(w.input_notes, w.output_notes, w.pmessage4, w.commitments, w.messages)

utxo_public(u) == utxo_input(u).commitments \o utxo_input(u).messages

(* A frame is what a Hyli transaction says of the blob: the length of the  *)
(* contract's name, how many blobs, the blob.  The assertions of the input *)
(* map come first: a wrong length or blob panics.                          *)
hyli_frame(name_len, tx_blob_count, blob) ==
  [name_len |-> name_len, tx_blob_count |-> tx_blob_count, blob |-> blob]

hyli_input_panics(u, frame) == Len(frame.blob) # 4 \/ frame.blob # expected_blob(u)

hyli_utxo_accepts(u, frame) ==
  LET w == utxo_input(u)
  IN  hyli_utxo_main([frame EXCEPT !.blob = expected_blob(u)],
                     w.input_notes, w.output_notes, w.pmessage4, w.commitments, w.messages)

hyli_utxo_public(u, frame) == ParseFrame(frame) \o utxo_public(u)

agg_utxo_input(a) ==
  [proofs |-> [i \in 1..3 |-> bundle_input(a.proofs[i])], messages |-> to_bases(agg_utxo_messages(a)),
   old_root |-> to_base(a.old_root), new_root |-> to_base(a.new_root),
   commit_hash |-> to_base(agg_commit_hash(a))]

agg_utxo_panics(a) == \E i \in 1..3 : bundle_input_panics(a.proofs[i])

agg_utxo_accepts(a) ==
  LET w == agg_utxo_input(a)
  IN  agg_utxo_main(w.proofs, w.messages, w.old_root, w.new_root, w.commit_hash)

agg_utxo_public(a) ==
  LET w == agg_utxo_input(a) IN w.messages \o <<w.old_root, w.new_root, w.commit_hash>>

agg_agg_input(ps) ==
  [proofs |-> [i \in 1..2 |-> agg_proof_input(ps[i])], messages |-> to_bases(aggagg_messages(ps)),
   old_root |-> to_base(aggagg_old_root(ps)), new_root |-> to_base(aggagg_new_root(ps)),
   commit_hash |-> to_base(aggagg_commit_hash(ps))]

agg_agg_accepts(ps) ==
  LET w == agg_agg_input(ps)
  IN  agg_agg_main(w.proofs, w.old_root, w.new_root, w.commit_hash, w.messages)

agg_agg_public(ps) ==
  LET w == agg_agg_input(ps) IN <<w.old_root, w.new_root, w.commit_hash>> \o w.messages

(* points.rs: the value, the hash and the commitments are computed from    *)
(* the notes; every note has its key.                                      *)
points_value(p) == sum([i \in DOMAIN p.notes |-> p.notes[i].value])
points_hash(p)  == hash_merge(<<p.timestamp, p.address>>)

points_input(p) ==
  [notes |-> [i \in DOMAIN p.notes |-> circuit_note(p.notes[i])],
   secret_keys |-> to_bases(p.secret_keys), address |-> to_base(p.address),
   timestamp |-> to_base(p.timestamp), value |-> to_base(points_value(p)),
   hash |-> to_base(points_hash(p)),
   commitments |-> [i \in DOMAIN p.notes |-> to_base(commitment(p.notes[i]))]]

points_accepts(p) ==
  LET w == points_input(p)
  IN  points_main(w.notes, w.secret_keys, w.address, w.timestamp, w.value, w.hash, w.commitments)

points_public(p) ==
  LET w == points_input(p) IN <<w.timestamp, w.value, w.hash>> \o w.commitments

(* migrate.rs: nothing is computed.                                        *)
migrate_input(m) ==
  [owner_pk |-> to_base(m.owner_pk), old_address |-> to_base(m.old_address),
   new_address |-> to_base(m.new_address)]

migrate_accepts(m) ==
  LET w == migrate_input(m) IN migrate_main(w.owner_pk, w.old_address, w.new_address)

migrate_public(m) == <<migrate_input(m).old_address, migrate_input(m).new_address>>

(* signature.rs: address and hash come from the key.                       *)
signature_message_hash(s) == hash_merge(<<s.secret_key, s.message>>)

signature_input(s) ==
  [secret_key |-> to_base(s.secret_key), message |-> to_base(s.message),
   message_hash |-> to_base(signature_message_hash(s)),
   address |-> to_base(get_address_for_private_key(s.secret_key))]

signature_accepts(s) ==
  LET w == signature_input(s) IN signature_main(w.secret_key, w.message_hash, w.address, w.message)

signature_public(s) == <<signature_input(s).address, signature_input(s).message>>

----------------------------------------------------------------------------
(* prove of each witness: the set of its proofs, none when the circuit     *)
(* refuses it.  Where the size of the proof is asserted, another panics.   *)
proofs_of(circuit, n, accepted, public) ==
  {split_at(bytes, n) : bytes \in prove(circuit, accepted, public)}

utxo_prove(u) == proofs_of("utxo", UTXO_PUBLIC_INPUTS_COUNT, utxo_accepts(u), utxo_public(u))
utxo_prove_panics(u) == \E p \in utxo_prove(u) : Len(p.proof) # UTXO_PROOF_SIZE
agg_utxo_prove(a) ==
  proofs_of("agg_utxo", AGG_UTXO_PUBLIC_INPUTS_COUNT, agg_utxo_accepts(a), agg_utxo_public(a))
agg_agg_prove(ps) ==
  proofs_of("agg_agg", AGG_AGG_PUBLIC_INPUTS_COUNT, agg_agg_accepts(ps), agg_agg_public(ps))
points_prove(p) == proofs_of("points", POINTS_PUBLIC_INPUTS_COUNT, points_accepts(p), points_public(p))
migrate_prove(m) == proofs_of("migrate", MIGRATE_PUBLIC_INPUTS_COUNT, migrate_accepts(m), migrate_public(m))
signature_prove(s) ==
  proofs_of("signature", SIGNATURE_PUBLIC_INPUTS_COUNT, signature_accepts(s), signature_public(s))
hyli_utxo_prove(u, frame) ==
  proofs_of("hyli_utxo", HYLI_UTXO_PUBLIC_INPUTS_COUNT, hyli_utxo_accepts(u, frame), hyli_utxo_public(u, frame))
============================================================================
