---------------------------- MODULE Aggregation ----------------------------
(***************************************************************************)
(* Aggregation of transactions into a tree (zk-primitives and the circuits *)
(* agg_utxo and agg_agg): three Utxo proofs move the tree from a root to   *)
(* another, two of those moves make a longer one.  What Rust computes for  *)
(* the circuits, and what the circuits assert.                             *)
(***************************************************************************)
EXTENDS Circuits

CONSTANTS
  UtxoProves(_, _),    \* verify_proof_with_type under the key of utxo: public inputs, proof
  AggUtxoProves(_, _)  \* and under the key of agg_utxo

----------------------------------------------------------------------------
(* Paths (hash/path.rs, merkle_path.rs).  The place of a leaf is spelt by  *)
(* its lowest bits, the lowest one at the leaf; a leaf that is not there   *)
(* is the hash 0.                                                          *)
Reversed(s) == [i \in DOMAIN s |-> s[Len(s) + 1 - i]]

least_significant_bits(e, depth) == Reversed(lsb(e, depth))

compute_merkle_root_from(leaf, siblings, bits) ==
  LET f[i \in 0..Len(siblings)] ==
        IF i = 0 THEN leaf
        ELSE IF bits[i] = 0 THEN hash_merge(<<f[i - 1], siblings[i]>>)
                            ELSE hash_merge(<<siblings[i], f[i - 1]>>)
  IN  f

compute_merkle_root(leaf, path_element, siblings) ==
  compute_merkle_root_from(leaf, siblings, least_significant_bits(path_element, Len(siblings)))[Len(siblings)]

compute_null_root(leaf, siblings) ==
  compute_merkle_root_from(0, siblings, least_significant_bits(leaf, Len(siblings)))[Len(siblings)]

(* The hashes from the leaf to the root, both included: the nodes on the   *)
(* path, not the siblings beside it.                                       *)
compute_merkle_path_for_leaf(leaf, siblings) ==
  LET f == compute_merkle_root_from(leaf, siblings, least_significant_bits(leaf, Len(siblings)))
  IN  [i \in 1..(Len(siblings) + 1) |-> f[i - 1]]

(* Each level is hashed with an empty leaf, not with its like.             *)
empty_tree_root(depth) ==
  LET zeros == [i \in 1..(depth - 1) |-> 0] IN compute_merkle_root_from(0, zeros, zeros)[depth - 1]

default_path(depth)     == [i \in 1..(depth - 1) |-> 0]
path_is_new(depth, s)   == Len(s) = depth - 1             \* new asserts it
compute_before_root(s, h) == compute_merkle_root(h, h, s)
compute_after_root(s, h)  == compute_null_root(h, s)
apply_leaf(s, leaf)       == compute_merkle_path_for_leaf(leaf, s)

path_from_bases(depth, b) == from_bases(SubSeq(b, 1, depth - 1))
path_to_bases_panics(depth, s) == Len(s) # depth   \* the siblings into an array of depth

----------------------------------------------------------------------------
(* agg_utxo in Rust: three bundles of a proof and four paths.              *)
bundle(utxo_proof, paths) ==
  [utxo_proof |-> utxo_proof, input_merkle_paths |-> SubSeq(paths, 1, 2),
   output_merkle_paths |-> SubSeq(paths, 3, 4)]

default_bundle(depth, proof) ==
  bundle([proof |-> proof, public_inputs |-> default_public_inputs], [i \in 1..4 |-> default_path(depth)])

new_agg_utxo(proofs, old_root, new_root) ==
  [proofs |-> proofs, old_root |-> old_root, new_root |-> new_root]

agg_commit_hash(a) == hash_merge([i \in 1..3 |-> pi_commit_hash(a.proofs[i].utxo_proof.public_inputs)])

(* The messages of mints and burns, one after the other, then zeros.       *)
agg_utxo_messages(a) ==
  LET said(i) == LET p == a.proofs[i].utxo_proof.public_inputs
                 IN  CASE pi_kind(p) = "Mint" -> SubSeq(p.messages, 1, 4)
                       [] pi_kind(p) = "Burn" -> p.messages
                       [] OTHER               -> <<>>
      all == said(1) \o said(2) \o said(3)
  IN  [i \in 1..15 |-> IF i \in DOMAIN all THEN all[i] ELSE 0]

agg_pi_fields(p)     == p.messages \o <<p.old_root, p.new_root, p.commit_hash>>
agg_pi_is_padding(p) == p.old_root = 0

(* What the circuit is given (AggUtxoInput).  The proof has to have as     *)
(* many fields as the circuit's array: 508.                                *)
AggProofFields == 508

bundle_input(b) ==
  [proof |-> b.utxo_proof.proof,
   utxo_kind |-> to_base(kind_to_element(pi_kind(b.utxo_proof.public_inputs))),
   input_merkle_paths |-> [j \in 1..2 |-> to_bases(b.input_merkle_paths[j])],
   output_merkle_paths |-> [j \in 1..2 |-> to_bases(b.output_merkle_paths[j])],
   input_commitments |-> to_bases(b.utxo_proof.public_inputs.input_commitments),
   output_commitments |-> to_bases(b.utxo_proof.public_inputs.output_commitments)]

bundle_input_panics(b) == Len(b.utxo_proof.proof) # AggProofFields

----------------------------------------------------------------------------
(* agg_utxo, the circuit.                                                  *)
get_merkle_root(leaf, key, path) ==
  LET f[i \in 0..Len(path)] ==
        IF i = 0 THEN leaf
        ELSE IF (key \div Bit(i - 1)) % 2 = 0 THEN Hash(<<f[i - 1], path[i]>>)
                                              ELSE Hash(<<path[i], f[i - 1]>>)
  IN  f[Len(path)]

get_null_root(key, path) == get_merkle_root(0, key, path)

(* How many messages a kind takes from the list.                           *)
said_by(kind) == CASE kind = 2 -> 4 [] kind = 3 -> 5 [] OTHER -> 0

messages_index(proofs) ==
  LET f[i \in 0..Len(proofs)] == IF i = 0 THEN 0 ELSE f[i - 1] + said_by(proofs[i].utxo_kind) IN f

(* The public inputs the i-th proof is verified against.                   *)
claimed(proofs, messages, i) ==
  LET at == messages_index(proofs)[i - 1]
      kind == proofs[i].utxo_kind
      m(k) == IF k <= said_by(kind) THEN messages[at + k] ELSE 0
  IN  proofs[i].input_commitments \o proofs[i].output_commitments \o <<kind, m(2), m(3), m(4), m(5)>>

(* What the real proofs do to the tree, in order: removals, insertions.    *)
tree_ops(p) ==
  IF p.utxo_kind = 0 THEN <<>>
  ELSE LET removal(j) == [insert |-> FALSE, leaf |-> p.input_commitments[j], path |-> p.input_merkle_paths[j]]
           insertion(j) == [insert |-> TRUE, leaf |-> p.output_commitments[j], path |-> p.output_merkle_paths[j]]
       IN  SelectSeq(<<removal(1), removal(2), insertion(1), insertion(2)>>, LAMBDA op : op.leaf # 0)

root_with(op)    == get_merkle_root(op.leaf, op.leaf, op.path)
root_without(op) == get_null_root(op.leaf, op.path)

(* Each step starts at the root the last one left.                         *)
moves(ops, old_root, new_root) ==
  LET before(k) == IF ops[k].insert THEN root_without(ops[k]) ELSE root_with(ops[k])
      after(k)  == IF ops[k].insert THEN root_with(ops[k]) ELSE root_without(ops[k])
  IN  IF ops = <<>> THEN new_root = old_root
      ELSE /\ before(1) = old_root /\ after(Len(ops)) = new_root
           /\ \A k \in 2..Len(ops) : before(k) = after(k - 1)

agg_utxo_main(proofs, messages, old_root, new_root, commit_hash) ==
  /\ proofs[1].utxo_kind # 0
  /\ \A i \in 1..3 :
       /\ proofs[i].utxo_kind \in {2, 3} => messages[messages_index(proofs)[i - 1] + 1] = proofs[i].utxo_kind
       /\ proofs[i].utxo_kind # 0 => UtxoProves(claimed(proofs, messages, i), proofs[i].proof)
  /\ moves(tree_ops(proofs[1]) \o tree_ops(proofs[2]) \o tree_ops(proofs[3]), old_root, new_root)
  /\ \A k \in (messages_index(proofs)[3] + 1)..15 : messages[k] = 0
  /\ commit_hash = Hash([i \in 1..3 |-> Hash(proofs[i].input_commitments \o proofs[i].output_commitments)])

----------------------------------------------------------------------------
(* agg_agg in Rust.                                                        *)
aggagg_old_root(ps) == ps[1].public_inputs.old_root
aggagg_new_root(ps) ==
  IF agg_pi_is_padding(ps[2].public_inputs) THEN ps[1].public_inputs.new_root
                                            ELSE ps[2].public_inputs.new_root
aggagg_messages(ps)    == ps[1].public_inputs.messages \o ps[2].public_inputs.messages
aggagg_commit_hash(ps) == hash_merge(<<ps[1].public_inputs.commit_hash, ps[2].public_inputs.commit_hash>>)

aggagg_public_inputs(ps) ==
  [old_root |-> aggagg_old_root(ps), new_root |-> aggagg_new_root(ps),
   commit_hash |-> aggagg_commit_hash(ps), messages |-> aggagg_messages(ps)]

aggagg_pi_fields(p) == <<p.old_root, p.new_root, p.commit_hash>> \o p.messages

(* What the circuit is given of each proof (UtxoAggProof).                 *)
agg_proof_input(p) ==
  [proof |-> p.proof, old_root |-> to_base(p.public_inputs.old_root),
   new_root |-> to_base(p.public_inputs.new_root), commit_hash |-> to_base(p.public_inputs.commit_hash)]

(* agg_agg, the circuit: a second proof that starts at root 0 is padding.  *)
agg_public_inputs(proofs, messages, i) ==
  SubSeq(messages, 15 * i - 14, 15 * i) \o <<proofs[i].old_root, proofs[i].new_root, proofs[i].commit_hash>>

agg_agg_main(proofs, old_root, new_root, commit_hash, messages) ==
  LET root1 == IF proofs[1].old_root # 0 THEN proofs[1].new_root ELSE old_root
      root2 == IF proofs[2].old_root # 0 THEN proofs[2].new_root ELSE root1
  IN  /\ AggUtxoProves(agg_public_inputs(proofs, messages, 1), proofs[1].proof)
      /\ proofs[2].old_root # 0 => AggUtxoProves(agg_public_inputs(proofs, messages, 2), proofs[2].proof)
      /\ proofs[1].old_root # 0 => proofs[1].old_root = old_root
      /\ proofs[2].old_root # 0 => proofs[2].old_root = root1
      /\ commit_hash = Hash(<<proofs[1].commit_hash, proofs[2].commit_hash>>)
      /\ new_root = root2
============================================================================
