----------------------------- MODULE SparseTree -----------------------------
(***************************************************************************)
(* The sparse Merkle tree of the notes (zk/smt.rs, over the crate          *)
(* sparse_merkle_tree) and the circuit hyli_smt_incl_proof, which folds a  *)
(* path of it.  A key is a 256-bit string, here the number its bytes spell *)
(* with the lowest first; a note's key is its value.  An empty subtree is  *)
(* the hash 0; a subtree with one side empty keeps what the other side is  *)
(* made of, and which sides were empty, instead of a hash per level.       *)
(***************************************************************************)
EXTENDS Bindings

CONSTANTS
  Levels,    \* 256
  KeyOf(_)   \* the key a commitment is kept under: its bytes

Key == 0..(Bit(Levels) - 1)

get_bit(key, h)     == (key \div Bit(h)) % 2
parent_path(key, h) == key - (key % Bit(h + 1)) \* 0 at the top

(* Poseidon2Hasher: bytes as they are, strings as field values.            *)
h256_to_field(h) == h % Modulus
finish(buffer)   == Hash(buffer)

----------------------------------------------------------------------------
(* Nodes (merge.rs of the crate).                                          *)
Value(v)    == [merged |-> FALSE, value |-> v, bits |-> 0, count |-> 0]
IsMerged(n) == n.merged
IsZero(n)   == ~IsMerged(n) /\ n.value = 0

hash_base_node(h, node_key, v) == finish(<<h, h256_to_field(node_key), v>>)

(* The counter is a byte: it wraps when all the levels are empty.          *)
one_more(count) == (count + 1) % Levels

hash_node(n) ==
  IF IsMerged(n) THEN finish(<<2, n.value, h256_to_field(n.bits), n.count>>) ELSE n.value

merge_with_zero(h, node_key, n, set_bit) ==
  LET bit == IF set_bit THEN Bit(h) ELSE 0
  IN  IF IsMerged(n) THEN [n EXCEPT !.bits = @ + bit, !.count = one_more(@)]
      ELSE [merged |-> TRUE, value |-> hash_base_node(h, node_key, n.value), bits |-> bit,
            count |-> one_more(0)]

merge(h, node_key, l, r) ==
  CASE IsZero(l) /\ IsZero(r) -> Value(0)
    [] IsZero(l) /\ ~IsZero(r) -> merge_with_zero(h, node_key, r, TRUE)
    [] ~IsZero(l) /\ IsZero(r) -> merge_with_zero(h, node_key, l, FALSE)
    [] OTHER -> Value(finish(<<1, h, h256_to_field(node_key), hash_node(l), hash_node(r)>>))

(* The tree: its leaves, a set of keys; the root and the siblings of a key *)
(* follow from them.  nodes[h][p]: the subtree of the keys p * 2^h + ..    *)
nodes(leaves) ==
  LET f[h \in 0..Levels] ==
        IF h = 0 THEN [k \in Key |-> Value(IF k \in leaves THEN h256_to_field(k) ELSE 0)]
        ELSE [p \in 0..(Bit(Levels - h) - 1) |->
                merge(h - 1, p * Bit(h), f[h - 1][2 * p], f[h - 1][2 * p + 1])]
  IN  f

(* A leaf whose value is 0 is no leaf.                                     *)
smt_zero            == {}
update_all(t, keys) == t \union (keys \ {0})
update_leaf(t, key) == update_all(t, {key})
smt_contains(t, key) == key \in t
smt_root(t)         == hash_node(nodes(t)[Levels][0])

sibling_at(ns, key, h) == ns[h][LET p == key \div Bit(h) IN IF p % 2 = 0 THEN p + 1 ELSE p - 1]

build_siblings(t, key) ==
  LET ns == nodes(t)
  IN  [h \in 0..(Levels - 1) |->
         LET s == sibling_at(ns, key, h) IN IF IsZero(s) THEN 0 ELSE h256_to_field(hash_node(s))]

(* On disk: the root, then the leaves; reading it builds the tree anew and *)
(* refuses one with another root.                                          *)
smt_serialize(t) == [root |-> smt_root(t), leaves |-> t]
smt_deserialize(d) ==
  LET t == update_all(smt_zero, d.leaves) IN IF smt_root(t) = d.root THEN {t} ELSE {}

----------------------------------------------------------------------------
(* The circuit's fold.  acc: the value so far, and of an accumulated run   *)
(* of empty siblings its bits and its length.                              *)
acc_hash(acc) ==
  IF acc.merged THEN Hash(<<2, acc.value, acc.bits % Modulus, acc.count>>) ELSE acc.value

fold(acc, key, h, sib) ==
  LET nk == parent_path(key, h) % Modulus
      right == get_bit(key, h) = 1
      bit == IF right THEN Bit(h) ELSE 0
  IN  IF sib = 0
      THEN IF acc.merged
           THEN [acc EXCEPT !.bits = @ + bit, !.count = (@ + 1) % Levels]
           ELSE [merged |-> TRUE, value |-> Hash(<<h, nk, acc.value>>), bits |-> bit, count |-> 1 % Levels]
      ELSE [merged |-> FALSE, bits |-> 0, count |-> 0,
            value |-> IF right THEN Hash(<<1, h, nk, sib, acc_hash(acc)>>)
                               ELSE Hash(<<1, h, nk, acc_hash(acc), sib>>)]

verify_inclusion(commitment_key, notes_root, siblings) ==
  LET f[h \in 0..Levels] ==
        IF h = 0 THEN [merged |-> FALSE, value |-> commitment_key % Modulus, bits |-> 0, count |-> 0]
        ELSE fold(f[h - 1], commitment_key, h - 1, siblings[h - 1])
  IN  commitment_key # 0 => acc_hash(f[Levels]) = notes_root

(* The structured blob: called by blob 0, calling none, and 96 bytes.      *)
smt_blob(caller, callees, parameters) ==
  [caller |-> caller, callees |-> callees, parameters |-> parameters]

smt_incl_main(name_len, blob, ins, siblings) ==
  /\ name_len = 19
  /\ blob.caller = <<0>> /\ blob.callees = <<>> /\ Len(blob.parameters) = 3
  /\ \A i \in 1..2 : compute_nullifier(ins[i].note.psi, ins[i].secret_key) = blob.parameters[i]
  /\ \A i \in 1..2 :
       /\ note_commitment_ok(ins[i].note)
       /\ verify_inclusion(KeyOf(get_note_commitment(ins[i].note)), blob.parameters[3], siblings[i])

----------------------------------------------------------------------------
(* Its binding (hyli_smt_incl_proof.rs).                                   *)
smt_incl_accepts(name_len, blob, ins, siblings) ==
  smt_incl_main(name_len, blob, [i \in 1..2 |-> circuit_input(ins[i])], siblings)

smt_incl_prove(accepted, public) ==
  proofs_of("hyli_smt_incl_proof", HYLI_SMT_INCL_PUBLIC_INPUTS_COUNT, accepted, public)

smt_incl_verify(p) ==
  verify_with_bb("hyli_smt_incl_proof", HYLI_SMT_INCL_PUBLIC_INPUTS_COUNT, to_bytes(p))
============================================================================
