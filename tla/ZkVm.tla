------------------------------- MODULE ZkVm -------------------------------
(***************************************************************************)
(* The zkVM side of the contract as pure operators: the witness a proof is *)
(* made from (HyliUtxoState::to_zkvm_state), one execution of the contract *)
(* in the guest (HyliUtxoZkVmState), and the batch of witnesses of several *)
(* transactions (HyliUtxoZkVmBatch), all of state.rs and zk/mod.rs.        *)
(*                                                                         *)
(* A tree is the set of its <<key, value>> leaves, and its root stands for *)
(* that set.  A Merkle proof for some keys fixes every other leaf of the   *)
(* tree it was made from: it is the set of those other leaves.             *)
(***************************************************************************)
EXTENDS UtxoOps, FiniteSets

Leaves(tree) == {<<k, k>> : k \in tree}

(***************************************************************************)
(* What one transaction brings to the contract: the hyli_utxo blob, the    *)
(* nullifiers and the notes root of the smt inclusion blob, and the        *)
(* contracts named as callees of the hyli-utxo-state blob.                 *)
(***************************************************************************)
ContractNames == {"smt_incl", "token", "other"}

Calldata == [blob : UtxoBlob,
             smt_nullifiers : [Slots -> NullifierKey],
             notes_root : SUBSET Note,
             callees : Seq(ContractNames)]

(* The keys of a witness, in order. *)
WitnessKeys(w) == [i \in DOMAIN w.values |-> w.values[i].key]

----------------------------------------------------------------------------
(* build_witness.  Without keys the witness is the root alone, which is    *)
(* what the leaves outside an empty set of keys determine.                 *)
build_witness(tree, keys) ==
  [values |-> [i \in DOMAIN keys |->
                 [key |-> keys[i], value |-> IF keys[i] \in tree THEN keys[i] ELSE Zero]],
   proof  |-> Leaves(tree \ {keys[i] : i \in DOMAIN keys})]

(* Mutant: the newest root is left out. *)
RootsArray_slip(roots) ==
  {roots[i] : i \in 2..Len(roots)} \cup (IF Len(roots) < MaxRoots THEN {{}} ELSE {})

(* The window as the fixed array of the guest: [0; 8] fills the places of  *)
(* a window that is not full, and that is the root of the empty tree.      *)
RootsArray(roots) ==
  {roots[i] : i \in 1..Len(roots)} \cup (IF Len(roots) < MaxRoots THEN {{}} ELSE {})

to_zkvm_state(s, created_note_keys, nullified_keys) ==
  [created_notes   |-> build_witness(s.notes, filter_keys(created_note_keys, FALSE)),
   nullified_notes |-> build_witness(s.nullified, filter_keys(nullified_keys, TRUE)),
   roots           |-> RootsArray(s.roots)]

(* HyliUtxoZkVmState::new: no leaves, zero roots. *)
EmptyWitness == [values |-> <<>>, proof |-> {}]
NewZkVmState == [created_notes |-> EmptyWitness, nullified_notes |-> EmptyWitness,
                 roots |-> {{}}]

compute_root(w) ==
  w.proof \cup {<<w.values[i].key, w.values[i].value>> :
                  i \in {i \in DOMAIN w.values : w.values[i].value # Zero}}

ensure_all_zero(w) == \A i \in DOMAIN w.values : w.values[i].value = Zero

(* ZkContract::commit. *)
commit(z) == [notes_root |-> compute_root(z.created_notes),
              nullified_notes_root |-> compute_root(z.nullified_notes)]

----------------------------------------------------------------------------
CalleeCount(c, name) == Cardinality({i \in DOMAIN c.callees : c.callees[i] = name})

(***************************************************************************)
(* check_noir_blobs: one smt inclusion callee is taken out, its root must  *)
(* be in the window and its nullifiers those of the utxo blob; at most one *)
(* token callee is taken out; nothing may remain.                          *)
(***************************************************************************)
CalleesMatch(c) ==
  /\ CalleeCount(c, "smt_incl") >= 1
  /\ CalleeCount(c, "token") <= 1
  /\ Len(c.callees) = 1 + CalleeCount(c, "token")

NullifiersMatch(c) == \A i \in Slots : c.smt_nullifiers[i] = c.blob.nullified[i]

check_noir_blobs(z, c) ==
  /\ CalleesMatch(c)
  /\ c.notes_root \in z.roots
  /\ NullifiersMatch(c)

(* apply_action: the values are paired with the leaves by position; the    *)
(* keys of the leaves are those the witness was built with.                *)
LengthsMatch(z, c) ==
  /\ Len(z.created_notes.values) = Len(filter_keys(c.blob.created, FALSE))
  /\ Len(z.nullified_notes.values) = Len(filter_keys(c.blob.nullified, TRUE))

SetValues(w, keys) ==
  [w EXCEPT !.values = [i \in DOMAIN w.values |-> [w.values[i] EXCEPT !.value = keys[i]]]]

apply_action(z, c) ==
  [z EXCEPT !.created_notes = SetValues(@, filter_keys(c.blob.created, FALSE)),
            !.nullified_notes = SetValues(@, filter_keys(c.blob.nullified, TRUE))]

(* Mutant: a leaf that is already set is accepted. *)
execute_slip(z, c) ==
  [ok    |-> check_noir_blobs(z, c) /\ LengthsMatch(z, c),
   state |-> IF LengthsMatch(z, c) THEN apply_action(z, c) ELSE z]

(* ZkContract::execute: whether it succeeds, and the state it leaves then. *)
execute(z, c) ==
  [ok    |-> /\ ensure_all_zero(z.created_notes)
             /\ ensure_all_zero(z.nullified_notes)
             /\ check_noir_blobs(z, c)
             /\ LengthsMatch(z, c),
   state |-> IF LengthsMatch(z, c) THEN apply_action(z, c) ELSE z]

----------------------------------------------------------------------------
(* HyliUtxoZkVmBatch.  The next witness is popped from the end of remaining. *)
from_state(z) == [current |-> z, remaining |-> <<>>]

(* Mutant: the witness of a later transaction comes first. *)
extend_with_slip(batch, next) ==
  [batch EXCEPT !.remaining = @ \o <<next.current>> \o next.remaining]

extend_with(batch, next) ==
  [batch EXCEPT !.remaining = next.remaining \o <<next.current>> \o @]

(* Mutant: the next witness is read but not popped. *)
advance_step_slip(batch) ==
  IF batch.remaining # <<>>
  THEN [current   |-> batch.remaining[Len(batch.remaining)],
        remaining |-> batch.remaining]
  ELSE [batch EXCEPT !.current = NewZkVmState]

advance_step(batch) ==
  IF batch.remaining # <<>>
  THEN [current   |-> batch.remaining[Len(batch.remaining)],
        remaining |-> SubSeq(batch.remaining, 1, Len(batch.remaining) - 1)]
  ELSE [batch EXCEPT !.current = NewZkVmState]
============================================================================
