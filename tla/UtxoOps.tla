------------------------------ MODULE UtxoOps ------------------------------
(***************************************************************************)
(* The operations of HyliUtxoState (contracts/hyli-utxo-state/src/state.rs)*)
(* and of HyliUtxoStateExecutor::apply_commitments, as pure operators on a *)
(* state record [notes, nullified, roots].                                 *)
(*                                                                         *)
(* Abstractions.  A 32-byte key is a member of Key.  The commitment and    *)
(* the nullifier of a note are both named by the note: they live in two    *)
(* different trees and the code never compares one with the other.  A      *)
(* sparse Merkle tree is the set of its keys (every leaf the executor      *)
(* writes has value = key), and the root of a tree stands for its content: *)
(* the hash is taken to be injective, and so is its 8-byte fingerprint.    *)
(* The root of the empty tree is H256::zero(), that is the set {}.         *)
(***************************************************************************)
EXTENDS Integers, Sequences

CONSTANTS
  Note,              \* the notes (their commitments and their nullifiers)
  Zero,              \* H256::zero(), the commitment of a padding note
  PaddingNullifier,  \* HyliUtxoState::PADDING_NULLIFIER
  MaxRoots           \* MAX_ROOTS, the length of the window of recent roots

ASSUME KeysAssumption ==
  /\ Zero \notin Note
  /\ PaddingNullifier \notin Note
  /\ Zero # PaddingNullifier

ASSUME MaxRootsAssumption == MaxRoots \in Nat \ {0}

CreatedKey   == Note \cup {Zero}
NullifierKey == Note \cup {Zero, PaddingNullifier}

(***************************************************************************)
(* The content of a hyli_utxo blob: parse_hyli_utxo_blob splits its 128    *)
(* bytes into two output commitments and two nullifiers, in that order.    *)
(***************************************************************************)
Slots == 1..2

UtxoBlob == [created : [Slots -> CreatedKey],
             nullified : [Slots -> NullifierKey]]

HyliUtxoState == [notes : SUBSET Note,
                  nullified : SUBSET Note,
                  roots : Seq(SUBSET Note)]

DefaultState == [notes |-> {}, nullified |-> {}, roots |-> <<>>]

----------------------------------------------------------------------------
(* The keys that never enter a tree. *)
SkippedCommitments == {Zero}
SkippedNullifiers  == {Zero, PaddingNullifier}

(* Mutant of filter_keys: the padding nullifier is not filtered. *)
filter_keys_slip(keys, is_nullifier) ==
  LET kept(k) == IF k = Zero THEN <<>> ELSE <<k>>
  IN kept(keys[1]) \o kept(keys[2])

(* filter_keys: the keys of a blob that a witness is built for. *)
filter_keys(keys, is_nullifier) ==
  LET skipped == IF is_nullifier THEN SkippedNullifiers ELSE SkippedCommitments
      kept(k) == IF k \in skipped THEN <<>> ELSE <<k>>
  IN kept(keys[1]) \o kept(keys[2])

(***************************************************************************)
(* The loop shared by record_created and record_nullified: keys are        *)
(* inserted one by one, skipped keys are passed over, and the loop stops   *)
(* with an error at the first key that is already in the tree, whether it  *)
(* was there before or an earlier turn of this loop put it there.  What    *)
(* the earlier turns inserted stays inserted.                              *)
(***************************************************************************)
AlreadyThere(tree, keys, i, skipped) ==
  /\ keys[i] \notin skipped
  /\ keys[i] \in tree \cup {keys[j] : j \in 1..(i-1)}

Inserted(tree, keys, skipped) ==
  {keys[i] : i \in {i \in Slots :
                      /\ keys[i] \notin skipped
                      /\ \A j \in 1..i : ~AlreadyThere(tree, keys, j, skipped)}}

(* Mutant: what this call inserted itself is not looked at. *)
AllFresh_slip(tree, keys, skipped) ==
  \A i \in Slots : keys[i] \notin skipped => keys[i] \notin tree

AllFresh(tree, keys, skipped) ==
  \A i \in Slots : ~AlreadyThere(tree, keys, i, skipped)

record_nullified(s, keys) ==
  [ok    |-> AllFresh(s.nullified, keys, SkippedNullifiers),
   state |-> [s EXCEPT !.nullified = @ \cup Inserted(@, keys, SkippedNullifiers)]]

(* Mutant: padding commitments are inserted too. *)
record_created_slip(s, keys) ==
  [ok    |-> AllFresh(s.notes, keys, SkippedCommitments),
   state |-> [s EXCEPT !.notes = @ \cup Inserted(@, keys, {})]]

(* Mutant: an existing commitment is not an error. *)
record_created_lenient(s, keys) ==
  [ok    |-> TRUE,
   state |-> [s EXCEPT !.notes = @ \cup Inserted(@, keys, SkippedCommitments)]]

record_created(s, keys) ==
  [ok    |-> AllFresh(s.notes, keys, SkippedCommitments),
   state |-> [s EXCEPT !.notes = @ \cup Inserted(@, keys, SkippedCommitments)]]

(* Mutants of PushRoot: the window grows one too long; the newest root is last. *)
PushRoot_slip(roots, root) ==
  IF Len(roots) > MaxRoots
  THEN <<root>> \o SubSeq(roots, 1, Len(roots) - 1)
  ELSE <<root>> \o roots

PushRoot_swapped(roots, root) ==
  IF Len(roots) + 1 > MaxRoots THEN Append(Tail(roots), root) ELSE Append(roots, root)

(* update_roots: push the current notes root in front, drop the oldest. *)
PushRoot(roots, root) ==
  IF Len(roots) + 1 > MaxRoots
  THEN <<root>> \o SubSeq(roots, 1, Len(roots) - 1)
  ELSE <<root>> \o roots

update_roots(s) == [s EXCEPT !.roots = PushRoot(@, s.notes)]

(* Mutants: the insertion starts over from the state before the nullifiers; *)
(* the window moves on an error too.                                       *)
apply_commitments_slip(s, blob) ==
  LET nul == record_nullified(s, blob.nullified)
      cre == record_created(s, blob.created)
  IN IF ~nul.ok THEN nul
     ELSE IF ~cre.ok THEN cre
     ELSE [ok |-> TRUE, state |-> update_roots(cre.state)]

apply_commitments_eager(s, blob) ==
  LET nul == record_nullified(s, blob.nullified)
      cre == record_created(nul.state, blob.created)
  IN IF ~nul.ok THEN [ok |-> FALSE, state |-> update_roots(nul.state)]
     ELSE [ok |-> cre.ok, state |-> update_roots(cre.state)]

(***************************************************************************)
(* HyliUtxoStateExecutor::apply_commitments: nullifiers first, then the    *)
(* created notes, then the window.  An error returns at once: neither the  *)
(* insertions already made are undone nor is the window moved.             *)
(***************************************************************************)
apply_commitments(s, blob) ==
  LET nul == record_nullified(s, blob.nullified)
      cre == record_created(nul.state, blob.created)
  IN IF ~nul.ok THEN nul
     ELSE IF ~cre.ok THEN cre
     ELSE [ok |-> TRUE, state |-> update_roots(cre.state)]

(* HyliUtxoState::commitment: both roots, not the window of recent roots. *)
commitment(s) == [notes_root |-> s.notes, nullified_notes_root |-> s.nullified]

(* The keys of a blob that reach a tree. *)
RealNullifiers(blob) ==
  {blob.nullified[i] : i \in Slots} \ SkippedNullifiers
RealCommitments(blob) ==
  {blob.created[i] : i \in Slots} \ SkippedCommitments
============================================================================
