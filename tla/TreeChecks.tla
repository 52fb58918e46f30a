----------------------------- MODULE TreeChecks -----------------------------
(***************************************************************************)
(* SparseTree over every set of leaves of a small tree.  TLC evaluates the *)
(* assumptions at the start of a run.                                      *)
(***************************************************************************)
EXTENDS SparseTree

Leaves == Key \ {0}

(* The path that build_siblings takes out of a tree folds to its root in   *)
(* the circuit for every leaf the tree has, and for no other; the circuit  *)
(* skips the commitment 0 (smt.rs build_siblings, verify_inclusion).  Runs *)
(* of empty siblings, their end and their wrapped count included.          *)
ASSUME InclusionMeansMembership ==
  \A t \in SUBSET Leaves : LET r == smt_root(t) IN
    /\ \A k \in Leaves : verify_inclusion(k, r, build_siblings(t, k)) <=> smt_contains(t, k)
    /\ verify_inclusion(0, r, build_siblings(t, 0))

(* A path of another leaf, or of another tree with that leaf, proves       *)
(* nothing.                                                                *)
ASSUME PathsAreOfOneTree ==
  \A t \in SUBSET Leaves, n \in Leaves : n \notin t =>
    \A k \in t : ~verify_inclusion(k, smt_root(t), build_siblings(update_leaf(t, n), k))

(* Trees differ in their roots, the empty one has the root 0.              *)
ASSUME RootsTellTreesApart ==
  /\ smt_root(smt_zero) = 0
  /\ \A t, s \in SUBSET Leaves : smt_root(t) = smt_root(s) => t = s

(* What is written is read back, and a missing or added leaf is noticed.   *)
ASSUME TreesSurviveTheDisk ==
  \A t \in SUBSET Leaves, k \in Leaves :
    LET d == smt_serialize(t) IN
    /\ smt_deserialize(d) = {t}
    /\ smt_deserialize([d EXCEPT !.leaves = IF k \in t THEN t \ {k} ELSE t \union {k}]) = {}

(* The inputs of a transaction are in the tree that the blob names: the    *)
(* proof exists exactly when both notes are leaves, padding excepted.      *)
Spend == <<ephemeral_input_note(1, 3), padding_input_note>>
SpendKey == KeyOf(commitment(Spend[1].note))
ASSUME ProofsOfInclusionNeedTheNote ==
  /\ SpendKey # 0
  /\ \A t \in SUBSET Leaves, caller \in {<<>>, <<0>>, <<1>>} :
       LET blob == smt_blob(caller, <<>>, nullifier_commitments(new_burn(Spend, 7)) \o <<smt_root(t)>>)
           sib == <<build_siblings(t, SpendKey), build_siblings(t, 0)>>
       IN  smt_incl_accepts(19, blob, Spend, sib) <=> caller = <<0>> /\ SpendKey \in t

(* The wrapper of that proof takes 705 fields off the front; the circuit   *)
(* has 686 public inputs.  The string is put together again as it was, so  *)
(* that the proof which is sent is right, but verifying it here fails.     *)
ASSUME InclusionProofsDoNotVerify ==
  LET public == [i \in 1..public_inputs_of("hyli_smt_incl_proof") |-> i % 5]
  IN  \A p \in smt_incl_prove(TRUE, public) :
        /\ to_bytes(p) = backend_prove("hyli_smt_incl_proof", public)
        /\ ~smt_incl_verify(p)
============================================================================
