------------------------- MODULE ProvingBatchProofs -------------------------
(***************************************************************************)
(* Proofs about ProvingBatch, for any set of transactions without repeated *)
(* keys, any length of the window and of the batch.  First what the parts  *)
(* compute: the filter, a witness, the executor, the guest on the witness  *)
(* of a state; then the invariant, by which each transaction of the batch  *)
(* has a state that both its witness and the executor's claim come from,   *)
(* and the claims are a chain from the guest's commitment.                 *)
(***************************************************************************)
EXTENDS ProvingBatch, FiniteSetTheorems, SequenceTheorems, TLAPS

Elements(s) == {s[i] : i \in DOMAIN s}

LEMMA Joined ==
  ASSUME NEW S, NEW s \in Seq(S), NEW t \in Seq(S)
  PROVE  /\ s \o t \in Seq(S)
         /\ DOMAIN (s \o t) = 1..(Len(s) + Len(t))
         /\ Elements(s \o t) = Elements(s) \cup Elements(t)
<1>1. /\ s \o t \in Seq(S) /\ DOMAIN (s \o t) = 1..(Len(s) + Len(t))
      /\ \A i \in 1..Len(s) : (s \o t)[i] = s[i]
      /\ \A i \in 1..Len(t) : (s \o t)[Len(s) + i] = t[i]
  OBVIOUS
<1>2. ASSUME NEW x \in Elements(s) \cup Elements(t)  PROVE x \in Elements(s \o t)
  <2>1. CASE x \in Elements(s)
    BY <1>1, <2>1 DEF Elements
  <2>2. CASE x \in Elements(t)
    <3>1. PICK i \in 1..Len(t) : x = t[i]
      BY <2>2 DEF Elements
    <3>2. Len(s) + i \in DOMAIN (s \o t) /\ (s \o t)[Len(s) + i] = x
      BY <1>1, <3>1
    <3> QED BY <3>2 DEF Elements
  <2> QED BY <1>2, <2>1, <2>2
<1>3. ASSUME NEW x \in Elements(s \o t)  PROVE x \in Elements(s) \cup Elements(t)
  <2>1. PICK i \in DOMAIN (s \o t) : x = (s \o t)[i]
    BY DEF Elements
  <2>2. CASE i \in 1..Len(s)
    BY <1>1, <2>1, <2>2 DEF Elements
  <2>3. CASE i \notin 1..Len(s)
    <3>1. i - Len(s) \in 1..Len(t) /\ i = Len(s) + (i - Len(s))
      BY <1>1, <2>3
    <3>2. x = t[i - Len(s)]
      BY <1>1, <2>1, <3>1
    <3> QED BY <3>1, <3>2 DEF Elements
  <2> QED BY <2>2, <2>3
<1> QED BY <1>1, <1>2, <1>3

Skipped(is_nullifier) == IF is_nullifier THEN SkippedNullifiers ELSE SkippedCommitments

Real(keys, is_nullifier) == {keys[i] : i \in Slots} \ Skipped(is_nullifier)

(* What filter_keys returns: the keys of the blob that reach a tree. *)
LEMMA FilterKeys ==
  ASSUME NEW b \in BOOLEAN,
         NEW keys \in [Slots -> IF b THEN NullifierKey ELSE CreatedKey]
  PROVE  /\ filter_keys(keys, b) \in Seq(Note)
         /\ Elements(filter_keys(keys, b)) = Real(keys, b)
<1> DEFINE kept(k) == IF k \in Skipped(b) THEN <<>> ELSE <<k>>
<1>1. \A i \in Slots : keys[i] \notin Skipped(b) => keys[i] \in Note
  BY DEF Skipped, SkippedNullifiers, SkippedCommitments, NullifierKey, CreatedKey, Slots
<1>2. ASSUME NEW i \in Slots
      PROVE  /\ kept(keys[i]) \in Seq(Note)
             /\ Elements(kept(keys[i])) = {keys[i]} \ Skipped(b)
  <2>1. CASE keys[i] \in Skipped(b)
    <3>1. kept(keys[i]) = <<>>
      BY <2>1
    <3> HIDE DEF kept
    <3> QED BY <2>1, <3>1 DEF Elements
  <2>2. CASE keys[i] \notin Skipped(b)
    <3>1. kept(keys[i]) = <<keys[i]>> /\ keys[i] \in Note
      BY <2>2, <1>1
    <3> HIDE DEF kept
    <3> QED BY <2>2, <3>1 DEF Elements
  <2> QED BY <2>1, <2>2
<1>3. filter_keys(keys, b) = kept(keys[1]) \o kept(keys[2])
  BY DEF filter_keys, Skipped
<1>4. 1 \in Slots /\ 2 \in Slots /\ {keys[i] : i \in Slots} = {keys[1], keys[2]}
  BY DEF Slots
<1>5. /\ kept(keys[1]) \in Seq(Note) /\ Elements(kept(keys[1])) = {keys[1]} \ Skipped(b)
      /\ kept(keys[2]) \in Seq(Note) /\ Elements(kept(keys[2])) = {keys[2]} \ Skipped(b)
  BY <1>2, <1>4
<1> HIDE DEF kept
<1>6. /\ kept(keys[1]) \o kept(keys[2]) \in Seq(Note)
      /\ Elements(kept(keys[1]) \o kept(keys[2])) =
           Elements(kept(keys[1])) \cup Elements(kept(keys[2]))
  BY <1>5, Joined
<1> QED BY <1>3, <1>4, <1>5, <1>6 DEF Real

(***************************************************************************)
(* The witness of some keys of a tree.                                     *)
(***************************************************************************)
LEMMA WitnessFacts ==
  ASSUME NEW tree \in SUBSET Note, NEW keys \in Seq(Note)
  PROVE  LET w == build_witness(tree, keys)
         IN  /\ w \in Witness
             /\ Len(w.values) = Len(keys)
             /\ WitnessKeys(w) = keys
             /\ compute_root(w) = Leaves(tree)
             /\ ensure_all_zero(w) <=> Elements(keys) \cap tree = {}
             /\ compute_root(SetValues(w, keys)) = Leaves(tree \cup Elements(keys))
<1> DEFINE w == build_witness(tree, keys)
           K == Elements(keys)
<1> USE KeysAssumption
<1>1. /\ DOMAIN w.values = DOMAIN keys /\ DOMAIN keys = 1..Len(keys)
      /\ Len(w.values) = Len(keys)
      /\ w.proof = Leaves(tree \ K)
      /\ \A i \in DOMAIN keys : /\ keys[i] \in Note /\ keys[i] # Zero
                                /\ w.values[i].key = keys[i]
                                /\ w.values[i].value = IF keys[i] \in tree THEN keys[i] ELSE Zero
  BY DEF build_witness, Elements
<1> HIDE DEF w
<1>2. w \in Witness
  <2>1. \A i \in 1..Len(keys) : w.values[i] \in LeafValue
    BY <1>1 DEF build_witness, w, CreatedKey, LeafValue
  <2>2. w.values = [i \in 1..Len(keys) |-> w.values[i]]
    BY DEF build_witness, w
  <2>3. w.values \in Seq(LeafValue)
    BY <2>1, <2>2
  <2>4. w.proof \in SUBSET (Note \X Note)
    BY <1>1 DEF Leaves
  <2> QED BY <2>3, <2>4 DEF Witness, build_witness, w
<1>3. WitnessKeys(w) = keys
  BY <1>1 DEF WitnessKeys
<1>4. compute_root(w) = Leaves(tree)
  <2>1. ASSUME NEW x \in compute_root(w)  PROVE x \in Leaves(tree)
    BY <1>1, <2>1 DEF compute_root, Leaves
  <2>2. ASSUME NEW k \in tree  PROVE <<k, k>> \in compute_root(w)
    <3>1. CASE k \in K
      <4>1. PICK i \in DOMAIN keys : k = keys[i]
        BY <3>1 DEF Elements
      <4>2. i \in DOMAIN w.values /\ w.values[i].value # Zero
            /\ <<w.values[i].key, w.values[i].value>> = <<k, k>>
        BY <1>1, <4>1
      <4> QED BY <4>2 DEF compute_root
    <3>2. CASE k \notin K
      BY <1>1, <3>2 DEF compute_root, Leaves
    <3> QED BY <3>1, <3>2
  <2> QED BY <2>1, <2>2 DEF Leaves
<1>5. ensure_all_zero(w) <=> K \cap tree = {}
  BY <1>1 DEF ensure_all_zero, Elements
<1>6. compute_root(SetValues(w, keys)) = Leaves(tree \cup K)
  <2> DEFINE v == SetValues(w, keys)
  <2>1. /\ v.proof = Leaves(tree \ K) /\ DOMAIN v.values = DOMAIN keys
        /\ \A i \in DOMAIN keys : v.values[i].key = keys[i] /\ v.values[i].value = keys[i]
    BY <1>1 DEF SetValues, build_witness, w
  <2> HIDE DEF v
  <2>2. ASSUME NEW x \in compute_root(v)  PROVE x \in Leaves(tree \cup K)
    BY <1>1, <2>1, <2>2 DEF compute_root, Leaves, Elements
  <2>3. ASSUME NEW k \in tree \cup K  PROVE <<k, k>> \in compute_root(v)
    <3>1. CASE k \in K
      <4>1. PICK i \in DOMAIN keys : k = keys[i]
        BY <3>1 DEF Elements
      <4>2. i \in DOMAIN v.values /\ v.values[i].value # Zero
            /\ <<v.values[i].key, v.values[i].value>> = <<k, k>>
        BY <1>1, <2>1, <4>1
      <4> QED BY <4>2 DEF compute_root
    <3>2. CASE k \notin K
      BY <2>1, <2>3, <3>2 DEF compute_root, Leaves
    <3> QED BY <3>1, <3>2
  <2>4. compute_root(v) = Leaves(tree \cup K)
    BY <2>2, <2>3 DEF Leaves
  <2> QED BY <2>4 DEF v
<1> QED BY <1>1, <1>2, <1>3, <1>4, <1>5, <1>6 DEF w

(***************************************************************************)
(* The executor.                                                           *)
(***************************************************************************)
(* The newest root of the window is the present one. *)
Windowed(s) ==
  /\ s \in HyliUtxoState
  /\ Len(s.roots) <= MaxRoots
  /\ IF s.roots = <<>> THEN s.notes = {} ELSE s.roots[1] = s.notes

(* The loop over two keys that are not the same. *)
LEMMA LoopOverKeys ==
  ASSUME NEW tree, NEW keys, NEW skipped,
         keys[1] = keys[2] => keys[1] \in skipped
  PROVE  LET real == {keys[i] : i \in Slots} \ skipped
         IN  /\ AllFresh(tree, keys, skipped) <=> real \cap tree = {}
             /\ AllFresh(tree, keys, skipped) => Inserted(tree, keys, skipped) = real
<1>1. Slots = {1, 2} /\ 1..(1 - 1) = {} /\ 1..(2 - 1) = {1} /\ 1..1 = {1} /\ 1..2 = {1, 2}
  BY DEF Slots
<1>2. /\ AlreadyThere(tree, keys, 1, skipped) <=> keys[1] \notin skipped /\ keys[1] \in tree
      /\ AlreadyThere(tree, keys, 2, skipped) <=> keys[2] \notin skipped /\ keys[2] \in tree
  BY <1>1 DEF AlreadyThere
<1>3. AllFresh(tree, keys, skipped) <=> ({keys[i] : i \in Slots} \ skipped) \cap tree = {}
  BY <1>1, <1>2 DEF AllFresh
<1>4. ASSUME AllFresh(tree, keys, skipped)
      PROVE  Inserted(tree, keys, skipped) = {keys[i] : i \in Slots} \ skipped
  <2>1. \A i \in Slots : \A j \in 1..i : ~AlreadyThere(tree, keys, j, skipped)
    BY <1>1, <1>4 DEF AllFresh
  <2> QED BY <2>1 DEF Inserted
<1> QED BY <1>3, <1>4

LEMMA WindowMoves ==
  ASSUME NEW roots \in Seq(SUBSET Note), NEW root \in SUBSET Note, Len(roots) <= MaxRoots
  PROVE  /\ PushRoot(roots, root) \in Seq(SUBSET Note)
         /\ Len(PushRoot(roots, root)) \in 1..MaxRoots
         /\ PushRoot(roots, root)[1] = root
<1> DEFINE rest == IF Len(roots) + 1 > MaxRoots THEN SubSeq(roots, 1, Len(roots) - 1) ELSE roots
<1>1. MaxRoots \in Nat \ {0} /\ Len(roots) \in Nat
  BY MaxRootsAssumption
<1>2. rest \in Seq(SUBSET Note) /\ Len(rest) + 1 <= MaxRoots
  BY <1>1
<1>3. PushRoot(roots, root) = <<root>> \o rest
  BY DEF PushRoot
<1>4. <<root>> \in Seq(SUBSET Note) /\ Len(<<root>>) = 1 /\ <<root>>[1] = root
  OBVIOUS
<1> HIDE DEF rest
<1> QED BY <1>1, <1>2, <1>3, <1>4

(* What the executor does with the transaction of a well formed blob. *)
LEMMA Applied ==
  ASSUME NEW s, Windowed(s), NEW c \in Calldatas
  PROVE  LET r == apply_commitments(s, c.blob)
             cre == Real(c.blob.created, FALSE)
             nul == Real(c.blob.nullified, TRUE)
         IN  /\ r.ok \in BOOLEAN
             /\ r.ok <=> cre \cap s.notes = {} /\ nul \cap s.nullified = {}
             /\ r.ok => /\ Windowed(r.state)
                        /\ r.state.notes = s.notes \cup cre
                        /\ r.state.nullified = s.nullified \cup nul
<1> DEFINE r == apply_commitments(s, c.blob)
           cre == Real(c.blob.created, FALSE)
           nul == Real(c.blob.nullified, TRUE)
           rn == record_nullified(s, c.blob.nullified)
           rc == record_created(rn.state, c.blob.created)
<1>1. /\ s \in HyliUtxoState /\ Len(s.roots) <= MaxRoots
      /\ c.blob \in UtxoBlob
      /\ c.blob.created[1] = c.blob.created[2] => c.blob.created[1] \in SkippedCommitments
      /\ c.blob.nullified[1] = c.blob.nullified[2] => c.blob.nullified[1] \in SkippedNullifiers
  BY CalldatasAssumption DEF Windowed, Calldata, SkippedCommitments
<1>2. cre \subseteq Note /\ nul \subseteq Note
  BY <1>1 DEF Real, Skipped, SkippedCommitments, SkippedNullifiers, CreatedKey, NullifierKey, UtxoBlob
<1>3. /\ rn.ok <=> nul \cap s.nullified = {}
      /\ rn.state \in HyliUtxoState \/ ~rn.ok
      /\ rn.state.notes = s.notes /\ rn.state.roots = s.roots
      /\ rn.ok => rn.state.nullified = s.nullified \cup nul
  BY <1>1, <1>2, LoopOverKeys DEF record_nullified, HyliUtxoState, Real, Skipped
<1>4. rn.ok => /\ rc.ok <=> cre \cap s.notes = {}
               /\ rc.ok => rc.state.notes = s.notes \cup cre
               /\ rc.state.roots = s.roots
               /\ rc.state.nullified = rn.state.nullified
               /\ rc.ok => rc.state \in HyliUtxoState
  <2> DEFINE n == rn.state
             fresh == AllFresh(s.notes, c.blob.created, SkippedCommitments)
             inserted == Inserted(s.notes, c.blob.created, SkippedCommitments)
  <2> SUFFICES ASSUME rn.ok PROVE /\ rc.ok <=> cre \cap s.notes = {}
                                  /\ rc.ok => rc.state.notes = s.notes \cup cre
                                  /\ rc.state.roots = s.roots
                                  /\ rc.state.nullified = n.nullified
                                  /\ rc.ok => rc.state \in HyliUtxoState
    OBVIOUS
  <2>1. n \in HyliUtxoState /\ n.notes = s.notes /\ n.roots = s.roots
    BY <1>3
  <2>2. rc.ok = fresh /\ rc.state = [n EXCEPT !.notes = s.notes \cup inserted]
    BY <2>1 DEF record_created
  <2>3. /\ fresh <=> cre \cap s.notes = {}
        /\ fresh => inserted = cre
    BY <1>1, LoopOverKeys DEF Real, Skipped
  <2> HIDE DEF rn, rc, n, fresh, inserted, cre
  <2>4. rc.state.roots = n.roots /\ rc.state.nullified = n.nullified
        /\ rc.state.notes = s.notes \cup inserted
    BY ONLY <2>1, <2>2 DEF HyliUtxoState
  <2>5. rc.ok => rc.state \in HyliUtxoState
    <3>1. fresh => s.notes \cup inserted \subseteq Note
      BY ONLY <1>1, <1>2, <2>3 DEF HyliUtxoState
    <3> QED BY ONLY <2>1, <2>2, <3>1 DEF HyliUtxoState
  <2> QED BY <2>1, <2>2, <2>3, <2>4, <2>5
<1>5. rn.ok \in BOOLEAN /\ rc.ok \in BOOLEAN
  BY DEF record_created, record_nullified, AllFresh
<1>6. r = IF ~rn.ok THEN rn ELSE IF ~rc.ok THEN rc
          ELSE [ok |-> TRUE, state |-> update_roots(rc.state)]
  BY DEF apply_commitments
<1> HIDE DEF rn, rc, r, cre, nul
<1>7. r.ok \in BOOLEAN /\ (r.ok <=> rn.ok /\ rc.ok)
  BY <1>5, <1>6
<1>8. ASSUME r.ok
      PROVE  /\ Windowed(r.state)
             /\ r.state.notes = s.notes \cup cre
             /\ r.state.nullified = s.nullified \cup nul
  <2>1. /\ rn.ok /\ rc.ok /\ rc.state \in HyliUtxoState
        /\ r.state = [rc.state EXCEPT !.roots = PushRoot(rc.state.roots, rc.state.notes)]
    BY <1>4, <1>6, <1>7, <1>8 DEF update_roots
  <2>2. r.state.notes = s.notes \cup cre /\ r.state.nullified = s.nullified \cup nul
    BY <2>1, <1>3, <1>4 DEF HyliUtxoState
  <2> DEFINE roots == PushRoot(rc.state.roots, rc.state.notes)
  <2>3. /\ roots \in Seq(SUBSET Note) /\ Len(roots) \in 1..MaxRoots
        /\ roots[1] = rc.state.notes
    BY <2>1, <1>1, <1>4, WindowMoves DEF HyliUtxoState
  <2> HIDE DEF roots
  <2>4. /\ r.state \in HyliUtxoState /\ r.state.roots = roots
        /\ r.state.notes = rc.state.notes
    BY <2>1, <2>3 DEF HyliUtxoState, roots
  <2>5. roots # <<>>
    BY <2>3, MaxRootsAssumption
  <2> QED BY <2>2, <2>3, <2>4, <2>5, MaxRootsAssumption DEF Windowed
<1> QED BY <1>3, <1>4, <1>5, <1>7, <1>8 DEF r, cre, nul

(***************************************************************************)
(* The guest.                                                              *)
(***************************************************************************)
(* apply_action writes values and leaves a witness. *)
LEMMA ValuesAreSet ==
  ASSUME NEW w \in Witness, NEW keys \in Seq(Note), Len(w.values) = Len(keys)
  PROVE  SetValues(w, keys) \in Witness
<1> DEFINE values == [i \in DOMAIN w.values |-> [w.values[i] EXCEPT !.value = keys[i]]]
<1>1. w.values \in Seq(LeafValue)
  BY DEF Witness
<1>2. /\ DOMAIN w.values = 1..Len(keys) /\ Len(keys) \in Nat
      /\ \A i \in 1..Len(keys) : w.values[i] \in LeafValue /\ keys[i] \in Note
  BY <1>1
<1>3. \A i \in 1..Len(keys) : [w.values[i] EXCEPT !.value = keys[i]] \in LeafValue
  BY <1>2 DEF CreatedKey, LeafValue
<1>4. values = [i \in 1..Len(keys) |-> [w.values[i] EXCEPT !.value = keys[i]]]
  BY <1>2
<1>5. values \in Seq(LeafValue)
  BY <1>2, <1>3, <1>4
<1>6. SetValues(w, keys) = [w EXCEPT !.values = values]
  BY DEF SetValues
<1> HIDE DEF values
<1> QED BY <1>5, <1>6 DEF Witness

LEMMA RootOfWitness ==
  ASSUME NEW w \in Witness
  PROVE  compute_root(w) \in SUBSET (Note \X Note)
<1>1. w.values \in Seq(LeafValue) /\ w.proof \in SUBSET (Note \X Note)
  BY DEF Witness
<1>2. \A i \in DOMAIN w.values : w.values[i] \in LeafValue
  BY <1>1
<1> QED BY <1>1, <1>2 DEF compute_root, LeafValue, CreatedKey

(* The keys of a transaction, as the two trees get them. *)
LEMMA KeysOf ==
  ASSUME NEW c \in Calldatas
  PROVE  LET cre == filter_keys(c.blob.created, FALSE)
             nul == filter_keys(c.blob.nullified, TRUE)
         IN  /\ cre \in Seq(Note) /\ Elements(cre) = Real(c.blob.created, FALSE)
             /\ nul \in Seq(Note) /\ Elements(nul) = Real(c.blob.nullified, TRUE)
<1>1. c.blob.created \in [Slots -> CreatedKey] /\ c.blob.nullified \in [Slots -> NullifierKey]
  BY CalldatasAssumption DEF Calldata, UtxoBlob
<1> QED BY <1>1, FilterKeys

(* Whatever witness the guest has in hand, it leaves one. *)
LEMMA ExecutedType ==
  ASSUME NEW z \in ZkVmState, NEW c \in Calldatas, execute(z, c).ok
  PROVE  execute(z, c).state \in ZkVmState
<1> DEFINE cre == filter_keys(c.blob.created, FALSE)
           nul == filter_keys(c.blob.nullified, TRUE)
<1>1. /\ Len(z.created_notes.values) = Len(cre)
      /\ Len(z.nullified_notes.values) = Len(nul)
      /\ execute(z, c).state = apply_action(z, c)
  BY DEF execute, LengthsMatch
<1>2. cre \in Seq(Note) /\ nul \in Seq(Note)
  BY KeysOf
<1>3. /\ z.created_notes \in Witness /\ z.nullified_notes \in Witness
  BY DEF ZkVmState
<1>4. apply_action(z, c) = [z EXCEPT !.created_notes = SetValues(z.created_notes, cre),
                                     !.nullified_notes = SetValues(z.nullified_notes, nul)]
  BY DEF apply_action
<1> HIDE DEF cre, nul
<1>5. SetValues(z.created_notes, cre) \in Witness /\ SetValues(z.nullified_notes, nul) \in Witness
  BY <1>1, <1>2, <1>3, ValuesAreSet
<1> QED BY <1>1, <1>4, <1>5 DEF ZkVmState

LEMMA CommittedType ==
  ASSUME NEW z \in ZkVmState
  PROVE  commit(z) \in Commitment
BY RootOfWitness DEF commit, Commitment, ZkVmState

LEMMA ExecutorCommitted ==
  ASSUME NEW s \in HyliUtxoState
  PROVE  ExecutorCommitment(s) \in Commitment
BY DEF ExecutorCommitment, Commitment, Leaves, HyliUtxoState

(* The callees of a transfer and of a withdrawal pass the guest's count. *)
LEMMA HonestCalleesMatch ==
  ASSUME NEW c, c.callees \in {<<"smt_incl">>, <<"smt_incl", "token">>, <<"token", "smt_incl">>}
  PROVE  CalleesMatch(c)
<1> DEFINE at(name) == {i \in DOMAIN c.callees : c.callees[i] = name}
<1>1. Cardinality({}) = 0 /\ Cardinality({1}) = 1 /\ Cardinality({2}) = 1
  BY FS_EmptySet, FS_Singleton
<1>2. \/ at("smt_incl") = {1} /\ at("token") = {} /\ Len(c.callees) = 1
      \/ at("smt_incl") = {1} /\ at("token") = {2} /\ Len(c.callees) = 2
      \/ at("smt_incl") = {2} /\ at("token") = {1} /\ Len(c.callees) = 2
  <2>1. CASE c.callees = <<"smt_incl">>
    BY <2>1
  <2>2. CASE c.callees = <<"smt_incl", "token">>
    BY <2>2
  <2>3. CASE c.callees = <<"token", "smt_incl">>
    BY <2>3
  <2> QED BY <2>1, <2>2, <2>3
<1>3. CalleeCount(c, "smt_incl") = Cardinality(at("smt_incl"))
      /\ CalleeCount(c, "token") = Cardinality(at("token"))
  BY DEF CalleeCount
<1> HIDE DEF at
<1>4. CalleeCount(c, "smt_incl") = 1
  BY <1>1, <1>2, <1>3
<1>5. \/ CalleeCount(c, "token") = 0 /\ Len(c.callees) = 1
      \/ CalleeCount(c, "token") = 1 /\ Len(c.callees) = 2
  BY <1>1, <1>2, <1>3
<1>6. /\ CalleeCount(c, "smt_incl") >= 1
      /\ CalleeCount(c, "token") <= 1
      /\ Len(c.callees) = 1 + CalleeCount(c, "token")
  <2> DEFINE length == Len(c.callees)
  <2>1. \/ CalleeCount(c, "token") = 0 /\ length = 1
        \/ CalleeCount(c, "token") = 1 /\ length = 2
    BY <1>5
  <2> HIDE DEF length
  <2>2. length = 1 + CalleeCount(c, "token") /\ CalleeCount(c, "token") <= 1
    BY <2>1
  <2> QED BY <1>4, <2>2 DEF length
<1> QED BY <1>6 DEF CalleesMatch

(* On its own witness, the guest does what the executor does. *)
LEMMA GuestFollows ==
  ASSUME NEW s, Windowed(s), NEW c \in Calldatas
  PROVE  LET z == to_zkvm_state(s, c.blob.created, c.blob.nullified)
             r == apply_commitments(s, c.blob)
         IN  /\ z \in ZkVmState
             /\ commit(z) = ExecutorCommitment(s)
             /\ WitnessKeys(z.created_notes) = filter_keys(c.blob.created, FALSE)
             /\ WitnessKeys(z.nullified_notes) = filter_keys(c.blob.nullified, TRUE)
             /\ execute(z, c).ok => 
                  r.ok /\ commit(execute(z, c).state) = ExecutorCommitment(r.state)
             /\ /\ r.ok
                /\ NullifiersMatch(c)
                /\ c.callees \in {<<"smt_incl">>, <<"smt_incl", "token">>, <<"token", "smt_incl">>}
                /\ c.notes_root \in {s.notes} \cup {s.roots[i] : i \in DOMAIN s.roots}
                => execute(z, c).ok
<1> DEFINE z == to_zkvm_state(s, c.blob.created, c.blob.nullified)
           r == apply_commitments(s, c.blob)
           cre == filter_keys(c.blob.created, FALSE)
           nul == filter_keys(c.blob.nullified, TRUE)
           wc == build_witness(s.notes, cre)
           wn == build_witness(s.nullified, nul)
<1>1. /\ s \in HyliUtxoState /\ s.notes \in SUBSET Note /\ s.nullified \in SUBSET Note
      /\ s.roots \in Seq(SUBSET Note)
  BY DEF Windowed, HyliUtxoState
<1>2. /\ cre \in Seq(Note) /\ Elements(cre) = Real(c.blob.created, FALSE)
      /\ nul \in Seq(Note) /\ Elements(nul) = Real(c.blob.nullified, TRUE)
  BY KeysOf
<1>3. z = [created_notes |-> wc, nullified_notes |-> wn, roots |-> RootsArray(s.roots)]
  BY DEF to_zkvm_state
<1>4. RootsArray(s.roots) \in SUBSET SUBSET Note
  BY <1>1 DEF RootsArray
<1>5. execute(z, c).ok <=> /\ ensure_all_zero(z.created_notes) /\ ensure_all_zero(z.nullified_notes)
                           /\ check_noir_blobs(z, c)
                           /\ Len(z.created_notes.values) = Len(cre)
                           /\ Len(z.nullified_notes.values) = Len(nul)
  BY DEF execute, LengthsMatch
<1>6. execute(z, c).ok => 
        execute(z, c).state = [z EXCEPT !.created_notes = SetValues(z.created_notes, cre),
                                        !.nullified_notes = SetValues(z.nullified_notes, nul)]
  BY DEF execute, LengthsMatch, apply_action
<1> HIDE DEF z, cre, nul
<1>7. /\ wc \in Witness /\ Len(wc.values) = Len(cre) /\ WitnessKeys(wc) = cre
      /\ compute_root(wc) = Leaves(s.notes)
      /\ ensure_all_zero(wc) <=> Elements(cre) \cap s.notes = {}
      /\ compute_root(SetValues(wc, cre)) = Leaves(s.notes \cup Elements(cre))
  BY <1>1, <1>2, WitnessFacts
<1>8. /\ wn \in Witness /\ Len(wn.values) = Len(nul) /\ WitnessKeys(wn) = nul
      /\ compute_root(wn) = Leaves(s.nullified)
      /\ ensure_all_zero(wn) <=> Elements(nul) \cap s.nullified = {}
      /\ compute_root(SetValues(wn, nul)) = Leaves(s.nullified \cup Elements(nul))
  BY <1>1, <1>2, WitnessFacts
<1> HIDE DEF wc, wn
<1>9. /\ z.created_notes = wc /\ z.nullified_notes = wn /\ z.roots = RootsArray(s.roots)
  BY <1>3
<1>10. /\ r.ok <=> Elements(cre) \cap s.notes = {} /\ Elements(nul) \cap s.nullified = {}
       /\ r.ok => /\ r.state.notes = s.notes \cup Elements(cre)
                  /\ r.state.nullified = s.nullified \cup Elements(nul)
  BY <1>2, Applied
<1> HIDE DEF r
<1>11. z \in ZkVmState
  BY <1>3, <1>4, <1>7, <1>8 DEF ZkVmState
<1>12. commit(z) = ExecutorCommitment(s)
  BY <1>7, <1>8, <1>9 DEF commit, ExecutorCommitment
<1>13. ASSUME execute(z, c).ok
       PROVE  r.ok /\ commit(execute(z, c).state) = ExecutorCommitment(r.state)
  <2>1. r.ok
    BY <1>5, <1>7, <1>8, <1>9, <1>10, <1>13
  <2>2. /\ execute(z, c).state.created_notes = SetValues(wc, cre)
        /\ execute(z, c).state.nullified_notes = SetValues(wn, nul)
    BY <1>3, <1>6, <1>13
  <2> QED BY <2>1, <2>2, <1>7, <1>8, <1>10 DEF commit, ExecutorCommitment
<1>14. ASSUME r.ok, NullifiersMatch(c),
              c.callees \in {<<"smt_incl">>, <<"smt_incl", "token">>, <<"token", "smt_incl">>},
              c.notes_root \in {s.notes} \cup {s.roots[i] : i \in DOMAIN s.roots}
       PROVE  execute(z, c).ok
  <2>1. CalleesMatch(c)
    BY <1>14, HonestCalleesMatch
  <2>2. c.notes_root \in z.roots
    <3>1. DOMAIN s.roots = 1..Len(s.roots) /\ Len(s.roots) \in Nat
      BY <1>1
    <3>2. CASE s.roots = <<>>
      BY <1>9, <1>14, <3>1, <3>2, MaxRootsAssumption DEF Windowed, RootsArray
    <3>3. CASE s.roots # <<>>
      <4>1. 1 \in DOMAIN s.roots /\ s.roots[1] = s.notes
        BY <1>1, <3>1, <3>3 DEF Windowed
      <4> QED BY <1>9, <1>14, <3>1, <4>1 DEF RootsArray
    <3> QED BY <3>2, <3>3
  <2> QED BY <2>1, <2>2, <1>5, <1>7, <1>8, <1>9, <1>10, <1>14 DEF check_noir_blobs
<1> QED BY <1>7, <1>8, <1>9, <1>11, <1>12, <1>13, <1>14 DEF z, r, cre, nul

(***************************************************************************)
(* The invariant.                                                          *)
(***************************************************************************)
(* The claim of the executor on a transaction, and its witness, come from  *)
(* one state.                                                              *)
Foretells(s, c, claim, z) ==
  /\ Windowed(s)
  /\ z = to_zkvm_state(s, c.blob.created, c.blob.nullified)
  /\ claim.initial = ExecutorCommitment(s)
  /\ claim.roots = {s.notes} \cup {s.roots[i] : i \in DOMAIN s.roots}
  /\ claim.ok = apply_commitments(s, c.blob).ok
  /\ claim.ok => claim.next = ExecutorCommitment(apply_commitments(s, c.blob).state)

Clean == NoFailureBefore(Position)

(* The witness that will be in hand for the transaction at a position. *)
WitnessAt(i) ==
  IF i = Position THEN batch.current ELSE batch.remaining[Len(calldatas) - i + 1]

Phases ==
  /\ batch = <<>> <=> calldatas = <<>>
  /\ phase = "build" => outputs = <<>>
  /\ phase = "prove" => calldatas # <<>>
  /\ phase = "done" => calldatas = <<>>

Queued ==
  calldatas # <<>> /\ Clean =>
    /\ Position <= Len(calldatas) => Len(batch.remaining) = Len(calldatas) - Position
    /\ \A i \in Position..Len(calldatas) :
         \E s : Foretells(s, calldatas[i], claims[i], WitnessAt(i))

Chained ==
  /\ \A i \in 2..Len(claims) : claims[i].initial = claims[i-1].next
  /\ phase = "build" /\ claims # <<>> =>
       claims[Len(claims)].next = ExecutorCommitment(executor)
  /\ phase = "prove" /\ Clean =>
       commitment_now = IF outputs = <<>> THEN claims[1].initial ELSE claims[Len(outputs)].next

BatchInv ==
  /\ TypeOK
  /\ Windowed(executor)
  /\ Phases
  /\ Queued
  /\ Chained
  /\ GuestAgreesWithExecutor
  /\ HonestTransactionsSucceed

LEMMA ForetoldRuns ==
  ASSUME NEW c \in Calldatas, NEW claim, NEW z, NEW s, Foretells(s, c, claim, z)
  PROVE  /\ z \in ZkVmState
         /\ commit(z) = claim.initial
         /\ WitnessKeys(z.created_notes) = filter_keys(c.blob.created, FALSE)
         /\ WitnessKeys(z.nullified_notes) = filter_keys(c.blob.nullified, TRUE)
         /\ execute(z, c).ok => claim.ok /\ commit(execute(z, c).state) = claim.next
         /\ /\ claim.ok
            /\ NullifiersMatch(c)
            /\ c.callees \in {<<"smt_incl">>, <<"smt_incl", "token">>, <<"token", "smt_incl">>}
            /\ c.notes_root \in claim.roots
            => execute(z, c).ok
BY GuestFollows DEF Foretells

LEMMA DefaultFacts ==
  Windowed(DefaultState) /\ ExecutorCommitment(DefaultState) \in Commitment
<1>1. DefaultState \in HyliUtxoState
  BY DEF DefaultState, HyliUtxoState
<1> QED BY <1>1, ExecutorCommitted, MaxRootsAssumption DEF Windowed, DefaultState

LEMMA InitInv == Init => BatchInv
<1> SUFFICES ASSUME Init PROVE BatchInv
  OBVIOUS
<1>1. TypeOK
  BY DefaultFacts, BoundsAssumption DEF Init, TypeOK, Windowed
<1>2. Phases /\ Queued /\ Chained
  BY DEF Init, Phases, Queued, Chained
<1>3. GuestAgreesWithExecutor /\ HonestTransactionsSucceed
  BY DEF Init, GuestAgreesWithExecutor, HonestTransactionsSucceed
<1> QED BY <1>1, <1>2, <1>3, DefaultFacts DEF Init, BatchInv

LEMMA CatchUpStep ==
  ASSUME BatchInv, NEW c \in Calldatas, CatchUp(c)
  PROVE  BatchInv'
<1> DEFINE r == apply_commitments(executor, c.blob)
<1>1. Windowed(executor) /\ execute(to_zkvm_state(executor, c.blob.created, c.blob.nullified), c).ok
  BY DEF BatchInv, CatchUp
<1>2. r.ok
  BY <1>1, GuestFollows
<1>3. Windowed(r.state)
  BY <1>1, <1>2, Applied
<1> HIDE DEF r
<1>4. Windowed(executor)' /\ executor' \in HyliUtxoState
  BY <1>3 DEF CatchUp, Windowed, r
<1>5. TypeOK'
  BY <1>4, BoundsAssumption DEF BatchInv, TypeOK, CatchUp
<1>6. Phases' /\ Queued'
  BY DEF BatchInv, CatchUp, Phases, Queued
<1>7. Len(claims) = 0 /\ claims = <<>>
  BY DEF BatchInv, CatchUp, TypeOK
<1>8. Chained'
  BY <1>7 DEF BatchInv, CatchUp, Phases, Chained
<1>9. (GuestAgreesWithExecutor /\ HonestTransactionsSucceed)'
  BY DEF BatchInv, CatchUp, GuestAgreesWithExecutor, HonestTransactionsSucceed, NoFailureBefore
<1> QED BY <1>4, <1>5, <1>6, <1>8, <1>9 DEF BatchInv

LEMMA StartStep ==
  ASSUME BatchInv, StartProof
  PROVE  BatchInv'
<1>1. /\ calldatas \in Seq(Calldatas) /\ calldatas # <<>> /\ outputs = <<>> /\ Position = 1
      /\ Len(claims) = Len(calldatas) /\ batch # <<>>
  BY DEF BatchInv, TypeOK, StartProof, Phases, Position
<1>2. 1 \in Position..Len(calldatas) /\ calldatas[1] \in Calldatas /\ Clean /\ WitnessAt(1) = batch.current
  BY <1>1 DEF Clean, NoFailureBefore, WitnessAt
<1>3. PICK s : Foretells(s, calldatas[1], claims[1], batch.current)
  BY <1>1, <1>2 DEF BatchInv, Queued
<1>4. batch.current \in ZkVmState /\ commit(batch.current) = claims[1].initial
  BY <1>2, <1>3, ForetoldRuns
<1>5. TypeOK'
  BY <1>4, CommittedType DEF BatchInv, TypeOK, StartProof
<1>6. Phases'
  BY DEF BatchInv, Phases, StartProof
<1>7. Queued'
  BY DEF BatchInv, Queued, StartProof, Clean, NoFailureBefore, WitnessAt, Position
<1>8. Chained'
  BY <1>1, <1>4 DEF BatchInv, Chained, StartProof
<1>9. (GuestAgreesWithExecutor /\ HonestTransactionsSucceed)'
  BY DEF BatchInv, StartProof, GuestAgreesWithExecutor, HonestTransactionsSucceed, NoFailureBefore
<1>10. Windowed(executor)'
  BY DEF BatchInv, StartProof
<1> QED BY <1>5, <1>6, <1>7, <1>8, <1>9, <1>10 DEF BatchInv

LEMMA FinishStep ==
  ASSUME BatchInv, FinishProof
  PROVE  BatchInv'
<1>1. TypeOK'
  BY BoundsAssumption DEF BatchInv, TypeOK, FinishProof
<1>2. Phases' /\ Queued' /\ Chained'
  BY DEF BatchInv, FinishProof, Phases, Queued, Chained
<1>3. (GuestAgreesWithExecutor /\ HonestTransactionsSucceed)'
  BY DEF FinishProof, GuestAgreesWithExecutor, HonestTransactionsSucceed
<1>4. Windowed(executor)'
  BY DEF BatchInv, FinishProof
<1> QED BY <1>1, <1>2, <1>3, <1>4 DEF BatchInv

(* The claim recorded for a transaction. *)
ClaimOn(c) ==
  LET r     == apply_commitments(executor, c.blob)
      after == IF r.ok THEN r.state ELSE executor
  IN  [ok      |-> r.ok,
       initial |-> ExecutorCommitment(executor),
       next    |-> ExecutorCommitment(after),
       roots   |-> {executor.notes} \cup {executor.roots[i] : i \in DOMAIN executor.roots}]

(* A transaction joins the batch: its witness comes last in hand, hence    *)
(* first in remaining.                                                     *)
LEMMA AddStep ==
  ASSUME BatchInv, NEW c \in Calldatas, AddTransaction(c)
  PROVE  BatchInv'
<1> DEFINE z == to_zkvm_state(executor, c.blob.created, c.blob.nullified)
           r == apply_commitments(executor, c.blob)
           after == IF r.ok THEN r.state ELSE executor
           n == Len(calldatas)
           claim == ClaimOn(c)
<1>1. /\ Windowed(executor) /\ outputs = <<>> /\ outputs' = <<>>
      /\ calldatas \in Seq(Calldatas) /\ n \in Nat /\ Len(claims) = n
      /\ phase = "build" /\ phase' = "build"
      /\ n < MaxBatch /\ MaxBatch \in Nat
  BY BoundsAssumption DEF BatchInv, TypeOK, Phases, AddTransaction
<1>2. /\ z \in ZkVmState /\ r.ok \in BOOLEAN /\ Windowed(after)
      /\ Foretells(executor, c, claim, z)
  BY <1>1, GuestFollows, Applied DEF Foretells, ClaimOn
<1>3. claim \in [ok : BOOLEAN, initial : Commitment, next : Commitment, roots : SUBSET SUBSET Note]
  <2>1. executor \in HyliUtxoState /\ after \in HyliUtxoState
    BY <1>1, <1>2 DEF Windowed
  <2>2. ExecutorCommitment(executor) \in Commitment /\ ExecutorCommitment(after) \in Commitment
    BY <2>1, ExecutorCommitted
  <2>3. {executor.notes} \cup {executor.roots[i] : i \in DOMAIN executor.roots} \in SUBSET SUBSET Note
    BY <2>1 DEF HyliUtxoState
  <2> QED BY <1>2, <2>2, <2>3 DEF ClaimOn
<1>4. /\ executor' = after /\ claims' = Append(claims, claim)
      /\ calldatas' = Append(calldatas, c)
      /\ batch' = IF batch = <<>> THEN from_state(z) ELSE extend_with(batch, from_state(z))
      /\ claim.initial = ExecutorCommitment(executor)
      /\ claim.next = ExecutorCommitment(after)
  BY DEF AddTransaction, from_state, ClaimOn
<1> HIDE DEF z, r, after, claim
<1>5. /\ calldatas' \in Seq(Calldatas) /\ Len(calldatas') = n + 1
      /\ calldatas'[n + 1] = c /\ \A i \in 1..n : calldatas'[i] = calldatas[i]
  BY <1>1, <1>4
<1>6. /\ claims' \in Seq([ok : BOOLEAN, initial : Commitment, next : Commitment,
                          roots : SUBSET SUBSET Note])
      /\ Len(claims') = n + 1
      /\ claims'[n + 1] = claim /\ \A i \in 1..n : claims'[i] = claims[i]
  BY <1>1, <1>3, <1>4 DEF BatchInv, TypeOK
<1>7. Windowed(executor)'
  BY <1>2, <1>4 DEF Windowed
<1>8. batch' = [current   |-> IF n = 0 THEN z ELSE batch.current,
                remaining |-> IF n = 0 THEN <<>> ELSE <<z>> \o batch.remaining]
  <2>1. n = 0 <=> batch = <<>>
    BY <1>1 DEF BatchInv, Phases
  <2>2. CASE n = 0
    BY <1>4, <2>1, <2>2 DEF from_state
  <2>3. CASE n # 0
    <3>1. batch \in [current : ZkVmState, remaining : Seq(ZkVmState)]
      BY <2>1, <2>3 DEF BatchInv, TypeOK
    <3>2. batch' = [batch EXCEPT !.remaining = (<<>> \o <<z>>) \o batch.remaining]
      BY <1>4, <2>1, <2>3 DEF extend_with, from_state
    <3>3. <<>> \o <<z>> = <<z>>
      OBVIOUS
    <3> QED BY <2>3, <3>1, <3>2, <3>3
  <2> QED BY <2>2, <2>3
<1>9. n # 0 => batch.current \in ZkVmState /\ batch.remaining \in Seq(ZkVmState)
  <2>1. n # 0 => batch \in [current : ZkVmState, remaining : Seq(ZkVmState)]
    BY <1>1 DEF BatchInv, Phases, TypeOK
  <2> QED BY <2>1
<1>10. batch' \in [current : ZkVmState, remaining : Seq(ZkVmState)] /\ batch' # <<>>
  <2>1. n # 0 => <<z>> \o batch.remaining \in Seq(ZkVmState)
    BY <1>2, <1>9
  <2>2. <<>> \in Seq(ZkVmState)
    OBVIOUS
  <2> QED BY <1>2, <1>8, <1>9, <2>1, <2>2
<1>11. TypeOK'
  <2>1. executor' \in HyliUtxoState
    BY <1>7 DEF Windowed
  <2>2. txs' \in 0..MaxTxs
    BY BoundsAssumption DEF BatchInv, TypeOK, AddTransaction
  <2>3. commitment_now' = commitment_now /\ commitment_now \in Commitment
    BY DEF BatchInv, TypeOK, AddTransaction
  <2>4. outputs' = outputs /\ Len(outputs) = 0
    BY <1>1
  <2>5. Len(outputs') <= Len(calldatas') /\ Len(calldatas') <= MaxBatch /\ Len(claims') = Len(calldatas')
    BY <1>1, <1>5, <1>6, <2>4
  <2>6. outputs' \in Seq([ok : BOOLEAN, initial : Commitment, next : Commitment,
                      created_keys : Seq(Note), nullified_keys : Seq(Note)])
    BY <2>4 DEF BatchInv, TypeOK
  <2> QED BY <1>1, <1>5, <1>6, <1>10, <2>1, <2>2, <2>3, <2>5, <2>6 DEF TypeOK
<1>12. Phases'
  BY <1>1, <1>5, <1>10 DEF Phases
<1>13. Queued'
  <2>1. Position = 1 /\ Position' = 1 /\ Clean
    BY <1>1 DEF Position, Clean, NoFailureBefore
  <2>2. n # 0 => Len(batch.remaining) = n - 1
    BY <1>1, <2>1 DEF BatchInv, Queued
  <2>3. Len(batch'.remaining) = n
    BY <1>1, <1>8, <1>9, <2>2
  <2>4. ASSUME NEW i \in 1..(n + 1)
        PROVE  \E s : Foretells(s, calldatas'[i], claims'[i], WitnessAt(i)')
    <3>1. WitnessAt(i)' = IF i = 1 THEN batch'.current ELSE batch'.remaining[n + 1 - i + 1]
      BY <1>5, <2>1 DEF WitnessAt
    <3>2. CASE i = n + 1
      <4>1. WitnessAt(i)' = z
        BY <1>1, <1>8, <1>9, <3>1, <3>2
      <4> QED BY <1>2, <1>5, <1>6, <3>2, <4>1
    <3>3. CASE i # n + 1
      <4>1. i \in 1..n /\ n # 0
        BY <1>1, <3>3
      <4>2. WitnessAt(i) = IF i = 1 THEN batch.current ELSE batch.remaining[n - i + 1]
        BY <2>1 DEF WitnessAt
      <4>3. WitnessAt(i)' = WitnessAt(i)
        <5>1. CASE i = 1
          BY <1>8, <3>1, <4>1, <4>2, <5>1
        <5>2. CASE i # 1
          <6> DEFINE j == n + 1 - i + 1
          <6>1. j \in 2..n /\ j - 1 = n - i + 1 /\ j - 1 \in 1..Len(batch.remaining)
            BY <1>1, <2>2, <4>1, <5>2
          <6>2. (<<z>> \o batch.remaining)[j] = batch.remaining[j - 1]
            <7> HIDE DEF j
            <7> QED BY <1>1, <1>9, <4>1, <6>1
          <6>3. batch'.remaining = <<z>> \o batch.remaining
            BY <1>8, <4>1
          <6> HIDE DEF j
          <6>4. batch'.remaining[j] = batch.remaining[n - i + 1]
            BY <6>1, <6>2, <6>3
          <6> QED BY <3>1, <4>2, <5>2, <6>4 DEF j
        <5> QED BY <5>1, <5>2
      <4>4. \E s : Foretells(s, calldatas[i], claims[i], WitnessAt(i))
        BY <1>1, <2>1, <4>1 DEF BatchInv, Queued
      <4> QED BY <1>5, <1>6, <4>1, <4>3, <4>4
    <3> QED BY <3>2, <3>3
  <2> QED BY <1>1, <1>5, <2>1, <2>3, <2>4 DEF Queued
<1>14. Chained'
  <2>1. n # 0 => claims[n].next = claim.initial
    BY <1>1, <1>4 DEF BatchInv, Chained
  <2>2. ASSUME NEW i \in 2..(n + 1)  PROVE claims'[i].initial = claims'[i-1].next
    <3>1. CASE i = n + 1
      BY <1>1, <1>6, <2>1, <3>1
    <3>2. CASE i # n + 1
      BY <1>1, <1>6, <3>2 DEF BatchInv, Chained
    <3> QED BY <3>1, <3>2
  <2>3. claims'[Len(claims')].next = ExecutorCommitment(executor)'
    BY <1>4, <1>6 DEF ExecutorCommitment
  <2> QED BY <1>1, <1>6, <2>2, <2>3 DEF Chained
<1>15. (GuestAgreesWithExecutor /\ HonestTransactionsSucceed)'
  BY <1>1 DEF GuestAgreesWithExecutor, HonestTransactionsSucceed
<1> QED BY <1>7, <1>11, <1>12, <1>13, <1>14, <1>15 DEF BatchInv

(* One turn of the guest: the witness in hand is that of the transaction.  *)
LEMMA GuestTurn ==
  ASSUME BatchInv, GuestStep
  PROVE  BatchInv'
<1> DEFINE n == Len(calldatas)
           k == Len(outputs)
           c == calldatas[Position]
           z == batch.current
           r == execute(z, c)
           output == outputs'[k + 1]
<1>1. /\ phase = "prove" /\ phase' = "prove" /\ n \in Nat /\ k \in Nat
      /\ Position = k + 1 /\ Position \in 1..n
      /\ calldatas \in Seq(Calldatas) /\ c \in Calldatas
      /\ calldatas' = calldatas /\ claims' = claims /\ executor' = executor
      /\ calldatas # <<>> /\ batch # <<>> /\ Len(claims) = n
      /\ batch \in [current : ZkVmState, remaining : Seq(ZkVmState)]
      /\ z \in ZkVmState /\ batch.remaining \in Seq(ZkVmState)
  BY DEF GuestStep, BatchInv, TypeOK, Phases, Position
<1>2. DOMAIN z.created_notes.values = 1..Len(z.created_notes.values)
      /\ DOMAIN z.nullified_notes.values = 1..Len(z.nullified_notes.values)
      /\ WitnessKeys(z.created_notes) \in Seq(Note)
      /\ WitnessKeys(z.nullified_notes) \in Seq(Note)
  <2>1. ASSUME NEW w \in Witness
        PROVE  DOMAIN w.values = 1..Len(w.values) /\ WitnessKeys(w) \in Seq(Note)
    <3>1. w.values \in Seq(LeafValue) /\ Len(w.values) \in Nat
      BY DEF Witness
    <3>2. DOMAIN w.values = 1..Len(w.values) /\ \A i \in 1..Len(w.values) : w.values[i] \in LeafValue
      BY <3>1
    <3>3. \A i \in 1..Len(w.values) : w.values[i].key \in Note
      BY <3>2 DEF LeafValue
    <3>4. WitnessKeys(w) = [i \in 1..Len(w.values) |-> w.values[i].key]
      BY <3>2 DEF WitnessKeys
    <3> QED BY <3>1, <3>2, <3>3, <3>4
  <2> QED BY <1>1, <2>1 DEF ZkVmState
<1>3. /\ batch' = IF r.ok THEN advance_step([batch EXCEPT !.current = r.state]) ELSE batch
      /\ commitment_now' = IF r.ok THEN commit(r.state) ELSE commitment_now
      /\ outputs' = Append(outputs,
                     [ok       |-> r.ok,
                      initial  |-> commitment_now,
                      next     |-> commitment_now',
                      created_keys   |-> WitnessKeys(z.created_notes),
                      nullified_keys |-> WitnessKeys(z.nullified_notes)])
  BY DEF GuestStep
<1>4. /\ r.ok \in BOOLEAN
      /\ r.ok => r.state \in ZkVmState
      /\ commitment_now \in Commitment /\ commitment_now' \in Commitment
  <2>1. r.ok \in BOOLEAN
    BY DEF execute
  <2>2. r.ok => r.state \in ZkVmState
    BY <1>1, ExecutedType
  <2> QED BY <1>3, <2>1, <2>2, CommittedType DEF BatchInv, TypeOK
<1> HIDE DEF r, z, c
<1>5. /\ outputs' \in Seq([ok : BOOLEAN, initial : Commitment, next : Commitment,
                           created_keys : Seq(Note), nullified_keys : Seq(Note)])
      /\ Len(outputs') = k + 1
      /\ \A i \in 1..k : outputs'[i] = outputs[i]
      /\ output.ok = r.ok /\ output.initial = commitment_now /\ output.next = commitment_now'
  <2>1. [ok       |-> r.ok,
         initial  |-> commitment_now,
         next     |-> commitment_now',
         created_keys   |-> WitnessKeys(z.created_notes),
         nullified_keys |-> WitnessKeys(z.nullified_notes)]
        \in [ok : BOOLEAN, initial : Commitment, next : Commitment,
             created_keys : Seq(Note), nullified_keys : Seq(Note)]
    BY <1>2, <1>4
  <2>2. outputs \in Seq([ok : BOOLEAN, initial : Commitment, next : Commitment,
                         created_keys : Seq(Note), nullified_keys : Seq(Note)])
    BY DEF BatchInv, TypeOK
  <2> QED BY <1>3, <2>1, <2>2
<1> HIDE DEF output
<1>6. Position' = k + 2 /\ \A i \in 1..(k + 1) : NoFailureBefore(i)' <=> NoFailureBefore(i)
  <2>1. ASSUME NEW i \in 1..(k + 1), NEW j \in 1..(i - 1)
        PROVE  outputs'[j] = outputs[j]
    <3>1. j \in 1..k
      BY <1>1
    <3> QED BY <1>5, <3>1
  <2>2. Position' = k + 2
    BY <1>1, <1>5 DEF Position
  <2> QED BY <2>1, <2>2 DEF NoFailureBefore
<1>7. Clean' <=> Clean /\ r.ok
  <2>1. 1..(Position' - 1) = (1..k) \cup {k + 1} /\ 1..(Position - 1) = 1..k
    BY <1>1, <1>6
  <2>2. Clean' <=> \A i \in (1..k) \cup {k + 1} : outputs'[i].ok
    BY <2>1 DEF Clean, NoFailureBefore
  <2>3. Clean <=> \A i \in 1..k : outputs[i].ok
    BY <2>1 DEF Clean, NoFailureBefore
  <2>4. outputs'[k + 1].ok = r.ok
    BY <1>5 DEF output
  <2> QED BY <1>5, <2>2, <2>3, <2>4
(* While nothing has failed, the executor's claim is what happens. *)
<1>8. ASSUME Clean
      PROVE  /\ commitment_now = claims[k + 1].initial
             /\ r.ok => claims[k + 1].ok /\ commit(r.state) = claims[k + 1].next
             /\ /\ claims[k + 1].ok
                /\ NullifiersMatch(c)
                /\ c.callees \in {<<"smt_incl">>, <<"smt_incl", "token">>, <<"token", "smt_incl">>}
                /\ c.notes_root \in claims[k + 1].roots
                => r.ok
  <2>1. PICK s : Foretells(s, c, claims[k + 1], z)
    <3>1. WitnessAt(Position) = z /\ Position \in Position..n
      BY <1>1 DEF WitnessAt, z
    <3> QED BY <1>1, <1>8, <3>1 DEF BatchInv, Queued, c
  <2>2. commitment_now = claims[k + 1].initial
    <3>1. CASE k = 0
      <4>1. outputs = <<>>
        BY <3>1 DEF BatchInv, TypeOK
      <4> QED BY <1>1, <1>8, <3>1, <4>1 DEF BatchInv, Chained
    <3>2. CASE k # 0
      <4>1. outputs # <<>> /\ k + 1 \in 2..Len(claims) /\ (k + 1) - 1 = k
        BY <1>1, <3>2
      <4>2. commitment_now = claims[k].next
        BY <1>1, <1>8, <4>1 DEF BatchInv, Chained
      <4>3. claims[k + 1].initial = claims[(k + 1) - 1].next
        BY <4>1 DEF BatchInv, Chained
      <4> QED BY <4>1, <4>2, <4>3
    <3> QED BY <3>1, <3>2
  <2> QED BY <1>1, <2>1, <2>2, ForetoldRuns DEF r
<1>9. /\ batch' \in [current : ZkVmState, remaining : Seq(ZkVmState)] /\ batch' # <<>>
      /\ r.ok /\ batch.remaining # <<>> =>
           /\ batch'.current = batch.remaining[Len(batch.remaining)]
           /\ Len(batch'.remaining) = Len(batch.remaining) - 1
           /\ \A i \in 1..(Len(batch.remaining) - 1) : batch'.remaining[i] = batch.remaining[i]
  <2> DEFINE m == Len(batch.remaining)
  <2>1. CASE ~r.ok
    BY <1>1, <1>3, <2>1
  <2>2. CASE r.ok /\ batch.remaining = <<>>
    <3>1. NewZkVmState \in ZkVmState
      <4>1. EmptyWitness \in Witness
        BY DEF EmptyWitness, Witness
      <4> QED BY <4>1 DEF NewZkVmState, ZkVmState
    <3>2. batch' = [current |-> NewZkVmState, remaining |-> <<>>]
      BY <1>1, <1>3, <2>2 DEF advance_step
    <3> QED BY <2>2, <3>1, <3>2
  <2>3. CASE r.ok /\ batch.remaining # <<>>
    <3>1. m \in Nat \ {0} /\ batch.remaining[m] \in ZkVmState
      BY <1>1, <2>3
    <3>2. batch' = [current |-> batch.remaining[m], remaining |-> SubSeq(batch.remaining, 1, m - 1)]
      BY <1>1, <1>3, <2>3 DEF advance_step
    <3> DEFINE front == SubSeq(batch.remaining, 1, m - 1)
    <3>3. front \in Seq(ZkVmState) /\ Len(front) = m - 1
          /\ \A i \in 1..(m - 1) : front[i] = batch.remaining[i]
      <4>1. \A i \in 1..(m - 1) : batch.remaining[i] \in ZkVmState
        BY <1>1, <3>1
      <4>2. 1 \in Int /\ m - 1 \in Int /\ m - 1 - 1 + 1 = m - 1
        BY <3>1
      <4>3. /\ front \in Seq(ZkVmState)
            /\ Len(front) = IF 1 <= m - 1 THEN m - 1 - 1 + 1 ELSE 0
            /\ \A i \in 1..(m - 1 - 1 + 1) : front[i] = batch.remaining[1 + i - 1]
        BY <4>1, <4>2, SubSeqProperties
      <4> HIDE DEF front
      <4> QED BY <3>1, <4>2, <4>3
    <3> QED BY <3>1, <3>2, <3>3
  <2> QED BY <1>4, <2>1, <2>2, <2>3
<1>10. TypeOK'
  BY <1>1, <1>4, <1>5, <1>9 DEF BatchInv, TypeOK, GuestStep
<1>11. Phases'
  BY <1>1, <1>9 DEF Phases
<1>12. Queued'
  <2> SUFFICES ASSUME Clean, r.ok
               PROVE  /\ k + 2 <= n => Len(batch'.remaining) = n - (k + 2)
                      /\ \A i \in (k + 2)..n :
                           \E s : Foretells(s, calldatas[i], claims[i], WitnessAt(i)')
    BY <1>1, <1>6, <1>7 DEF Queued
  <2>1. Len(batch.remaining) = n - (k + 1)
    BY <1>1 DEF BatchInv, Queued
  <2>2. ASSUME NEW i \in (k + 2)..n  PROVE WitnessAt(i)' = WitnessAt(i)
    <3>1. /\ batch.remaining # <<>> /\ i # Position /\ n - i + 1 \in 1..Len(batch.remaining)
          /\ n - (k + 2) + 1 = Len(batch.remaining)
      BY <1>1, <2>1, <2>2
    <3>2. WitnessAt(i) = batch.remaining[n - i + 1]
      BY <3>1 DEF WitnessAt
    <3>3. WitnessAt(i)' = IF i = k + 2 THEN batch'.current ELSE batch'.remaining[n - i + 1]
      BY <1>1, <1>6 DEF WitnessAt
    <3>4. CASE i = k + 2
      BY <1>9, <3>1, <3>2, <3>3, <3>4
    <3>5. CASE i # k + 2
      <4>1. n - i + 1 \in 1..(Len(batch.remaining) - 1)
        BY <1>1, <2>1, <2>2, <3>5
      <4> QED BY <1>9, <3>1, <3>2, <3>3, <3>5, <4>1
    <3> QED BY <3>4, <3>5
  <2>3. \A i \in (k + 2)..n : \E s : Foretells(s, calldatas[i], claims[i], WitnessAt(i))
    <3>1. \A i \in (k + 2)..n : i \in Position..n
      BY <1>1
    <3> QED BY <1>1, <3>1 DEF BatchInv, Queued
  <2>4. k + 2 <= n => batch.remaining # <<>>
    BY <1>1, <2>1
  <2> QED BY <1>1, <1>9, <2>1, <2>2, <2>3, <2>4
<1>13. Chained'
  <2>1. outputs' # <<>>
    BY <1>5, <1>1
  <2>2. Clean' => commitment_now' = claims[k + 1].next
    BY <1>3, <1>7, <1>8
  <2> QED BY <1>1, <1>5, <2>1, <2>2 DEF BatchInv, Chained
<1>14. GuestAgreesWithExecutor'
  <2> SUFFICES ASSUME NEW i \in 1..(k + 1), outputs'[i].ok, NoFailureBefore(i)
               PROVE  /\ claims[i].ok
                      /\ outputs'[i].initial = claims[i].initial
                      /\ outputs'[i].next = claims[i].next
    <3>1. DOMAIN outputs' = 1..(k + 1)
      BY <1>5
    <3> QED BY <1>1, <1>6, <3>1 DEF GuestAgreesWithExecutor
  <2>1. CASE i = k + 1
    <3>1. Clean
      BY <1>1, <2>1 DEF Clean
    <3>2. r.ok /\ outputs'[i].initial = commitment_now /\ outputs'[i].next = commit(r.state)
      BY <1>3, <1>5, <2>1 DEF output
    <3> QED BY <1>8, <2>1, <3>1, <3>2
  <2>2. CASE i # k + 1
    <3>1. i \in 1..k /\ DOMAIN outputs = 1..k
      BY <1>1, <2>2 DEF BatchInv, TypeOK
    <3>2. i \in DOMAIN outputs /\ outputs'[i] = outputs[i]
      BY <1>5, <3>1
    <3> QED BY <3>2 DEF BatchInv, GuestAgreesWithExecutor
  <2> QED BY <2>1, <2>2
<1>15. HonestTransactionsSucceed'
  <2> SUFFICES ASSUME NEW i \in 1..(k + 1), NoFailureBefore(i), claims[i].ok,
                      NullifiersMatch(calldatas[i]),
                      calldatas[i].callees \in {<<"smt_incl">>, <<"smt_incl", "token">>, <<"token", "smt_incl">>},
                      calldatas[i].notes_root \in claims[i].roots
               PROVE  outputs'[i].ok
    <3>1. DOMAIN outputs' = 1..(k + 1)
      BY <1>5
    <3> QED BY <1>1, <1>6, <3>1 DEF HonestTransactionsSucceed
  <2>1. CASE i = k + 1
    <3>1. Clean /\ c = calldatas[i]
      BY <1>1, <2>1 DEF Clean, c
    <3>2. r.ok
      BY <1>8, <2>1, <3>1
    <3> QED BY <1>5, <2>1, <3>2 DEF output
  <2>2. CASE i # k + 1
    <3>1. i \in 1..k /\ DOMAIN outputs = 1..k
      BY <1>1, <2>2 DEF BatchInv, TypeOK
    <3>2. i \in DOMAIN outputs /\ outputs'[i] = outputs[i]
      BY <1>5, <3>1
    <3> QED BY <3>2 DEF BatchInv, HonestTransactionsSucceed
  <2> QED BY <2>1, <2>2
<1>16. Windowed(executor)'
  BY <1>1 DEF BatchInv
<1> QED BY <1>10, <1>11, <1>12, <1>13, <1>14, <1>15, <1>16 DEF BatchInv

(***************************************************************************)
(* The theorems.                                                           *)
(***************************************************************************)
LEMMA NextInv == BatchInv /\ [Next]_vars => BatchInv'
<1> SUFFICES ASSUME BatchInv, [Next]_vars
             PROVE  BatchInv'
  OBVIOUS
<1>1. ASSUME NEW c \in Calldatas, CatchUp(c) PROVE BatchInv'
  BY <1>1, CatchUpStep
<1>2. ASSUME NEW c \in Calldatas, AddTransaction(c) PROVE BatchInv'
  BY <1>2, AddStep
<1>3. CASE StartProof
  BY <1>3, StartStep
<1>4. CASE GuestStep
  BY <1>4, GuestTurn
<1>5. CASE FinishProof
  BY <1>5, FinishStep
<1>6. CASE UNCHANGED vars
  BY <1>6 DEF vars, BatchInv, TypeOK, Windowed, Phases, Queued, Chained, WitnessAt,
     Clean, Position, NoFailureBefore, GuestAgreesWithExecutor, HonestTransactionsSucceed
<1> QED BY <1>1, <1>2, <1>3, <1>4, <1>5, <1>6 DEF Next

LEMMA InvHolds == Spec => []BatchInv
BY InitInv, NextInv, PTL DEF Spec

(* The witness in hand is that of the transaction the guest is about to    *)
(* run, whatever the transactions and however long the batch: merging and  *)
(* advancing are first in, first out.                                      *)
THEOREM WitnessesKeepTheirOrder == Spec => []WitnessFollowsCalldata
<1>1. BatchInv => WitnessFollowsCalldata
  <2> SUFFICES ASSUME BatchInv, phase = "prove", Position <= Len(calldatas), NoFailureBefore(Position)
               PROVE  LET c == calldatas[Position]
                      IN /\ WitnessKeys(batch.current.created_notes) = filter_keys(c.blob.created, FALSE)
                         /\ WitnessKeys(batch.current.nullified_notes) = filter_keys(c.blob.nullified, TRUE)
                         /\ commit(batch.current) = claims[Position].initial
                         /\ Len(batch.remaining) = Len(calldatas) - Position
    BY DEF WitnessFollowsCalldata
  <2>1. /\ calldatas # <<>> /\ Clean /\ Position \in Position..Len(calldatas)
        /\ calldatas[Position] \in Calldatas /\ WitnessAt(Position) = batch.current
    BY DEF BatchInv, TypeOK, Phases, Clean, WitnessAt, Position
  <2>2. PICK s : Foretells(s, calldatas[Position], claims[Position], batch.current)
    BY <2>1 DEF BatchInv, Queued
  <2>3. Len(batch.remaining) = Len(calldatas) - Position
    BY <2>1 DEF BatchInv, Queued
  <2> QED BY <2>1, <2>2, <2>3, ForetoldRuns
<1> QED BY <1>1, InvHolds, PTL

(* Until a transaction fails, what the guest proves is what the executor   *)
(* predicted, and never a transaction that the executor refused.           *)
THEOREM ProofsAgreeWithExecutor == Spec => []GuestAgreesWithExecutor
<1>1. BatchInv => GuestAgreesWithExecutor
  BY DEF BatchInv
<1> QED BY <1>1, InvHolds, PTL

(* An honest transaction succeeds in the guest, for every length of the    *)
(* window: the root it names is in the guest's array.                      *)
THEOREM HonestProofsSucceed == Spec => []HonestTransactionsSucceed
<1>1. BatchInv => HonestTransactionsSucceed
  BY DEF BatchInv
<1> QED BY <1>1, InvHolds, PTL

(* The types, of the witnesses in the batch among them.                    *)
THEOREM BatchTypes == Spec => []TypeOK
<1>1. BatchInv => TypeOK
  BY DEF BatchInv
<1> QED BY <1>1, InvHolds, PTL
============================================================================
