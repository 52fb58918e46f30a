------------------------- MODULE UtxoExecutorProofs -------------------------
(***************************************************************************)
(* Proofs about UtxoExecutor, for every set of notes, every window length  *)
(* and every bound on the deliveries.                                      *)
(***************************************************************************)
EXTENDS UtxoExecutor, SequenceTheorems, TLAPS

(* What the insertion loop leaves in a tree when every key is fresh: all   *)
(* the keys that are not skipped, each of them new and listed once.        *)
LEMMA FreshInsertion ==
  ASSUME NEW tree, NEW keys, NEW skipped, AllFresh(tree, keys, skipped)
  PROVE  /\ Inserted(tree, keys, skipped) = {keys[i] : i \in Slots} \ skipped
         /\ \A p \in Slots : keys[p] \notin skipped => keys[p] \notin tree
         /\ \A p, q \in Slots :
              keys[p] = keys[q] /\ keys[p] \notin skipped => p = q
<1>1. \A i \in Slots : \A j \in 1..i : j \in Slots
  BY DEF Slots
<1>2. Inserted(tree, keys, skipped) = {keys[i] : i \in Slots} \ skipped
  BY <1>1 DEF Inserted, AllFresh
<1>3. \A p \in Slots : keys[p] \notin skipped => keys[p] \notin tree
  BY DEF AllFresh, AlreadyThere
<1>4. \A p, q \in Slots :
        keys[p] = keys[q] /\ keys[p] \notin skipped /\ p < q => FALSE
  BY DEF AllFresh, AlreadyThere, Slots
<1>5. \A p, q \in Slots : p < q \/ q < p \/ p = q
  BY DEF Slots
<1> QED BY <1>2, <1>3, <1>4, <1>5

(* Neither loop puts anything but notes into its tree. *)
LEMMA InsertedAreNotes ==
  ASSUME NEW tree, NEW blob \in UtxoBlob
  PROVE  /\ Inserted(tree, blob.nullified, SkippedNullifiers) \subseteq Note
         /\ Inserted(tree, blob.created, SkippedCommitments) \subseteq Note
BY DEF Inserted, UtxoBlob, SkippedNullifiers, SkippedCommitments, CreatedKey, NullifierKey

(* The window stays a sequence of roots, newest first, one step older. *)
LEMMA PushRootFacts ==
  ASSUME NEW roots \in Seq(SUBSET Note), NEW root \in SUBSET Note
  PROVE  /\ PushRoot(roots, root) \in Seq(SUBSET Note)
         /\ Len(PushRoot(roots, root)) = IF Len(roots) + 1 > MaxRoots
                                         THEN Len(roots) ELSE Len(roots) + 1
         /\ Len(PushRoot(roots, root)) > 0
         /\ PushRoot(roots, root)[1] = root
         /\ \A i \in 2..Len(PushRoot(roots, root)) :
               PushRoot(roots, root)[i] = roots[i - 1]
<1>1. CASE Len(roots) + 1 > MaxRoots
  <2>1. Len(roots) >= 1
    BY <1>1, MaxRootsAssumption
  <2>2. /\ SubSeq(roots, 1, Len(roots) - 1) \in Seq(SUBSET Note)
        /\ Len(SubSeq(roots, 1, Len(roots) - 1)) = Len(roots) - 1
        /\ \A i \in 1..(Len(roots) - 1) : SubSeq(roots, 1, Len(roots) - 1)[i] = roots[i]
    <3> DEFINE n == Len(roots) - 1
    <3>1. n \in Int /\ n >= 0 /\ \A i \in 1..n : roots[i] \in SUBSET Note
      BY <2>1
    <3> HIDE DEF n
    <3>2. /\ SubSeq(roots, 1, n) \in Seq(SUBSET Note)
          /\ Len(SubSeq(roots, 1, n)) = IF 1 <= n THEN n - 1 + 1 ELSE 0
          /\ \A i \in 1..(n - 1 + 1) : SubSeq(roots, 1, n)[i] = roots[1 + i - 1]
      BY <3>1, SubSeqProperties
    <3>3. /\ Len(SubSeq(roots, 1, n)) = n
          /\ \A i \in 1..n : SubSeq(roots, 1, n)[i] = roots[i]
      BY <3>1, <3>2
    <3> QED BY <3>2, <3>3 DEF n
  <2> QED BY <1>1, <2>1, <2>2 DEF PushRoot
<1>2. CASE ~(Len(roots) + 1 > MaxRoots)
  BY <1>2 DEF PushRoot
<1> QED BY <1>1, <1>2

(* A delivery that is applied is applied as a whole, and only if all its   *)
(* real keys are new and different from each other.                        *)
LEMMA AppliedAsAWhole ==
  ASSUME NEW s \in HyliUtxoState, NEW blob \in UtxoBlob,
         apply_commitments(s, blob).ok
  PROVE  LET t == apply_commitments(s, blob).state
         IN /\ t \in HyliUtxoState
            /\ t.notes = s.notes \cup RealCommitments(blob)
            /\ t.nullified = s.nullified \cup RealNullifiers(blob)
            /\ t.roots = PushRoot(s.roots, t.notes)
            /\ AllFresh(s.nullified, blob.nullified, SkippedNullifiers)
            /\ AllFresh(s.notes, blob.created, SkippedCommitments)
<1> DEFINE nul == record_nullified(s, blob.nullified)
           cre == record_created(nul.state, blob.created)
           new == Inserted(s.nullified, blob.nullified, SkippedNullifiers)
           out == Inserted(s.notes, blob.created, SkippedCommitments)
<1>1. nul.ok /\ cre.ok /\ apply_commitments(s, blob).state = update_roots(cre.state)
  BY DEF apply_commitments, update_roots
<1>2. /\ nul.state.notes = s.notes
      /\ nul.state.roots = s.roots
      /\ nul.state.nullified = s.nullified \cup new
      /\ nul.state \in HyliUtxoState
  BY InsertedAreNotes DEF record_nullified, HyliUtxoState
<1>3. AllFresh(s.nullified, blob.nullified, SkippedNullifiers)
  BY <1>1 DEF record_nullified
<1>4. AllFresh(s.notes, blob.created, SkippedCommitments)
  BY <1>1, <1>2 DEF record_created
<1>5. new = RealNullifiers(blob)
  BY <1>3, FreshInsertion DEF RealNullifiers
<1>6. out = RealCommitments(blob)
  BY <1>4, FreshInsertion DEF RealCommitments
<1> HIDE DEF nul, new, out
<1>7. /\ cre.state.notes = s.notes \cup out
      /\ cre.state.roots = s.roots
      /\ cre.state.nullified = s.nullified \cup new
      /\ cre.state \in HyliUtxoState
  BY <1>2, InsertedAreNotes DEF record_created, HyliUtxoState, out
<1> HIDE DEF cre
<1>8. /\ update_roots(cre.state).notes = cre.state.notes
      /\ update_roots(cre.state).nullified = cre.state.nullified
      /\ update_roots(cre.state).roots = PushRoot(s.roots, cre.state.notes)
      /\ update_roots(cre.state) \in HyliUtxoState
  <2>1. PushRoot(s.roots, cre.state.notes) \in Seq(SUBSET Note)
    BY <1>7, PushRootFacts DEF HyliUtxoState
  <2> QED BY <1>7, <2>1 DEF update_roots, HyliUtxoState
<1> QED BY <1>1, <1>3, <1>4, <1>5, <1>6, <1>7, <1>8

(* A delivery that is refused may have inserted some of its keys, but      *)
(* takes nothing out of a tree and leaves the window alone.                *)
LEMMA RefusedKeepsWindow ==
  ASSUME NEW s \in HyliUtxoState, NEW blob \in UtxoBlob,
         ~apply_commitments(s, blob).ok
  PROVE  LET t == apply_commitments(s, blob).state
         IN /\ t \in HyliUtxoState
            /\ s.notes \subseteq t.notes
            /\ s.nullified \subseteq t.nullified
            /\ t.roots = s.roots
BY InsertedAreNotes
   DEF apply_commitments, record_nullified, record_created, update_roots, HyliUtxoState

----------------------------------------------------------------------------
(* A step that applies a delivery keeps the type invariant. *)
LEMMA AppliedKeepsType ==
  ASSUME TypeOK, NEW blob \in Blobs, HandleAction(blob),
         apply_commitments(state, blob).ok
  PROVE  TypeOK'
<1>1. blob \in UtxoBlob
  BY BlobsAssumption
<1>2. state' \in HyliUtxoState
  BY <1>1, AppliedAsAWhole DEF HandleAction, TypeOK
<1>3. state'.notes \in SUBSET Note
  BY <1>2 DEF HyliUtxoState
<1>4. log' \in Seq(Accepted)
  BY <1>3 DEF HandleAction, TypeOK, Accepted
<1> QED BY <1>2, <1>3, <1>4 DEF HandleAction, TypeOK

(* So does a step that refuses one, whatever it inserted before it stopped. *)
LEMMA RefusedKeepsType ==
  ASSUME TypeOK, NEW blob \in Blobs, HandleAction(blob),
         ~apply_commitments(state, blob).ok
  PROVE  TypeOK'
<1>1. blob \in UtxoBlob
  BY BlobsAssumption
<1> QED BY <1>1, RefusedKeepsWindow DEF HandleAction, TypeOK

(* What a step that applies a delivery does to the log. *)
LEMMA AppliedExtendsLog ==
  ASSUME TypeOK, NEW blob \in Blobs, HandleAction(blob),
         apply_commitments(state, blob).ok
  PROVE  /\ Len(log') = Len(log) + 1
         /\ \A i \in 1..Len(log) : log'[i] = log[i]
         /\ log'[Len(log) + 1].blob = blob
         /\ log'[Len(log) + 1].root = state'.notes
BY DEF HandleAction, TypeOK, Accepted

(* The trees only grow, whatever a delivery does. *)
LEMMA TreesGrow ==
  ASSUME TypeOK, NEW blob \in Blobs, HandleAction(blob)
  PROVE  state.notes \subseteq state'.notes /\ state.nullified \subseteq state'.nullified
<1>1. blob \in UtxoBlob
  BY BlobsAssumption
<1>2. CASE apply_commitments(state, blob).ok
  BY <1>1, <1>2, AppliedAsAWhole DEF HandleAction, TypeOK
<1>3. CASE ~apply_commitments(state, blob).ok
  BY <1>1, <1>3, RefusedKeepsWindow DEF HandleAction, TypeOK
<1> QED BY <1>2, <1>3

(* An applied delivery lists no key that the log has already recorded. *)
LEMMA AppliedKeepsLogRecorded ==
  ASSUME TypeOK, LogIsRecorded, NEW blob \in Blobs, HandleAction(blob),
         apply_commitments(state, blob).ok
  PROVE  LogIsRecorded'
<1>1. /\ state'.notes = state.notes \cup RealCommitments(blob)
      /\ state'.nullified = state.nullified \cup RealNullifiers(blob)
  BY BlobsAssumption, AppliedAsAWhole DEF HandleAction, TypeOK
<1>2. Len(log) \in Nat
  BY DEF TypeOK
<1>3. ASSUME NEW i \in 1..Len(log')
      PROVE  /\ log'[i].root \subseteq state'.notes
             /\ RealNullifiers(log'[i].blob) \subseteq state'.nullified
             /\ RealCommitments(log'[i].blob) \subseteq log'[i].root
  <2>1. CASE i \in 1..Len(log)
    BY <2>1, <1>1, AppliedExtendsLog DEF LogIsRecorded
  <2>2. CASE i = Len(log) + 1
    BY <2>2, <1>1, AppliedExtendsLog
  <2> QED BY <1>2, <2>1, <2>2, AppliedExtendsLog
<1>4. ASSUME NEW i \in 1..Len(log'), NEW j \in 1..Len(log'), i <= j
      PROVE  log'[i].root \subseteq log'[j].root
  <2>1. CASE j \in 1..Len(log)
    <3>1. i \in 1..Len(log)
      BY <2>1, <1>2, <1>4, AppliedExtendsLog
    <3> QED BY <2>1, <3>1, <1>4, AppliedExtendsLog DEF LogIsRecorded
  <2>2. CASE j = Len(log) + 1
    BY <2>2, <1>3, AppliedExtendsLog
  <2> QED BY <1>2, <2>1, <2>2, AppliedExtendsLog
<1> QED BY <1>3, <1>4 DEF LogIsRecorded

(* The nullifiers of an applied delivery are in no earlier entry of the log *)
(* (they would be in the tree) and differ from each other.                  *)
LEMMA AppliedKeepsNullifiedOnce ==
  ASSUME TypeOK, LogIsRecorded, NullifiedOnce, NEW blob \in Blobs, HandleAction(blob),
         apply_commitments(state, blob).ok
  PROVE  NullifiedOnce'
<1>1. AllFresh(state.nullified, blob.nullified, SkippedNullifiers)
  BY BlobsAssumption, AppliedAsAWhole DEF HandleAction, TypeOK
<1>2. /\ \A p \in Slots : blob.nullified[p] \in Note => blob.nullified[p] \notin state.nullified
      /\ \A p, q \in Slots :
           blob.nullified[p] = blob.nullified[q] /\ blob.nullified[p] \in Note => p = q
  <2>1. \A k \in Note : k \notin SkippedNullifiers
    BY KeysAssumption DEF SkippedNullifiers
  <2> QED BY <1>1, <2>1, FreshInsertion
<1>3. \A i \in 1..Len(log), p \in Slots :
        log[i].blob.nullified[p] \in Note => log[i].blob.nullified[p] \in state.nullified
  <2>1. \A k \in Note : k \notin SkippedNullifiers
    BY KeysAssumption DEF SkippedNullifiers
  <2> QED BY <2>1 DEF LogIsRecorded, RealNullifiers
<1>4. Len(log) \in Nat
  BY DEF TypeOK
<1>5. SUFFICES ASSUME NEW i \in 1..Len(log'), NEW j \in 1..Len(log'),
                      NEW p \in Slots, NEW q \in Slots,
                      log'[i].blob.nullified[p] = log'[j].blob.nullified[q],
                      log'[i].blob.nullified[p] \in Note
               PROVE  i = j /\ p = q
  BY DEF NullifiedOnce
<1>6. CASE i \in 1..Len(log) /\ j \in 1..Len(log)
  BY <1>5, <1>6, AppliedExtendsLog DEF NullifiedOnce
<1>7. CASE i \in 1..Len(log) /\ j = Len(log) + 1
  BY <1>2, <1>3, <1>5, <1>7, AppliedExtendsLog
<1>8. CASE i = Len(log) + 1 /\ j \in 1..Len(log)
  BY <1>2, <1>3, <1>5, <1>8, AppliedExtendsLog
<1>9. CASE i = Len(log) + 1 /\ j = Len(log) + 1
  BY <1>2, <1>5, <1>9, AppliedExtendsLog
<1> QED BY <1>4, <1>6, <1>7, <1>8, <1>9, AppliedExtendsLog

(* The same for the commitments and the notes tree. *)
LEMMA AppliedKeepsCreatedOnce ==
  ASSUME TypeOK, LogIsRecorded, CreatedOnce, NEW blob \in Blobs, HandleAction(blob),
         apply_commitments(state, blob).ok
  PROVE  CreatedOnce'
<1>1. AllFresh(state.notes, blob.created, SkippedCommitments)
  BY BlobsAssumption, AppliedAsAWhole DEF HandleAction, TypeOK
<1>2. /\ \A p \in Slots : blob.created[p] \in Note => blob.created[p] \notin state.notes
      /\ \A p, q \in Slots :
           blob.created[p] = blob.created[q] /\ blob.created[p] \in Note => p = q
  <2>1. \A k \in Note : k \notin SkippedCommitments
    BY KeysAssumption DEF SkippedCommitments
  <2> QED BY <1>1, <2>1, FreshInsertion
<1>3. \A i \in 1..Len(log), p \in Slots :
        log[i].blob.created[p] \in Note => log[i].blob.created[p] \in state.notes
  <2>1. \A k \in Note : k \notin SkippedCommitments
    BY KeysAssumption DEF SkippedCommitments
  <2> QED BY <2>1 DEF LogIsRecorded, RealCommitments
<1>4. Len(log) \in Nat
  BY DEF TypeOK
<1>5. SUFFICES ASSUME NEW i \in 1..Len(log'), NEW j \in 1..Len(log'),
                      NEW p \in Slots, NEW q \in Slots,
                      log'[i].blob.created[p] = log'[j].blob.created[q],
                      log'[i].blob.created[p] \in Note
               PROVE  i = j /\ p = q
  BY DEF CreatedOnce
<1>6. CASE i \in 1..Len(log) /\ j \in 1..Len(log)
  BY <1>5, <1>6, AppliedExtendsLog DEF CreatedOnce
<1>7. CASE i \in 1..Len(log) /\ j = Len(log) + 1
  BY <1>2, <1>3, <1>5, <1>7, AppliedExtendsLog
<1>8. CASE i = Len(log) + 1 /\ j \in 1..Len(log)
  BY <1>2, <1>3, <1>5, <1>8, AppliedExtendsLog
<1>9. CASE i = Len(log) + 1 /\ j = Len(log) + 1
  BY <1>2, <1>5, <1>9, AppliedExtendsLog
<1> QED BY <1>4, <1>6, <1>7, <1>8, <1>9, AppliedExtendsLog

(* The root an applied delivery pushes is the one its log entry records. *)
LEMMA AppliedKeepsWindow ==
  ASSUME TypeOK, WindowIsRecentHistory, NEW blob \in Blobs, HandleAction(blob),
         apply_commitments(state, blob).ok
  PROVE  WindowIsRecentHistory'
<1> DEFINE Depth(n) == IF n < MaxRoots THEN n ELSE MaxRoots
<1>1. state.roots \in Seq(SUBSET Note) /\ Len(log) \in Nat
  BY DEF TypeOK, HyliUtxoState
<1>2. state' \in HyliUtxoState /\ state'.roots = PushRoot(state.roots, state'.notes)
  BY BlobsAssumption, AppliedAsAWhole DEF HandleAction, TypeOK
<1>3. state'.notes \in SUBSET Note
  BY <1>2 DEF HyliUtxoState
<1>4. /\ Len(state'.roots) = IF Len(state.roots) + 1 > MaxRoots
                             THEN Len(state.roots) ELSE Len(state.roots) + 1
      /\ state'.roots[1] = state'.notes
      /\ \A i \in 2..Len(state'.roots) : state'.roots[i] = state.roots[i - 1]
  <2> DEFINE pushed == PushRoot(state.roots, state'.notes)
  <2>1. /\ Len(pushed) = IF Len(state.roots) + 1 > MaxRoots
                         THEN Len(state.roots) ELSE Len(state.roots) + 1
        /\ pushed[1] = state'.notes
        /\ \A i \in 2..Len(pushed) : pushed[i] = state.roots[i - 1]
    BY ONLY <1>1, <1>3, PushRootFacts, Zenon
  <2>2. state'.roots = pushed
    BY <1>2
  <2> HIDE DEF pushed
  <2> QED BY ONLY <2>1, <2>2, Zenon
<1>5. /\ Len(state.roots) = Depth(Len(log))
      /\ \A i \in 1..Depth(Len(log)) : state.roots[i] = log[Len(log) + 1 - i].root
  BY DEF WindowIsRecentHistory
<1>6. Len(state'.roots) = Depth(Len(log'))
  BY <1>1, <1>4, <1>5, AppliedExtendsLog, MaxRootsAssumption
<1>7. ASSUME NEW i \in 1..Depth(Len(log'))
      PROVE  state'.roots[i] = log'[Len(log') + 1 - i].root
  <2>1. CASE i = 1
    <3>1. Len(log') + 1 - i = Len(log) + 1
      BY <2>1, <1>1, AppliedExtendsLog
    <3> QED BY <2>1, <3>1, <1>4, AppliedExtendsLog
  <2>2. CASE i # 1
    <3>1. /\ i \in 2..Len(state'.roots)
          /\ i - 1 \in 1..Depth(Len(log))
          /\ Len(log') + 1 - i \in 1..Len(log)
          /\ Len(log') + 1 - i = Len(log) + 1 - (i - 1)
      BY <2>2, <1>1, <1>6, AppliedExtendsLog, MaxRootsAssumption
    <3>2. state'.roots[i] = log[Len(log) + 1 - (i - 1)].root
      BY <3>1, <1>4, <1>5
    <3>3. log'[Len(log') + 1 - i] = log[Len(log') + 1 - i]
      BY <3>1, AppliedExtendsLog
    <3> QED BY <3>1, <3>2, <3>3
  <2> QED BY <2>1, <2>2
<1> QED BY <1>6, <1>7 DEF WindowIsRecentHistory

(* A refused delivery leaves the log and the window alone. *)
LEMMA RefusedKeepsInv ==
  ASSUME IndInv, NEW blob \in Blobs, HandleAction(blob),
         ~apply_commitments(state, blob).ok
  PROVE  IndInv'
<1>1. log' = log /\ state'.roots = state.roots
  BY BlobsAssumption, RefusedKeepsWindow DEF HandleAction, IndInv, TypeOK
<1>2. TypeOK'
  BY RefusedKeepsType DEF IndInv
<1>3. NullifiedOnce' /\ CreatedOnce'
  BY <1>1 DEF IndInv, NullifiedOnce, CreatedOnce
<1>4. WindowIsRecentHistory'
  BY <1>1 DEF IndInv, WindowIsRecentHistory
<1>5. LogIsRecorded'
  BY <1>1, TreesGrow DEF IndInv, LogIsRecorded
<1> QED BY <1>2, <1>3, <1>4, <1>5 DEF IndInv

(* The placeholder blob and a malformed one change the event only. *)
LEMMA IgnoredKeepsInv ==
  ASSUME IndInv, UNCHANGED <<state, log>>, event' \subseteq SUBSET Note
  PROVE  IndInv'
<1>1. TypeOK /\ NullifiedOnce /\ CreatedOnce /\ WindowIsRecentHistory /\ LogIsRecorded
  BY DEF IndInv
<1>2. state' = state /\ log' = log
  OBVIOUS
<1>3. TypeOK'
  BY <1>1, <1>2 DEF TypeOK
<1>4. NullifiedOnce'
  BY ONLY <1>1, <1>2 DEF NullifiedOnce
<1>5. CreatedOnce'
  BY ONLY <1>1, <1>2 DEF CreatedOnce
<1>6. WindowIsRecentHistory'
  BY ONLY <1>1, <1>2 DEF WindowIsRecentHistory
<1>7. LogIsRecorded'
  BY ONLY <1>1, <1>2 DEF LogIsRecorded
<1> QED BY <1>3, <1>4, <1>5, <1>6, <1>7 DEF IndInv

(* The invariant is inductive: every delivery, applied, refused or ignored, *)
(* keeps the record of what was applied consistent with the trees.          *)
THEOREM IndInvHolds == Spec => []IndInv
<1>1. Init => IndInv
  BY MaxRootsAssumption
     DEF Init, DefaultState, IndInv, TypeOK, HyliUtxoState, NullifiedOnce, CreatedOnce,
         WindowIsRecentHistory, LogIsRecorded
<1>2. IndInv /\ [Next]_vars => IndInv'
  <2> SUFFICES ASSUME IndInv, [Next]_vars PROVE IndInv'
    OBVIOUS
  <2>1. ASSUME NEW blob \in Blobs, HandleAction(blob)
        PROVE  IndInv'
    <3>1. CASE apply_commitments(state, blob).ok
      <4>1. TypeOK'
        BY <2>1, <3>1, AppliedKeepsType DEF IndInv
      <4>2. NullifiedOnce' /\ CreatedOnce'
        BY <2>1, <3>1, AppliedKeepsNullifiedOnce, AppliedKeepsCreatedOnce DEF IndInv
      <4>3. WindowIsRecentHistory'
        BY <2>1, <3>1, AppliedKeepsWindow DEF IndInv
      <4>4. LogIsRecorded'
        BY <2>1, <3>1, AppliedKeepsLogRecorded DEF IndInv
      <4> QED BY <4>1, <4>2, <4>3, <4>4 DEF IndInv
    <3>2. CASE ~apply_commitments(state, blob).ok
      BY <2>1, <3>2, RefusedKeepsInv
    <3> QED BY <3>1, <3>2
  <2>2. CASE HandlePlaceholder
    <3>1. event' \subseteq SUBSET Note
      BY <2>2 DEF HandlePlaceholder, IndInv, TypeOK, HyliUtxoState
    <3> QED BY <2>2, <3>1, IgnoredKeepsInv DEF HandlePlaceholder
  <2>3. CASE HandleMalformed
    BY <2>3, IgnoredKeepsInv DEF HandleMalformed
  <2>4. CASE UNCHANGED vars
    BY <2>4, IgnoredKeepsInv DEF vars, IndInv, TypeOK
  <2> QED BY <2>1, <2>2, <2>3, <2>4 DEF Next
<1> QED BY <1>1, <1>2, PTL DEF Spec

(* Type correctness of the executor. *)
THEOREM TypeCorrect == Spec => []TypeOK
<1>1. IndInv => TypeOK
  BY DEF IndInv
<1> QED BY <1>1, IndInvHolds, PTL

(* No nullifier is consumed twice, however deliveries repeat or fail. *)
THEOREM NoDoubleNullification == Spec => []NullifiedOnce
<1>1. IndInv => NullifiedOnce
  BY DEF IndInv
<1> QED BY <1>1, IndInvHolds, PTL

(* No commitment is created twice. *)
THEOREM NoDoubleCreation == Spec => []CreatedOnce
<1>1. IndInv => CreatedOnce
  BY DEF IndInv
<1> QED BY <1>1, IndInvHolds, PTL

(* What an applied delivery recorded is never lost. *)
THEOREM RecordsAreKept == Spec => []LogIsRecorded
<1>1. IndInv => LogIsRecorded
  BY DEF IndInv
<1> QED BY <1>1, IndInvHolds, PTL

(* The window holds exactly the roots of the last MaxRoots applied         *)
(* deliveries.                                                             *)
THEOREM WindowTracksHistory == Spec => []WindowIsRecentHistory
<1>1. IndInv => WindowIsRecentHistory
  BY DEF IndInv
<1> QED BY <1>1, IndInvHolds, PTL

(* A root of the window is the root of a part of the current tree.         *)
THEOREM WindowRootsStayIncluded == Spec => []WindowRootsAreGrowing
<1>1. IndInv => WindowRootsAreGrowing
  <2> SUFFICES ASSUME IndInv PROVE WindowRootsAreGrowing
    OBVIOUS
  <2> DEFINE Depth == IF Len(log) < MaxRoots THEN Len(log) ELSE MaxRoots
  <2>1. /\ Len(log) \in Nat
        /\ Len(state.roots) = Depth
        /\ \A i \in 1..Depth : state.roots[i] = log[Len(log) + 1 - i].root
        /\ \A i \in 1..Depth : Len(log) + 1 - i \in 1..Len(log)
    BY MaxRootsAssumption DEF IndInv, TypeOK, WindowIsRecentHistory
  <2>2. \A i, j \in 1..Len(state.roots) : i <= j => state.roots[j] \subseteq state.roots[i]
    <3> SUFFICES ASSUME NEW i \in 1..Depth, NEW j \in 1..Depth, i <= j
                 PROVE  state.roots[j] \subseteq state.roots[i]
      BY <2>1
    <3>1. Len(log) + 1 - j <= Len(log) + 1 - i
      BY <2>1, MaxRootsAssumption
    <3>2. log[Len(log) + 1 - j].root \subseteq log[Len(log) + 1 - i].root
      <4> DEFINE a == Len(log) + 1 - j
                 b == Len(log) + 1 - i
      <4>1. a \in 1..Len(log) /\ b \in 1..Len(log) /\ a <= b
        BY <2>1, <3>1
      <4> HIDE DEF a, b
      <4>2. log[a].root \subseteq log[b].root
        BY <4>1 DEF IndInv, LogIsRecorded
      <4> QED BY <4>2 DEF a, b
    <3> QED BY <2>1, <3>2
  <2>3. \A i \in 1..Len(state.roots) : state.roots[i] \subseteq state.notes
    BY <2>1 DEF IndInv, LogIsRecorded
  <2> QED BY <2>2, <2>3 DEF WindowRootsAreGrowing
<1> QED BY <1>1, IndInvHolds, PTL

(* A repeated delivery with a real key stops at its first insertion.       *)
LEMMA RepeatedKeyStopsAtOnce ==
  ASSUME NEW s \in HyliUtxoState, NEW blob \in UtxoBlob,
         RealNullifiers(blob) \subseteq s.nullified,
         RealCommitments(blob) \subseteq s.notes,
         RealNullifiers(blob) \cup RealCommitments(blob) # {}
  PROVE  ~apply_commitments(s, blob).ok /\ apply_commitments(s, blob).state = s
<1> DEFINE nul == record_nullified(s, blob.nullified)
           cre == record_created(nul.state, blob.created)
           new == Inserted(s.nullified, blob.nullified, SkippedNullifiers)
           out == Inserted(s.notes, blob.created, SkippedCommitments)
<1>1. \A i \in Slots : i \in 1..i
  BY DEF Slots
<1>2. new = {}
  BY <1>1 DEF Inserted, AlreadyThere, RealNullifiers
<1>3. out = {}
  BY <1>1 DEF Inserted, AlreadyThere, RealCommitments
<1>4. [s EXCEPT !.nullified = s.nullified \cup new] = s
  BY <1>2 DEF HyliUtxoState
<1>5. [s EXCEPT !.notes = s.notes \cup out] = s
  BY <1>3 DEF HyliUtxoState
<1>6. nul.state = s /\ (nul.ok <=> AllFresh(s.nullified, blob.nullified, SkippedNullifiers))
  BY <1>4 DEF record_nullified
<1>7. cre.state = s /\ (cre.ok <=> AllFresh(s.notes, blob.created, SkippedCommitments))
  BY <1>5, <1>6 DEF record_created
<1>8. RealNullifiers(blob) # {} => ~nul.ok
  BY <1>6 DEF AllFresh, AlreadyThere, RealNullifiers
<1>9. RealCommitments(blob) # {} => ~cre.ok
  BY <1>7 DEF AllFresh, AlreadyThere, RealCommitments
<1> QED BY <1>6, <1>7, <1>8, <1>9 DEF apply_commitments

(* Replaying a settled transaction is harmless, for ever after it was      *)
(* applied.                                                                *)
THEOREM ReplaysAreHarmless == Spec => ReplayIsHarmless
<1> DEFINE Harmless ==
      \A i \in 1..Len(log) :
        /\ HandleAction(log[i].blob)
        /\ RealNullifiers(log[i].blob) \cup RealCommitments(log[i].blob) # {}
        => UNCHANGED <<state, log>> /\ event' = {}
<1>1. IndInv => Harmless
  <2> SUFFICES ASSUME IndInv, NEW i \in 1..Len(log), HandleAction(log[i].blob),
                      RealNullifiers(log[i].blob) \cup RealCommitments(log[i].blob) # {}
               PROVE  UNCHANGED <<state, log>> /\ event' = {}
    OBVIOUS
  <2>1. log[i].blob \in UtxoBlob /\ state \in HyliUtxoState
    <3>1. log[i] \in Accepted /\ state \in HyliUtxoState
      BY DEF IndInv, TypeOK
    <3> QED BY <3>1, BlobsAssumption DEF Accepted
  <2>2. /\ RealNullifiers(log[i].blob) \subseteq state.nullified
        /\ RealCommitments(log[i].blob) \subseteq state.notes
    BY DEF IndInv, LogIsRecorded
  <2>3. /\ ~apply_commitments(state, log[i].blob).ok
        /\ apply_commitments(state, log[i].blob).state = state
    BY <2>1, <2>2, RepeatedKeyStopsAtOnce
  <2> QED BY <2>3 DEF HandleAction
<1>2. Spec => [][Harmless]_vars
  BY <1>1, IndInvHolds, PTL DEF Spec
<1> QED BY <1>2 DEF ReplayIsHarmless

----------------------------------------------------------------------------
(* What the book says of an entry of the log. *)
LEMMA BookOfLog ==
  ASSUME TypeOK
  PROVE  /\ Book \in Seq(L!Transaction)
         /\ Len(Book) = Len(log)
         /\ \A i \in 1..Len(log) : Book[i] = Settled(log[i])
<1>1. Len(log) \in Nat /\ \A i \in 1..Len(log) : log[i].blob \in UtxoBlob
  <2>1. Len(log) \in Nat /\ \A i \in 1..Len(log) : log[i] \in Accepted
    BY DEF TypeOK
  <2> QED BY <2>1, BlobsAssumption DEF Accepted
<1>2. \A i \in 1..Len(log) : Settled(log[i]) \in L!Transaction
  BY <1>1 DEF Settled, RealCommitments, RealNullifiers, UtxoBlob, CreatedKey, NullifierKey,
             SkippedCommitments, SkippedNullifiers, L!Transaction
<1> QED BY <1>1, <1>2 DEF Book

(* The book's notes are in the trees. *)
LEMMA BookIsInTheTrees ==
  ASSUME IndInv
  PROVE  L!Created(Book) \subseteq state.notes /\ L!Spent(Book) \subseteq state.nullified
<1>1. DOMAIN Book = 1..Len(log) /\ \A i \in 1..Len(log) : Book[i] = Settled(log[i])
  BY DEF Book
<1>2. \A i \in 1..Len(log) :
        Book[i].created \subseteq state.notes /\ Book[i].spent \subseteq state.nullified
  BY <1>1 DEF Settled, IndInv, LogIsRecorded
<1> QED BY <1>1, <1>2 DEF L!Created, L!Spent

(* The keys of an applied delivery were in neither tree. *)
LEMMA AppliedIsNew ==
  ASSUME NEW s \in HyliUtxoState, NEW blob \in UtxoBlob, apply_commitments(s, blob).ok
  PROVE  RealCommitments(blob) \cap s.notes = {} /\ RealNullifiers(blob) \cap s.nullified = {}
<1>1. /\ AllFresh(s.nullified, blob.nullified, SkippedNullifiers)
      /\ AllFresh(s.notes, blob.created, SkippedCommitments)
  BY AppliedAsAWhole
<1> QED BY <1>1, FreshInsertion DEF RealCommitments, RealNullifiers

(* A delivery that is applied settles a transaction of the book. *)
LEMMA AppliedSettles ==
  ASSUME IndInv, NEW blob \in Blobs, HandleAction(blob), apply_commitments(state, blob).ok
  PROVE  L!Next
<1> DEFINE t == Settled([blob |-> blob, root |-> state'.notes])
<1>1. blob \in UtxoBlob /\ state \in HyliUtxoState
  BY BlobsAssumption DEF IndInv, TypeOK
<1>2. t.created = RealCommitments(blob) /\ t.spent = RealNullifiers(blob) /\ t \in L!Transaction
  BY <1>1 DEF Settled, RealCommitments, RealNullifiers, UtxoBlob, CreatedKey, NullifierKey,
             SkippedCommitments, SkippedNullifiers, L!Transaction
<1>3. t.created \cap L!Created(Book) = {} /\ t.spent \cap L!Spent(Book) = {}
  BY <1>1, <1>2, AppliedIsNew, BookIsInTheTrees
<1>4. Book' = Append(Book, t)
  <2>1. /\ Len(log') = Len(log) + 1 /\ Len(log) \in Nat
        /\ \A i \in 1..Len(log) : log'[i] = log[i]
        /\ log'[Len(log) + 1].blob = blob
    BY AppliedExtendsLog DEF IndInv, TypeOK
  <2>2. \A i \in 1..Len(log) : Settled(log'[i]) = Settled(log[i])
    BY <2>1
  <2>3. Settled(log'[Len(log) + 1]) = t
    BY <2>1 DEF Settled
  <2>4. Book \in Seq(L!Transaction) /\ Len(Book) = Len(log)
        /\ \A i \in 1..Len(log) : Book[i] = Settled(log[i])
    BY BookOfLog DEF IndInv
  <2>5. Book' = [i \in 1..(Len(log) + 1) |-> Settled(log'[i])]
    BY <2>1 DEF Book
  <2> HIDE DEF t
  <2>6. /\ Append(Book, t) \in Seq(L!Transaction)
        /\ Len(Append(Book, t)) = Len(log) + 1
        /\ \A i \in 1..Len(log) : Append(Book, t)[i] = Book[i]
        /\ Append(Book, t)[Len(log) + 1] = t
    BY ONLY <1>2, <2>1, <2>4, AppendProperties
  <2>7. \A i \in 1..(Len(log) + 1) : Settled(log'[i]) = Append(Book, t)[i]
    BY ONLY <2>1, <2>2, <2>3, <2>4, <2>6
  <2>8. Append(Book, t) = [i \in 1..(Len(log) + 1) |-> Append(Book, t)[i]]
    <3> DEFINE b == Append(Book, t)
    <3>1. b \in Seq(L!Transaction) /\ Len(b) = Len(log) + 1
      BY ONLY <2>6
    <3> HIDE DEF b
    <3>2. b = [i \in 1..Len(b) |-> b[i]]
      BY <3>1
    <3> QED BY <3>1, <3>2 DEF b
  <2> QED BY ONLY <2>5, <2>7, <2>8
<1>5. L!Settle(t)
  BY <1>3, <1>4 DEF L!Settle
<1> QED BY <1>2, <1>5 DEF L!Next

(* The executor implements the ledger: every note is created at most once  *)
(* and spent at most once in the book of what was applied, however the     *)
(* deliveries repeat, collide or stop half way.                            *)
THEOREM ExecutorImplementsLedger == Spec => ImplementsLedger
<1>1. Init => L!Init
  BY DEF Init, L!Init, Book
<1>2. IndInv /\ [Next]_vars => [L!Next]_Book
  <2> SUFFICES ASSUME IndInv, [Next]_vars PROVE [L!Next]_Book
    OBVIOUS
  <2>1. log' = log => Book' = Book
    BY DEF Book
  <2>2. ASSUME NEW blob \in Blobs, HandleAction(blob)
        PROVE  [L!Next]_Book
    <3>1. CASE apply_commitments(state, blob).ok
      BY <2>2, <3>1, AppliedSettles
    <3>2. CASE ~apply_commitments(state, blob).ok
      BY <2>1, <2>2, <3>2 DEF HandleAction
    <3> QED BY <3>1, <3>2
  <2>3. CASE HandlePlaceholder \/ HandleMalformed \/ UNCHANGED vars
    BY <2>1, <2>3 DEF HandlePlaceholder, HandleMalformed, vars
  <2> QED BY <2>2, <2>3 DEF Next
<1> QED BY <1>1, <1>2, IndInvHolds, PTL DEF Spec, ImplementsLedger, L!Spec
============================================================================
