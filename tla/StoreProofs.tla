---------------------------- MODULE StoreProofs ----------------------------
(***************************************************************************)
(* Proofs about PersistentStore and the two stores that are saved through  *)
(* it, AddressRegistry and NoteStore, for any number of handlers, files,   *)
(* usernames, addresses, recipients and notes, and any bounds on the       *)
(* changes, crashes and errors.                                            *)
(***************************************************************************)
EXTENDS AddressRegistry, NoteStore, NoteQueueProofs

----------------------------------------------------------------------------
(* PersistentStore: every step of a store keeps StoreInv, whatever the     *)
(* data and the changes its handlers make.                                 *)


(* A snapshot of a store is a piece of a file.                             *)
LEMMA SnapshotIsPiece ==
  ASSUME StoreTypeOK
  PROVE  IsPiece(Snapshot) /\ Snapshot # Hole /\ Snapshot.version = version /\ Snapshot.data = data
<1>1. Snapshot.version = version /\ Snapshot.data = data /\ version \in 0..MaxVersion
  BY DEF Snapshot, StoreTypeOK
<1>2. Hole.version = -1
  BY DEF Hole
<1>3. Snapshot # Hole
  BY <1>1, <1>2
<1>4. Snapshot = [version |-> Snapshot.version, data |-> Snapshot.data]
  BY DEF Snapshot
<1> QED BY <1>1, <1>3, <1>4 DEF IsPiece

(* What is in a file. *)
LEMMA PieceFacts ==
  ASSUME StoreInv, NEW i \in Inodes, NEW k \in 1..2
  PROVE  IsPiece(inodes[i][k]) /\ (inodes[i][k] # Hole => inodes[i][k].version \in 0..MaxVersion)
<1>1. IsPiece(inodes[i][1]) /\ IsPiece(inodes[i][2])
  BY DEF StoreInv, FilesAreWellFormed
<1>2. k = 1 \/ k = 2
  OBVIOUS
<1>3. IsPiece(inodes[i][k])
  BY <1>1, <1>2
<1> QED BY <1>3 DEF IsPiece

(* The lock. *)
LEMMA LockFacts ==
  ASSUME StoreInv, NoReader
  PROVE  \A h \in Handlers : persist[h] \notin {"created", "half", "written"} /\ fd[h] = 0
BY DEF NoReader, Reading, StoreInv, OpenFilesAreWritten

----------------------------------------------------------------------------
(* A change is made while nobody writes; somebody is going to save it. *)
LEMMA ChangeKeepsStore ==
  ASSUME StoreInv, NEW h \in Handlers, NEW value, Change(h, value)
  PROVE  StoreInv'
<1> USE DEF StoreInv
<1>1. /\ process = "running" /\ persist[h] = "idle" /\ version < MaxVersion
      /\ data' = value /\ version' = version + 1
      /\ mine' = [mine EXCEPT ![h] = version + 1] /\ persist' = [persist EXCEPT ![h] = "due"]
      /\ UNCHANGED <<fd, inodes, tmp, path, process, acked, crashes, errors>>
  BY DEF Change
<1>2. \A g \in Handlers : persist[g] \notin {"created", "half", "written"} /\ fd[g] = 0
  BY LockFacts DEF Change
<1>3. persist'[h] = "due" /\ \A g \in Handlers : g # h => persist'[g] = persist[g]
  BY <1>1 DEF StoreTypeOK
<1>4. mine'[h] = version + 1 /\ \A g \in Handlers : g # h => mine'[g] = mine[g]
  BY <1>1 DEF StoreTypeOK
<1>5. StoreTypeOK'
  <2>1. version' \in 0..MaxVersion /\ version + 1 \in 0..MaxVersion
    BY <1>1, PersistBoundsAssumption DEF StoreTypeOK
  <2>2. persist' \in [Handlers -> PersistPhase] /\ mine' \in [Handlers -> 0..MaxVersion]
    BY <1>1, <2>1 DEF StoreTypeOK, PersistPhase
  <2> QED BY <1>1, <2>1, <2>2 DEF StoreTypeOK
<1>6. FilesAreWellFormed'
  BY <1>1 DEF FilesAreWellFormed, IsPiece
<1>7. OpenFilesAreWritten'
  BY <1>1, <1>2, <1>3 DEF OpenFilesAreWritten
<1>8. NoReader'
  BY <1>2, <1>3 DEF NoReader, Reading
<1>9. OpenFilesAreCurrent'
  BY <1>1, <1>2, <1>8 DEF OpenFilesAreCurrent
<1>10. UniformSnapshots' /\ AckedIsOnDisk'
  BY <1>1 DEF UniformSnapshots, AckedIsOnDisk, Whole
<1>11. VersionsAreReached'
  <2>1. version \in Nat /\ acked \in Nat /\ \A g \in Handlers : mine[g] \in Nat
    BY PersistBoundsAssumption DEF StoreTypeOK
  <2>2. path # 0 => \A k \in 1..2 : inodes[path][k] # Hole => inodes[path][k].version \in Nat
    <3>1. path # 0 => path \in Inodes
      BY DEF StoreTypeOK
    <3> QED BY <3>1, PieceFacts, PersistBoundsAssumption
  <2> QED BY <1>1, <1>4, <2>1, <2>2 DEF VersionsAreReached
<1>12. DataIsComing'
  BY <1>3, <1>8 DEF DataIsComing
<1> QED BY <1>5, <1>6, <1>7, <1>9, <1>10, <1>11, <1>12

(* Creating the file empties it, or takes one that has no name. *)
LEMMA CreateKeepsStore ==
  ASSUME StoreInv, NEW h \in Handlers, PersistCreate(h)
  PROVE  StoreInv'
<1> USE DEF StoreInv
<1> DEFINE file == IF tmp = 0 THEN CHOOSE i \in Unused : TRUE ELSE tmp
<1>1. /\ process = "running" /\ persist[h] = "due" /\ (tmp = 0 => Unused # {})
      /\ persist' = [persist EXCEPT ![h] = "created"] /\ fd' = [fd EXCEPT ![h] = file]
      /\ tmp' = file /\ inodes' = [inodes EXCEPT ![file] = Blank]
      /\ UNCHANGED <<data, version, path, process, mine, acked, crashes, errors>>
  BY DEF PersistCreate
<1>2. file \in Inodes /\ file # 0
  <2>1. tmp = 0 => (CHOOSE i \in Unused : TRUE) \in Unused
    BY <1>1
  <2>2. 0 \notin Inodes /\ tmp \in Inodes \cup {0} /\ Unused \subseteq Inodes
    BY InodesAssumption DEF StoreTypeOK, Unused
  <2> QED BY <2>1, <2>2
<1> HIDE DEF file
<1>3. /\ persist'[h] = "created" /\ fd'[h] = file
      /\ \A g \in Handlers : g # h => persist'[g] = persist[g] /\ fd'[g] = fd[g]
  BY <1>1 DEF StoreTypeOK
<1>4. /\ inodes' = [i \in Inodes |-> inodes'[i]]
      /\ inodes'[file] = Blank /\ \A i \in Inodes : i # file => inodes'[i] = inodes[i]
  BY <1>1, <1>2 DEF FilesAreWellFormed
<1>5. StoreTypeOK'
  <2>1. persist' \in [Handlers -> PersistPhase] /\ fd' \in [Handlers -> Inodes \cup {0}]
    BY <1>1, <1>2 DEF StoreTypeOK, PersistPhase
  <2>2. DOMAIN inodes' = Inodes
    BY <1>4
  <2> QED BY <1>1, <1>2, <2>1, <2>2 DEF StoreTypeOK
<1>6. Blank[1] = Hole /\ Blank[2] = Hole /\ Blank = [k \in 1..2 |-> Blank[k]]
  BY DEF Blank
<1>7. FilesAreWellFormed'
  <2>1. \A i \in Inodes : /\ inodes'[i] = [k \in 1..2 |-> inodes'[i][k]]
                          /\ IsPiece(inodes'[i][1]) /\ IsPiece(inodes'[i][2])
    BY <1>4, <1>6 DEF FilesAreWellFormed, IsPiece
  <2> QED BY <1>4, <2>1 DEF FilesAreWellFormed, IsPiece
<1>8. OpenFilesAreWritten'
  BY <1>1, <1>2, <1>3 DEF OpenFilesAreWritten
<1>9. Snapshot' = Snapshot
  BY <1>1 DEF Snapshot
<1>10. \A k \in 1..2 : inodes'[file][k] = Hole
  BY <1>4, <1>6
<1>11. \A g \in Handlers : fd'[g] # 0 => \A k \in 1..2 : inodes'[fd'[g]][k] \in {Hole, Snapshot'}
  <2> SUFFICES ASSUME NEW g \in Handlers, fd'[g] # 0
               PROVE  \A k \in 1..2 : inodes'[fd'[g]][k] \in {Hole, Snapshot'}
    OBVIOUS
  <2>1. CASE fd'[g] = file
    BY <2>1, <1>10
  <2>2. CASE fd'[g] # file
    <3>1. fd'[g] = fd[g] /\ fd[g] \in Inodes /\ IsCurrent(fd[g])
      BY <1>3, <2>2 DEF OpenFilesAreCurrent, StoreTypeOK
    <3> QED BY <3>1, <2>2, <1>4, <1>9 DEF IsCurrent
  <2> QED BY <2>1, <2>2
<1>12. OpenFilesAreCurrent'
  BY <1>1, <1>10, <1>11 DEF OpenFilesAreCurrent, IsCurrent
<1>13. UniformSnapshots'
  BY <1>4, <1>6 DEF UniformSnapshots, Whole
<1>14. AckedIsOnDisk'
  <2>1. path # 0 => path \in Inodes /\ (inodes'[path] = inodes[path] \/ inodes'[path] = Blank)
    BY <1>4 DEF StoreTypeOK
  <2>2. ~Whole(Blank)
    BY <1>6 DEF Whole
  <2> QED BY <1>1, <2>1, <2>2 DEF AckedIsOnDisk
<1>15. VersionsAreReached'
  <2>1. path # 0 => path \in Inodes /\ (inodes'[path] = inodes[path] \/ inodes'[path] = Blank)
    BY <1>4 DEF StoreTypeOK
  <2>2. \A k \in 1..2 : Blank[k] = Hole
    BY <1>6
  <2> QED BY <1>1, <2>1, <2>2 DEF VersionsAreReached
<1>16. DataIsComing'
  <2>1. ~NoReader'
    BY <1>3 DEF NoReader, Reading
  <2>2. tmp' = file /\ fd'[h] = file /\ WillWrite(h, 1)' /\ WillWrite(h, 2)'
    BY <1>1, <1>3 DEF WillWrite
  <2>3. IsComing(tmp)'
    <3>1. \A k \in 1..2 : WillWrite(h, k)'
      BY <2>2
    <3> QED BY <2>2, <3>1 DEF IsComing
  <2> QED BY <1>2, <2>1, <2>2, <2>3 DEF DataIsComing
<1> QED BY <1>5, <1>7, <1>8, <1>12, <1>13, <1>14, <1>15, <1>16

(* What is written is the present data, and nothing else is in the file. *)
LEMMA WriteKeepsStore ==
  ASSUME StoreInv, NEW h \in Handlers, PersistWrite(h)
  PROVE  StoreInv'
<1> USE DEF StoreInv
<1> DEFINE n == IF persist[h] = "created" THEN 1 ELSE 2
           f == fd[h]
<1>1. /\ process = "running" /\ persist[h] \in {"created", "half"}
      /\ inodes' = [inodes EXCEPT ![f][n] = Snapshot]
      /\ persist' = [persist EXCEPT ![h] = IF n = 1 THEN "half" ELSE "written"]
      /\ fd' = [fd EXCEPT ![h] = IF n = 1 THEN @ ELSE 0]
      /\ UNCHANGED <<data, version, tmp, path, process, mine, acked, crashes, errors>>
  BY DEF PersistWrite
<1>2. f \in Inodes /\ f # 0 /\ n \in 1..2
  BY <1>1, InodesAssumption DEF OpenFilesAreWritten, StoreTypeOK
<1>3. /\ persist'[h] = (IF n = 1 THEN "half" ELSE "written") /\ fd'[h] = (IF n = 1 THEN f ELSE 0)
      /\ \A g \in Handlers : g # h => persist'[g] = persist[g] /\ fd'[g] = fd[g]
  BY <1>1 DEF StoreTypeOK
<1>4. /\ inodes' = [i \in Inodes |-> inodes'[i]]
      /\ \A i \in Inodes : i # f => inodes'[i] = inodes[i]
      /\ inodes'[f] = [inodes[f] EXCEPT ![n] = Snapshot]
  BY <1>1, <1>2 DEF FilesAreWellFormed
<1>5. /\ inodes'[f] = [k \in 1..2 |-> inodes'[f][k]]
      /\ inodes'[f][n] = Snapshot /\ \A k \in 1..2 : k # n => inodes'[f][k] = inodes[f][k]
  <2>1. inodes[f] = [k \in 1..2 |-> inodes[f][k]]
    BY <1>2 DEF FilesAreWellFormed
  <2> QED BY <1>2, <1>4, <2>1
<1>6. IsPiece(Snapshot) /\ Snapshot # Hole /\ Snapshot.version = version
  BY SnapshotIsPiece
<1>7. Snapshot' = Snapshot
  BY <1>1 DEF Snapshot
<1>8. StoreTypeOK'
  <2>1. persist' \in [Handlers -> PersistPhase] /\ fd' \in [Handlers -> Inodes \cup {0}]
    BY <1>1, <1>2 DEF StoreTypeOK, PersistPhase
  <2>2. DOMAIN inodes' = Inodes
    BY <1>4
  <2> QED BY <1>1, <2>1, <2>2 DEF StoreTypeOK
<1> HIDE DEF f
<1>9. \A k \in 1..2 : inodes[f][k] \in {Hole, Snapshot} /\ inodes'[f][k] \in {Hole, Snapshot}
  <2>1. IsCurrent(f)
    BY <1>2 DEF OpenFilesAreCurrent, f
  <2> QED BY <1>5, <2>1 DEF IsCurrent
<1>10. FilesAreWellFormed'
  <2>1. \A k \in 1..2 : IsPiece(inodes'[f][k])
    BY <1>6, <1>9 DEF IsPiece
  <2>2. \A i \in Inodes : /\ inodes'[i] = [k \in 1..2 |-> inodes'[i][k]]
                          /\ IsPiece(inodes'[i][1]) /\ IsPiece(inodes'[i][2])
    BY <1>4, <1>5, <2>1 DEF FilesAreWellFormed
  <2>3. \A v : IsPiece(v) <=> IsPiece(v)'
    BY DEF IsPiece
  <2> QED BY ONLY <1>4, <2>2, <2>3 DEF FilesAreWellFormed
<1>11. OpenFilesAreWritten'
  BY <1>1, <1>2, <1>3 DEF OpenFilesAreWritten
<1>12. \A g \in Handlers : fd'[g] # 0 => \A k \in 1..2 : inodes'[fd'[g]][k] \in {Hole, Snapshot'}
  <2> SUFFICES ASSUME NEW g \in Handlers, fd'[g] # 0
               PROVE  \A k \in 1..2 : inodes'[fd'[g]][k] \in {Hole, Snapshot'}
    OBVIOUS
  <2>1. CASE fd'[g] = f
    BY <2>1, <1>7, <1>9
  <2>2. CASE fd'[g] # f
    <3>1. fd'[g] = fd[g] /\ fd[g] \in Inodes /\ IsCurrent(fd[g])
      BY <1>3, <2>2 DEF OpenFilesAreCurrent, StoreTypeOK
    <3> QED BY <3>1, <2>2, <1>4, <1>7 DEF IsCurrent
  <2> QED BY <2>1, <2>2
<1>13. ~NoReader
  BY <1>1 DEF NoReader, Reading
<1>14. tmp # 0 => \A k \in 1..2 : inodes'[tmp][k] \in {Hole, Snapshot'}
  <2> SUFFICES ASSUME tmp # 0 PROVE \A k \in 1..2 : inodes'[tmp][k] \in {Hole, Snapshot'}
    OBVIOUS
  <2>1. CASE tmp = f
    BY <2>1, <1>7, <1>9
  <2>2. CASE tmp # f
    <3>1. IsCurrent(tmp) /\ tmp \in Inodes
      BY <1>13 DEF OpenFilesAreCurrent, StoreTypeOK
    <3> QED BY <3>1, <2>2, <1>4, <1>7 DEF IsCurrent
  <2> QED BY <2>1, <2>2
<1>15. OpenFilesAreCurrent'
  BY <1>1, <1>12, <1>14 DEF OpenFilesAreCurrent, IsCurrent
<1>16. UniformSnapshots'
  <2>1. \A i \in Inodes : inodes'[i][1] # Hole /\ inodes'[i][2] # Hole => inodes'[i][1] = inodes'[i][2]
    <3>1. inodes'[f][1] # Hole /\ inodes'[f][2] # Hole => inodes'[f][1] = inodes'[f][2]
      BY <1>9
    <3>2. \A i \in Inodes : i # f /\ inodes'[i][1] # Hole /\ inodes'[i][2] # Hole
                               => inodes'[i][1] = inodes'[i][2]
      BY <1>4 DEF UniformSnapshots, Whole
    <3> QED BY <3>1, <3>2
  <2> QED BY <2>1 DEF UniformSnapshots, Whole
<1>17. VersionsAreReached'
  <2>1. path # 0 => \A k \in 1..2 : inodes'[path][k] # Hole => inodes'[path][k].version <= version
    <3>1. version <= version
      BY PersistBoundsAssumption DEF StoreTypeOK
    <3>2. path # 0 => path \in Inodes
      BY DEF StoreTypeOK
    <3>3. CASE path = f
      BY <3>1, <3>3, <1>6, <1>9
    <3>4. CASE path # f
      BY <3>2, <3>4, <1>1, <1>4 DEF VersionsAreReached
    <3> QED BY <3>3, <3>4
  <2> QED BY <1>1, <2>1 DEF VersionsAreReached
<1>18. AckedIsOnDisk'
  <2>1. CASE path = f
    BY <2>1, <1>1, <1>2, <1>6, <1>9 DEF AckedIsOnDisk, VersionsAreReached, Whole
  <2>2. CASE path # f
    <3>1. path # 0 => inodes'[path] = inodes[path]
      BY <2>2, <1>4 DEF StoreTypeOK
    <3> QED BY <3>1, <1>1 DEF AckedIsOnDisk, Whole
  <2> QED BY <2>1, <2>2
<1>19. ASSUME NEW i \in Inodes, IsComing(i)
       PROVE  \A k \in 1..2 : \/ inodes'[i][k] = Snapshot'
                              \/ \E g \in Handlers : fd'[g] = i /\ WillWrite(g, k)'
  <2> SUFFICES ASSUME NEW k \in 1..2, inodes'[i][k] # Snapshot
               PROVE  \E g \in Handlers : fd'[g] = i /\ WillWrite(g, k)'
    BY <1>7
  <2>1. inodes[i][k] # Snapshot
    <3>1. CASE i = f
      BY <3>1, <1>5
    <3>2. CASE i # f
      BY <3>2, <1>4
    <3> QED BY <3>1, <3>2
  <2>2. PICK g \in Handlers : fd[g] = i /\ WillWrite(g, k)
    BY <2>1, <1>19 DEF IsComing
  <2>3. CASE g = h
    <3>1. i = f /\ k # n
      BY <2>2, <2>3, <1>5 DEF f
    <3>2. n = 1 /\ k = 2
      BY <2>2, <2>3, <3>1, <1>2 DEF WillWrite
    <3>3. fd'[h] = i /\ WillWrite(h, k)'
      BY <3>1, <3>2, <1>3 DEF WillWrite
    <3> QED BY <3>3
  <2>4. CASE g # h
    BY <2>2, <2>4, <1>3 DEF WillWrite
  <2> QED BY <2>3, <2>4
<1>20. DataIsComing'
  <2>1. (\E g \in Handlers : persist[g] = "due") => \E g \in Handlers : persist'[g] = "due"
    BY <1>1, <1>3
  <2>2. ~NoReader'
    BY <1>3 DEF NoReader, Reading
  <2>3. tmp \in Inodes \cup {0} /\ path \in Inodes \cup {0}
    BY DEF StoreTypeOK
  <2>4. process = "running" /\ errors = 0 /\ tmp # 0 => IsComing(tmp)'
    BY <1>1, <1>13, <1>19, <2>3 DEF DataIsComing, IsComing
  <2>5. process = "running" /\ errors = 0 /\ path # 0 /\ IsComing(path) => IsComing(path)'
    BY <1>1, <1>19, <2>3 DEF IsComing
  <2>6. process = "running" /\ errors = 0 =>
          \/ \E g \in Handlers : persist[g] = "due"
          \/ tmp # 0
          \/ path = 0 /\ version = 0
          \/ path # 0 /\ IsComing(path)
    BY DEF DataIsComing
  <2> QED BY <1>1, <2>1, <2>2, <2>4, <2>5, <2>6 DEF DataIsComing
<1> QED BY <1>8, <1>10, <1>11, <1>15, <1>16, <1>17, <1>18, <1>20

(* The temporary file that is renamed, whoever created it, has no other    *)
(* data than the present.                                                  *)
LEMMA RenameKeepsStore ==
  ASSUME StoreInv, NEW h \in Handlers, PersistRename(h)
  PROVE  StoreInv'
<1> USE DEF StoreInv
<1>1. /\ process = "running" /\ persist[h] = "written"
      /\ persist' = [persist EXCEPT ![h] = "idle"]
      /\ tmp # 0 => /\ path' = tmp /\ tmp' = 0
                    /\ acked' = IF mine[h] > acked THEN mine[h] ELSE acked
      /\ tmp = 0 => UNCHANGED <<path, tmp, acked>>
      /\ UNCHANGED <<data, version, fd, inodes, process, mine, crashes, errors>>
  BY DEF PersistRename
<1>2. persist'[h] = "idle" /\ \A g \in Handlers : g # h => persist'[g] = persist[g]
  BY <1>1 DEF StoreTypeOK
<1>3. ~NoReader /\ fd[h] = 0
  BY <1>1 DEF NoReader, Reading, OpenFilesAreWritten
<1>4. Snapshot' = Snapshot
  BY <1>1 DEF Snapshot
<1>5. StoreTypeOK'
  <2>1. persist' \in [Handlers -> PersistPhase]
    BY <1>1 DEF StoreTypeOK, PersistPhase
  <2>2. acked' \in 0..MaxVersion /\ tmp' \in Inodes \cup {0} /\ path' \in Inodes \cup {0}
    BY <1>1 DEF StoreTypeOK
  <2> QED BY <1>1, <2>1, <2>2 DEF StoreTypeOK
<1>6. FilesAreWellFormed' /\ UniformSnapshots'
  BY <1>1 DEF FilesAreWellFormed, IsPiece, UniformSnapshots, Whole
<1>7. OpenFilesAreWritten'
  BY <1>1, <1>2, <1>3 DEF OpenFilesAreWritten
<1>8. OpenFilesAreCurrent'
  <2>1. \A g \in Handlers : fd'[g] # 0 => \A k \in 1..2 : inodes'[fd'[g]][k] \in {Hole, Snapshot'}
    BY <1>1, <1>4 DEF OpenFilesAreCurrent, IsCurrent
  <2>2. tmp' = 0
    BY <1>1
  <2> QED BY <2>1, <2>2 DEF OpenFilesAreCurrent, IsCurrent
<1>9. version \in Nat /\ acked \in Nat /\ mine[h] \in Nat /\ mine[h] <= version /\ acked <= version
  BY <1>1, PersistBoundsAssumption DEF StoreTypeOK, VersionsAreReached
<1>10. tmp # 0 => \A k \in 1..2 : inodes[tmp][k] # Hole => inodes[tmp][k].version = version
  <2>1. Snapshot.version = version
    BY SnapshotIsPiece
  <2> QED BY <1>3, <2>1 DEF OpenFilesAreCurrent, IsCurrent
<1>11. VersionsAreReached'
  BY <1>1, <1>9, <1>10 DEF VersionsAreReached
<1>12. AckedIsOnDisk'
  <2>1. CASE tmp = 0
    BY <1>1, <2>1 DEF AckedIsOnDisk, Whole
  <2>2. CASE tmp # 0
    BY <1>1, <1>9, <1>10, <2>2 DEF AckedIsOnDisk, Whole
  <2> QED BY <2>1, <2>2
<1>13. ASSUME NEW i \in Inodes, IsComing(i)
       PROVE  \A k \in 1..2 : \/ inodes'[i][k] = Snapshot'
                              \/ \E g \in Handlers : fd'[g] = i /\ WillWrite(g, k)'
  <2>1. \A g \in Handlers, k \in 1..2 : WillWrite(g, k) => g # h /\ WillWrite(g, k)'
    BY <1>1, <1>2 DEF WillWrite
  <2> QED BY <1>1, <1>4, <1>13, <2>1 DEF IsComing
<1>14. DataIsComing'
  <2> SUFFICES ASSUME process = "running", errors = 0,
                      ~\E g \in Handlers : persist'[g] = "due"
               PROVE  \/ path' = 0 /\ version' = 0
                      \/ path' # 0 /\ IsComing(path)'
    BY <1>1 DEF DataIsComing
  <2>1. ~\E g \in Handlers : persist[g] = "due"
    BY <1>1, <1>2
  <2>2. CASE tmp = 0
    <3>1. (path = 0 /\ version = 0) \/ (path # 0 /\ path \in Inodes /\ IsComing(path))
      BY <2>1, <2>2 DEF DataIsComing, StoreTypeOK
    <3> QED BY <3>1, <1>1, <1>13, <2>2 DEF IsComing
  <2>3. CASE tmp # 0
    <3>1. IsComing(tmp) /\ tmp \in Inodes /\ path' = tmp
      BY <1>1, <1>3, <2>3 DEF DataIsComing, StoreTypeOK
    <3> QED BY <3>1, <1>1, <1>13, <2>3 DEF IsComing
  <2> QED BY <2>2, <2>3
<1> QED BY <1>5, <1>6, <1>7, <1>8, <1>11, <1>12, <1>14

(* An error leaves the files as they are. *)
LEMMA ErrorKeepsStore ==
  ASSUME StoreInv, NEW h \in Handlers, PersistError(h)
  PROVE  StoreInv'
<1> USE DEF StoreInv
<1>1. /\ process = "running" /\ persist[h] # "idle" /\ errors < MaxErrors /\ errors' = errors + 1
      /\ persist' = [persist EXCEPT ![h] = "idle"] /\ fd' = [fd EXCEPT ![h] = 0]
      /\ UNCHANGED <<data, version, inodes, tmp, path, process, mine, acked, crashes>>
  BY DEF PersistError
<1>2. /\ persist'[h] = "idle" /\ fd'[h] = 0
      /\ \A g \in Handlers : g # h => persist'[g] = persist[g] /\ fd'[g] = fd[g]
  BY <1>1 DEF StoreTypeOK
<1>3. Snapshot' = Snapshot
  BY <1>1 DEF Snapshot
<1>4. errors' \in 0..MaxErrors /\ errors' # 0
  BY <1>1, PersistBoundsAssumption DEF StoreTypeOK
<1>5. StoreTypeOK'
  <2>1. persist' \in [Handlers -> PersistPhase] /\ fd' \in [Handlers -> Inodes \cup {0}]
    BY <1>1 DEF StoreTypeOK, PersistPhase
  <2> QED BY <1>1, <1>4, <2>1 DEF StoreTypeOK
<1>6. FilesAreWellFormed' /\ UniformSnapshots' /\ AckedIsOnDisk'
  BY <1>1 DEF FilesAreWellFormed, IsPiece, UniformSnapshots, AckedIsOnDisk, Whole
<1>7. OpenFilesAreWritten'
  BY <1>1, <1>2 DEF OpenFilesAreWritten
<1>8. NoReader => NoReader'
  BY <1>1, <1>2 DEF NoReader, Reading
<1>9. OpenFilesAreCurrent'
  <2>1. \A g \in Handlers : fd'[g] # 0 => \A k \in 1..2 : inodes'[fd'[g]][k] \in {Hole, Snapshot'}
    BY <1>1, <1>2, <1>3 DEF OpenFilesAreCurrent, IsCurrent
  <2>2. tmp # 0 /\ ~NoReader' => \A k \in 1..2 : inodes'[tmp][k] \in {Hole, Snapshot'}
    BY <1>1, <1>3, <1>8 DEF OpenFilesAreCurrent, IsCurrent
  <2> QED BY <1>1, <2>1, <2>2 DEF OpenFilesAreCurrent, IsCurrent
<1>10. VersionsAreReached'
  BY <1>1 DEF VersionsAreReached
<1>11. DataIsComing'
  BY <1>4 DEF DataIsComing
<1> QED BY <1>5, <1>6, <1>7, <1>9, <1>10, <1>11

(* Nobody writes when the process has died. *)
LEMMA CrashKeepsStore ==
  ASSUME StoreInv, Crash
  PROVE  StoreInv'
<1> USE DEF StoreInv
<1>1. /\ crashes < MaxCrashes /\ crashes' = crashes + 1 /\ process' = "down"
      /\ persist' = [h \in Handlers |-> "idle"] /\ fd' = [h \in Handlers |-> 0]
      /\ mine' = [h \in Handlers |-> 0]
      /\ UNCHANGED <<data, version, inodes, tmp, path, acked, errors>>
  BY DEF Crash
<1>2. StoreTypeOK'
  <2>1. crashes' \in 0..MaxCrashes
    BY <1>1, PersistBoundsAssumption DEF StoreTypeOK
  <2>2. persist' \in [Handlers -> PersistPhase] /\ mine' \in [Handlers -> 0..MaxVersion]
    BY <1>1, PersistBoundsAssumption DEF PersistPhase
  <2> QED BY <1>1, <2>1, <2>2 DEF StoreTypeOK
<1>3. FilesAreWellFormed' /\ UniformSnapshots' /\ AckedIsOnDisk'
  BY <1>1 DEF FilesAreWellFormed, IsPiece, UniformSnapshots, AckedIsOnDisk, Whole
<1>4. NoReader'
  BY <1>1 DEF NoReader, Reading
<1>5. OpenFilesAreWritten' /\ OpenFilesAreCurrent'
  BY <1>1, <1>4 DEF OpenFilesAreWritten, OpenFilesAreCurrent
<1>6. VersionsAreReached' /\ DataIsComing'
  BY <1>1 DEF VersionsAreReached, DataIsComing
<1> QED BY <1>2, <1>3, <1>5, <1>6

(* What is serialised after a step. *)
LEMMA NextSnapshot == Snapshot' = [version |-> version', data |-> data']
BY DEF Snapshot

(* A restart has the data of the file, or none when there is none. *)
LEMMA RestartKeepsStore ==
  ASSUME StoreInv, NEW default, Restart(default)
  PROVE  StoreInv'
<1> USE DEF StoreInv
<1>1. /\ process = "down" /\ UNCHANGED <<persist, fd, inodes, tmp, path, mine, acked, crashes, errors>>
      /\ \A h \in Handlers : persist[h] = "idle" /\ mine[h] = 0 /\ fd[h] = 0
  BY DEF Restart, OpenFilesAreWritten
<1>2. NoReader /\ NoReader'
  BY <1>1 DEF NoReader, Reading
<1>3. FilesAreWellFormed' /\ UniformSnapshots' /\ AckedIsOnDisk'
  BY <1>1 DEF FilesAreWellFormed, IsPiece, UniformSnapshots, AckedIsOnDisk, Whole
<1>4. OpenFilesAreCurrent'
  BY <1>1, <1>2 DEF OpenFilesAreCurrent
<1>5. CASE path = 0
  <2>1. process' = "running" /\ version' = 0
    BY <1>5 DEF Restart
  <2>2. acked = 0
    BY <1>5, PersistBoundsAssumption DEF AckedIsOnDisk, StoreTypeOK
  <2>3. StoreTypeOK'
    BY <1>1, <2>1, PersistBoundsAssumption DEF StoreTypeOK
  <2>4. OpenFilesAreWritten' /\ VersionsAreReached' /\ DataIsComing'
    BY <1>1, <1>2, <1>5, <2>1, <2>2 DEF OpenFilesAreWritten, VersionsAreReached, DataIsComing
  <2> QED BY <1>3, <1>4, <2>3, <2>4
<1>6. CASE path # 0 /\ Whole(inodes[path])
  <2>1. process' = "running" /\ version' = inodes[path][1].version /\ data' = inodes[path][1].data
    BY <1>6 DEF Restart
  <2>2. path \in Inodes /\ inodes[path][1] # Hole /\ inodes[path][1] = inodes[path][2]
    BY <1>6 DEF StoreTypeOK, Whole
  <2>3. /\ inodes[path][1] = [version |-> inodes[path][1].version, data |-> inodes[path][1].data]
        /\ inodes[path][1].version \in 0..MaxVersion
    <3>1. IsPiece(inodes[path][1])
      BY <2>2 DEF FilesAreWellFormed
    <3> QED BY ONLY <2>2, <3>1 DEF IsPiece
  <2>4. \A k \in 1..2 : inodes[path][k] = Snapshot'
    <3>1. Snapshot' = inodes[path][1]
      BY ONLY <2>1, <2>3, NextSnapshot
    <3> QED BY ONLY <2>2, <3>1
  <2>5. acked <= version'
    BY <1>6, <2>1 DEF AckedIsOnDisk
  <2>6. StoreTypeOK'
    BY <1>1, <2>1, <2>3 DEF StoreTypeOK
  <2>7. OpenFilesAreWritten'
    BY <1>1, <2>1 DEF OpenFilesAreWritten
  <2>8. version' \in Nat /\ \A k \in 1..2 : inodes[path][k].version <= version'
    BY <2>1, <2>2, <2>3, PersistBoundsAssumption
  <2>9. VersionsAreReached'
    BY <1>1, <2>5, <2>8 DEF VersionsAreReached
  <2>10. DataIsComing'
    BY <1>1, <1>2, <1>6, <2>4 DEF DataIsComing, IsComing
  <2> QED BY <1>3, <1>4, <2>6, <2>7, <2>9, <2>10
<1>7. CASE path # 0 /\ ~Whole(inodes[path])
  <2>1. process' = "refused" /\ UNCHANGED <<data, version>>
    BY <1>7 DEF Restart
  <2>2. StoreTypeOK'
    BY <1>1, <2>1 DEF StoreTypeOK
  <2>3. OpenFilesAreWritten' /\ VersionsAreReached' /\ DataIsComing'
    BY <1>1, <2>1 DEF OpenFilesAreWritten, VersionsAreReached, DataIsComing
  <2> QED BY <1>3, <1>4, <2>2, <2>3
<1> QED BY <1>5, <1>6, <1>7

----------------------------------------------------------------------------
(* Every step of maybe_persist keeps the store's invariant. *)
LEMMA PersistStepKeepsStore ==
  ASSUME StoreInv, NEW h \in Handlers, PersistStep(h)
  PROVE  StoreInv'
BY CreateKeepsStore, WriteKeepsStore, RenameKeepsStore, ErrorKeepsStore DEF PersistStep

(* A step that leaves the store alone.                                     *)
LEMMA StutterKeepsStore ==
  ASSUME StoreInv, UNCHANGED store
  PROVE  StoreInv'
<1>1. StoreTypeOK' /\ FilesAreWellFormed'
  BY DEF store, StoreInv, StoreTypeOK, FilesAreWellFormed, IsPiece
<1>2. OpenFilesAreWritten' /\ OpenFilesAreCurrent'
  BY DEF store, StoreInv, OpenFilesAreWritten, OpenFilesAreCurrent, IsCurrent, NoReader, Reading,
         Snapshot
<1>3. UniformSnapshots' /\ AckedIsOnDisk' /\ VersionsAreReached'
  BY DEF store, StoreInv, UniformSnapshots, Whole, AckedIsOnDisk, VersionsAreReached
<1>4. DataIsComing'
  BY DEF store, StoreInv, DataIsComing, IsComing, WillWrite, NoReader, Reading, Snapshot
<1> QED BY <1>1, <1>2, <1>3, <1>4 DEF StoreInv

(* It holds of a new store. *)
LEMMA NewStore ==
  ASSUME NEW default, StoreInit(default)
  PROVE  StoreInv
<1>1. Blank[1] = Hole /\ Blank[2] = Hole /\ Blank = [k \in 1..2 |-> Blank[k]]
  BY DEF Blank
<1>2. \A i \in Inodes : inodes[i] = Blank
  BY DEF StoreInit
<1>3. StoreTypeOK
  BY PersistBoundsAssumption DEF StoreInit, StoreTypeOK, PersistPhase
<1>4. FilesAreWellFormed
  BY <1>1, <1>2 DEF StoreInit, FilesAreWellFormed, IsPiece
<1>5. UniformSnapshots
  BY <1>1, <1>2 DEF UniformSnapshots
<1>6. OpenFilesAreWritten /\ OpenFilesAreCurrent /\ AckedIsOnDisk /\ VersionsAreReached /\ DataIsComing
  BY PersistBoundsAssumption
     DEF StoreInit, OpenFilesAreWritten, OpenFilesAreCurrent, AckedIsOnDisk, VersionsAreReached, DataIsComing
<1> QED BY <1>3, <1>4, <1>5, <1>6 DEF StoreInv

(* When nobody saves, the file has the data in memory.                     *)
LEMMA ComingIsThere ==
  ASSUME StoreInv
  PROVE  IdleMeansSaved
<1> SUFFICES ASSUME process = "running", errors = 0, \A h \in Handlers : persist[h] = "idle"
             PROVE  IF path = 0 THEN version = 0
                    ELSE Whole(inodes[path]) /\ inodes[path][1] = Snapshot
  BY DEF IdleMeansSaved
<1>1. NoReader
  BY DEF NoReader, Reading
<1>2. (path = 0 /\ version = 0) \/ (path # 0 /\ IsComing(path))
  BY <1>1 DEF StoreInv, DataIsComing
<1>3. IsComing(path) => inodes[path][1] = Snapshot /\ inodes[path][2] = Snapshot
  BY DEF IsComing, WillWrite
<1>4. Snapshot # Hole
  BY SnapshotIsPiece DEF StoreInv
<1> QED BY <1>2, <1>3, <1>4 DEF Whole

----------------------------------------------------------------------------
(* What maybe_persist does to the rest: no data changes, a file gets holes *)
(* or the present data, and so does the file that has the name.            *)
LEMMA PersistStepFacts ==
  ASSUME StoreInv, NEW h \in Handlers, PersistStep(h)
  PROVE  /\ process = "running" /\ UNCHANGED <<data, version, process, mine>>
         /\ acked <= acked'
         /\ path' = path \/ (tmp # 0 /\ path' = tmp)
         /\ \A i \in Inodes, k \in 1..2 : inodes'[i][k] \in {Hole, Snapshot, inodes[i][k]}
         /\ path' # 0 => \A k \in 1..2 :
              inodes'[path'][k] # Hole =>
                \/ inodes'[path'][k] = Snapshot
                \/ path' = path /\ inodes'[path'][k] = inodes[path][k]
<1>1. acked \in Nat
  BY PersistBoundsAssumption DEF StoreInv, StoreTypeOK
<1>2. tmp \in Inodes \cup {0} /\ path \in Inodes \cup {0} /\ 0 \notin Inodes
  BY InodesAssumption DEF StoreInv, StoreTypeOK
<1>3. \A i \in Inodes : inodes[i] = [k \in 1..2 |-> inodes[i][k]]
  BY DEF StoreInv, FilesAreWellFormed
<1>4. CASE PersistCreate(h)
  <2>1. \A i \in Inodes : inodes'[i] = inodes[i] \/ inodes'[i] = Blank
    BY <1>4 DEF PersistCreate, StoreInv, FilesAreWellFormed
  <2>2. \A i \in Inodes, k \in 1..2 : inodes'[i][k] \in {Hole, inodes[i][k]}
    BY <2>1 DEF Blank
  <2>3. process = "running" /\ UNCHANGED <<data, version, path, process, mine, acked>>
    BY <1>4 DEF PersistCreate
  <2> QED BY <1>1, <1>2, <2>2, <2>3
<1>5. CASE PersistWrite(h)
  <2>1. \A i \in Inodes, k \in 1..2 : inodes'[i][k] \in {Snapshot, inodes[i][k]}
    <3> DEFINE n == IF persist[h] = "created" THEN 1 ELSE 2
    <3>1. inodes' = [inodes EXCEPT ![fd[h]][n] = Snapshot] /\ n \in 1..2
      BY <1>5 DEF PersistWrite
    <3>2. inodes = [i \in Inodes |-> inodes[i]]
      BY DEF StoreInv, FilesAreWellFormed
    <3> HIDE DEF n
    <3>3. \A i \in Inodes : inodes'[i] = IF i = fd[h] THEN [inodes[i] EXCEPT ![n] = Snapshot] ELSE inodes[i]
      BY <3>1, <3>2
    <3>4. ASSUME NEW i \in Inodes, NEW k \in 1..2
          PROVE  inodes'[i][k] \in {Snapshot, inodes[i][k]}
      <4>1. CASE i # fd[h]
        BY <3>3, <4>1
      <4>2. CASE i = fd[h]
        <5>1. inodes'[i] = [inodes[i] EXCEPT ![n] = Snapshot] /\ inodes[i] = [j \in 1..2 |-> inodes[i][j]]
          BY <1>3, <3>3, <4>2
        <5>2. inodes'[i][k] = IF k = n THEN Snapshot ELSE inodes[i][k]
          BY <5>1
        <5> QED BY <5>2
      <4> QED BY <4>1, <4>2
    <3> QED BY <3>4
  <2>2. process = "running" /\ UNCHANGED <<data, version, path, process, mine, acked>>
    BY <1>5 DEF PersistWrite
  <2> QED BY <1>1, <1>2, <2>1, <2>2
<1>6. CASE PersistRename(h)
  <2>1. process = "running" /\ UNCHANGED <<data, version, inodes, process, mine>>
    BY <1>6 DEF PersistRename
  <2>2. acked <= acked'
    <3>1. mine[h] \in Nat
      BY PersistBoundsAssumption DEF StoreInv, StoreTypeOK
    <3> QED BY <1>1, <1>6, <3>1 DEF PersistRename
  <2>3. path' = path \/ (tmp # 0 /\ path' = tmp)
    BY <1>6 DEF PersistRename
  <2>4. ~NoReader
    BY <1>6 DEF PersistRename, NoReader, Reading
  <2>5. tmp # 0 => \A k \in 1..2 : inodes[tmp][k] \in {Hole, Snapshot}
    BY <2>4 DEF StoreInv, OpenFilesAreCurrent, IsCurrent
  <2> QED BY <2>1, <2>2, <2>3, <2>5
<1>7. CASE PersistError(h)
  BY <1>1, <1>7 DEF PersistError
<1> QED BY <1>4, <1>5, <1>6, <1>7 DEF PersistStep

(* What a restart reads: nothing, or a piece of the file whose change is   *)
(* at least as new as what was acknowledged.                               *)
LEMMA RestartFacts ==
  ASSUME StoreInv, NEW default, Restart(default)
  PROVE  /\ UNCHANGED <<inodes, path, mine, acked>> /\ process = "down"
         /\ process' = "running" =>
              \/ path = 0 /\ data' = default /\ acked = 0
              \/ /\ path # 0 /\ inodes[path][1] # Hole /\ data' = inodes[path][1].data
                 /\ acked <= inodes[path][1].version
<1>1. UNCHANGED <<inodes, path, mine, acked>> /\ process = "down"
  BY DEF Restart
<1>2. CASE path = 0
  <2>1. acked = 0
    BY <1>2, PersistBoundsAssumption DEF StoreInv, AckedIsOnDisk, StoreTypeOK
  <2> QED BY <1>1, <1>2, <2>1 DEF Restart
<1>3. CASE path # 0 /\ Whole(inodes[path])
  <2>1. acked <= inodes[path][1].version
    BY <1>3 DEF StoreInv, AckedIsOnDisk
  <2> QED BY <1>1, <1>3, <2>1 DEF Restart, Whole
<1>4. CASE path # 0 /\ ~Whole(inodes[path])
  BY <1>1, <1>4 DEF Restart
<1> QED BY <1>2, <1>3, <1>4

----------------------------------------------------------------------------
(* AddressRegistry.                                                        *)


(* The versions are numbers, and those of a process that runs are reached. *)
LEMMA VersionFacts ==
  ASSUME StoreInv
  PROVE  /\ version \in Nat /\ acked \in Nat /\ MaxVersion \in Nat
         /\ \A h \in Handlers : mine[h] \in Nat /\ (process = "running" => mine[h] <= version)
         /\ process = "running" => acked <= version
         /\ \A i \in Inodes, k \in 1..2 : inodes[i][k] # Hole => inodes[i][k].version \in Nat
         /\ path # 0 => path \in Inodes
         /\ tmp # 0 => tmp \in Inodes
<1>1. \A i \in Inodes, k \in 1..2 : inodes[i][k] # Hole => inodes[i][k].version \in 0..MaxVersion
  BY PieceFacts
<1> QED BY <1>1, PersistBoundsAssumption DEF StoreInv, StoreTypeOK, VersionsAreReached

----------------------------------------------------------------------------
(* A registration under the write lock. *)
LEMMA RegisterKeepsInv ==
  ASSUME RegistryInv, NEW h \in Handlers, NEW username \in Usernames, NEW address \in Addresses,
         Register(h, username, address)
  PROVE  RegistryInv'
<1> DEFINE key == Lower(username)
           reg == [utxo_address |-> address, registered_at |-> version + 1]
           req == [username |-> username, utxo_address |-> address, was_update |-> key \in DOMAIN data]
           new == [u \in DOMAIN data \cup {key} |-> IF u = key THEN reg ELSE data[u]]
<1>1. /\ request[h] = <<>> /\ Change(h, new) /\ request' = [request EXCEPT ![h] = req]
      /\ UNCHANGED responses
  BY DEF Register, Key
<1>2. StoreInv /\ StoreInv'
  BY <1>1, ChangeKeepsStore DEF RegistryInv
<1>3. /\ process = "running" /\ version < MaxVersion /\ data' = new
      /\ mine' = [mine EXCEPT ![h] = version + 1]
      /\ UNCHANGED <<process, acked, inodes, path>>
  BY <1>1 DEF Change
<1>4. version \in Nat /\ acked \in Nat /\ MaxVersion \in Nat /\ acked <= version
  BY <1>2, <1>3, VersionFacts
<1>5. mine'[h] = version + 1 /\ \A g \in Handlers : g # h => mine'[g] = mine[g]
  BY <1>2, <1>3 DEF StoreInv, StoreTypeOK
<1>6. request'[h] = req /\ \A g \in Handlers : g # h => request'[g] = request[g]
  BY <1>1 DEF RegistryInv, RequestsAreKept
<1>7. IsRegistry(data) /\ reg \in Registration /\ key \in {Lower(u) : u \in Usernames}
  BY <1>3, <1>4 DEF RegistryInv, DataIsRegistry, Registration
<1>8. IsRegistry(data')
  BY <1>3, <1>7 DEF IsRegistry
<1>9. DataIsRegistry'
  <2>1. \A i \in Inodes, k \in 1..2 : inodes'[i][k] # Hole => IsRegistry(inodes'[i][k].data)
    BY <1>3 DEF RegistryInv, DataIsRegistry
  <2> QED BY ONLY <1>8, <2>1 DEF DataIsRegistry, IsRegistry
<1>10. ASSUME NEW r, NEW v \in Nat, v <= version, Has(data, r, v)
       PROVE  Has(data', r, v)
  <2>1. CASE Lower(r.username) = key
    <3>1. data'[key] = reg /\ reg.registered_at = version + 1 /\ key \in DOMAIN data'
      BY <1>3
    <3> QED BY <2>1, <3>1, <1>4, <1>10 DEF Has
  <2>2. CASE Lower(r.username) # key
    <3>1. Lower(r.username) \in DOMAIN data
      BY <1>10 DEF Has
    <3>2. Lower(r.username) \in DOMAIN data' /\ data'[Lower(r.username)] = data[Lower(r.username)]
      BY <1>3, <2>2, <3>1
    <3> QED BY <3>2, <1>10 DEF Has
  <2> QED BY <2>1, <2>2
<1>11. \A r, v : FileHas(r, v) => FileHas(r, v)'
  BY <1>3 DEF FileHas, Has
<1>12. RequestsAreKept'
  <2>1. req \in Request
    BY DEF Request
  <2>2. request' \in [Handlers -> {<<>>} \cup Request]
    BY <1>1, <2>1 DEF RegistryInv, RequestsAreKept
  <2>3. ASSUME NEW g \in Handlers, request'[g] # <<>>
        PROVE  /\ process' = "running" /\ mine'[g] \in 1..MaxVersion
               /\ Has(data', request'[g], mine'[g])
               /\ path # 0 => \A k \in 1..2 :
                    inodes[path][k] # Hole /\ inodes[path][k].version >= mine'[g]
                      => Has(inodes[path][k].data, request'[g], mine'[g])
    <3>1. CASE g = h
      <4>1. mine'[g] = version + 1 /\ version + 1 \in 1..MaxVersion /\ request'[g] = req
        BY <3>1, <1>3, <1>4, <1>5, <1>6
      <4>2. data'[key] = reg /\ key \in DOMAIN data'
        BY <1>3
      <4>3. Has(data', req, version + 1)
        BY <4>2, <1>4 DEF Has
      <4>4. path # 0 => \A k \in 1..2 : inodes[path][k] # Hole => ~(inodes[path][k].version >= version + 1)
        <5>1. path # 0 => \A k \in 1..2 : inodes[path][k] # Hole =>
                 inodes[path][k].version <= version /\ inodes[path][k].version \in Nat
          BY <1>2, <1>3, VersionFacts DEF StoreInv, VersionsAreReached
        <5> QED BY <5>1, <1>4
      <4> QED BY <1>3, <4>1, <4>3, <4>4
    <3>2. CASE g # h
      <4>1. request'[g] = request[g] /\ mine'[g] = mine[g]
        BY <3>2, <1>5, <1>6
      <4>2. mine[g] \in 1..MaxVersion /\ Has(data, request[g], mine[g]) /\ FileHas(request[g], mine[g])
        BY <2>3, <4>1 DEF RegistryInv, RequestsAreKept
      <4>3. mine[g] \in Nat /\ mine[g] <= version
        BY <1>2, <1>3, VersionFacts
      <4>4. Has(data', request[g], mine[g])
        BY <4>2, <4>3, <1>10
      <4> QED BY <1>3, <4>1, <4>2, <4>4 DEF FileHas
    <3> QED BY <3>1, <3>2
  <2> QED BY <1>3, <2>2, <2>3 DEF RequestsAreKept, FileHas, Has
<1>13. ResponsesAreKept'
  <2> SUFFICES ASSUME NEW r \in responses, r.saved
               PROVE  /\ r.registered \in 1..MaxVersion /\ r.registered <= acked
                      /\ Has(data', r.request, r.registered)
                      /\ FileHas(r.request, r.registered)'
    BY <1>1, <1>3 DEF ResponsesAreKept
  <2>1. /\ r.registered \in 1..MaxVersion /\ r.registered <= acked
        /\ Has(data, r.request, r.registered) /\ FileHas(r.request, r.registered)
    BY <1>3 DEF RegistryInv, ResponsesAreKept
  <2>2. r.registered \in Nat /\ r.registered <= version
    BY <2>1, <1>4
  <2>3. Has(data', r.request, r.registered)
    BY <2>1, <2>2, <1>10
  <2> QED BY <2>1, <2>3, <1>11
<1>14. AnswerIsOwnOrNewer'
  BY <1>1 DEF RegistryInv, AnswerIsOwnOrNewer
<1> QED BY <1>2, <1>9, <1>12, <1>13, <1>14 DEF RegistryInv

(* A step of maybe_persist: the file gets what the registry has. *)
LEMMA RegistrySaveKeepsInv ==
  ASSUME RegistryInv, NEW h \in Handlers, RegistrySave(h)
  PROVE  RegistryInv'
<1>1. PersistStep(h) /\ UNCHANGED <<request, responses>> /\ StoreInv
  BY DEF RegistrySave, RegistryInv
<1>2. StoreInv'
  BY <1>1, PersistStepKeepsStore
<1>3. /\ process = "running" /\ UNCHANGED <<data, version, process, mine>>
      /\ acked <= acked'
      /\ \A i \in Inodes, k \in 1..2 : inodes'[i][k] \in {Hole, Snapshot, inodes[i][k]}
      /\ path' # 0 => \A k \in 1..2 :
           inodes'[path'][k] # Hole =>
             \/ inodes'[path'][k] = Snapshot
             \/ path' = path /\ inodes'[path'][k] = inodes[path][k]
  BY <1>1, PersistStepFacts
<1>4. Snapshot.data = data /\ Snapshot.version = version
  BY <1>1, SnapshotIsPiece DEF StoreInv
<1>5. DataIsRegistry'
  <2>1. \A i \in Inodes, k \in 1..2 : inodes'[i][k] # Hole => IsRegistry(inodes'[i][k].data)
    BY <1>3, <1>4 DEF RegistryInv, DataIsRegistry
  <2> QED BY <1>3, <2>1 DEF RegistryInv, DataIsRegistry, IsRegistry
<1>6. ASSUME NEW r, NEW v, Has(data, r, v), FileHas(r, v)
      PROVE  path' # 0 => \A k \in 1..2 :
               inodes'[path'][k] # Hole /\ inodes'[path'][k].version >= v => Has(inodes'[path'][k].data, r, v)
  BY <1>3, <1>4, <1>6 DEF FileHas
<1>7. RequestsAreKept'
  <2>1. ASSUME NEW g \in Handlers, request[g] # <<>>
        PROVE  /\ mine[g] \in 1..MaxVersion /\ Has(data, request[g], mine[g])
               /\ path' # 0 => \A k \in 1..2 :
                    inodes'[path'][k] # Hole /\ inodes'[path'][k].version >= mine[g]
                      => Has(inodes'[path'][k].data, request[g], mine[g])
    BY <2>1, <1>6 DEF RegistryInv, RequestsAreKept
  <2> QED BY <1>1, <1>3, <2>1 DEF RegistryInv, RequestsAreKept, FileHas, Has
<1>8. ResponsesAreKept'
  <2>1. ASSUME NEW r \in responses, r.saved
        PROVE  /\ r.registered \in 1..MaxVersion /\ r.registered <= acked'
               /\ Has(data, r.request, r.registered)
               /\ path' # 0 => \A k \in 1..2 :
                    inodes'[path'][k] # Hole /\ inodes'[path'][k].version >= r.registered
                      => Has(inodes'[path'][k].data, r.request, r.registered)
    <3>1. /\ r.registered \in 1..MaxVersion /\ r.registered <= acked
          /\ Has(data, r.request, r.registered) /\ FileHas(r.request, r.registered)
      BY <1>3, <2>1 DEF RegistryInv, ResponsesAreKept
    <3>2. r.registered <= acked'
      <4>1. acked \in Nat /\ acked' \in Nat /\ acked <= acked'
        <5>1. acked \in Nat
          BY <1>1, VersionFacts
        <5>2. StoreTypeOK'
          BY <1>2 DEF StoreInv
        <5>3. acked' \in Nat
          BY ONLY <5>2, PersistBoundsAssumption DEF StoreTypeOK
        <5> QED BY <1>3, <5>1, <5>3
      <4>2. r.registered \in Nat /\ r.registered <= acked
        BY ONLY <3>1
      <4> QED BY ONLY <4>1, <4>2
    <3> QED BY <3>1, <3>2, <1>6
  <2> QED BY <1>1, <1>3, <2>1 DEF ResponsesAreKept, FileHas, Has
<1>9. AnswerIsOwnOrNewer'
  BY <1>1 DEF RegistryInv, AnswerIsOwnOrNewer
<1> QED BY <1>2, <1>5, <1>7, <1>8, <1>9 DEF RegistryInv

(* The answer looks the name up again: it finds this one or a newer one. *)
LEMMA RespondKeepsInv ==
  ASSUME RegistryInv, NEW h \in Handlers, Respond(h)
  PROVE  RegistryInv'
<1> DEFINE found == IF Lower(request[h].username) \in DOMAIN data
                    THEN {resolve(request[h].username)} ELSE {}
           new == [request |-> request[h], registered |-> mine[h], saved |-> mine[h] <= acked,
                   answer |-> found]
<1>1. /\ process = "running" /\ request[h] # <<>> /\ responses' = responses \cup {new}
      /\ request' = [request EXCEPT ![h] = <<>>] /\ UNCHANGED store
  BY DEF Respond
<1>2. StoreInv'
  BY <1>1, StutterKeepsStore DEF RegistryInv
<1>3. UNCHANGED <<data, inodes, path, process, mine, acked, version>>
  BY <1>1 DEF store
<1>4. DataIsRegistry'
  BY <1>3 DEF RegistryInv, DataIsRegistry, IsRegistry
<1>5. RequestsAreKept'
  <2>1. request' \in [Handlers -> {<<>>} \cup Request]
    BY <1>1 DEF RegistryInv, RequestsAreKept
  <2>2. \A g \in Handlers : request'[g] # <<>> => request'[g] = request[g]
    BY <1>1 DEF RegistryInv, RequestsAreKept
  <2>3. \A g \in Handlers : request[g] # <<>> =>
          /\ process = "running" /\ mine[g] \in 1..MaxVersion
          /\ Has(data, request[g], mine[g]) /\ FileHas(request[g], mine[g])
    BY DEF RegistryInv, RequestsAreKept
  <2>4. ASSUME NEW g \in Handlers, request'[g] # <<>>
        PROVE  /\ process' = "running" /\ mine'[g] \in 1..MaxVersion
               /\ Has(data', request'[g], mine'[g]) /\ FileHas(request[g], mine[g])'
    <3>1. request'[g] = request[g] /\ request[g] # <<>> /\ mine'[g] = mine[g]
      BY <1>3, <2>2, <2>4
    <3>2. /\ process = "running" /\ mine[g] \in 1..MaxVersion
          /\ Has(data, request[g], mine[g]) /\ FileHas(request[g], mine[g])
      BY ONLY <2>3, <3>1
    <3>3. Has(data', request'[g], mine'[g])
      BY ONLY <1>3, <3>1, <3>2
    <3>4. FileHas(request[g], mine[g])'
      BY ONLY <1>3, <3>1, <3>2 DEF FileHas
    <3> QED BY ONLY <1>3, <3>1, <3>2, <3>3, <3>4
  <2> QED BY <2>1, <2>4 DEF RequestsAreKept
<1>6. mine[h] \in 1..MaxVersion /\ Has(data, request[h], mine[h]) /\ FileHas(request[h], mine[h])
  BY <1>1 DEF RegistryInv, RequestsAreKept
<1>7. ResponsesAreKept'
  <2>1. \A r \in responses : r.saved =>
          /\ r.registered \in 1..MaxVersion /\ r.registered <= acked
          /\ Has(data, r.request, r.registered) /\ FileHas(r.request, r.registered)
    BY <1>1 DEF RegistryInv, ResponsesAreKept
  <2>2. new.saved =>
          /\ new.registered \in 1..MaxVersion /\ new.registered <= acked
          /\ Has(data, new.request, new.registered) /\ FileHas(new.request, new.registered)
    BY <1>6
  <2> HIDE DEF new
  <2>3. \A r \in responses' : r.saved =>
          /\ r.registered \in 1..MaxVersion /\ r.registered <= acked
          /\ Has(data, r.request, r.registered) /\ FileHas(r.request, r.registered)
    BY <1>1, <2>1, <2>2
  <2> QED BY <1>3, <2>3 DEF ResponsesAreKept, FileHas, Has
<1>8. AnswerIsOwnOrNewer'
  <2>1. \E reg \in new.answer :
          /\ reg.registered_at >= new.registered
          /\ reg.registered_at = new.registered => reg.utxo_address = new.request.utxo_address
    BY <1>6 DEF Has, resolve
  <2> HIDE DEF new
  <2> QED BY <1>1, <2>1 DEF RegistryInv, AnswerIsOwnOrNewer
<1> QED BY <1>2, <1>4, <1>5, <1>7, <1>8 DEF RegistryInv

(* A crash forgets the requests, a restart reads the file. *)
LEMMA RegistryRestartKeepsInv ==
  ASSUME RegistryInv, RegistryRestart
  PROVE  RegistryInv'
<1>1. (Crash \/ Restart(Empty)) /\ request' = [h \in Handlers |-> <<>>] /\ UNCHANGED responses
  BY DEF RegistryRestart
<1>2. StoreInv /\ StoreInv'
  BY <1>1, CrashKeepsStore, RestartKeepsStore DEF RegistryInv
<1>3. UNCHANGED <<inodes, path, acked>>
  BY <1>1 DEF Crash, Restart
<1>4. RequestsAreKept'
  BY <1>1 DEF RequestsAreKept
<1>5. AnswerIsOwnOrNewer'
  BY <1>1 DEF RegistryInv, AnswerIsOwnOrNewer
<1>6. IsRegistry(Empty)
  BY DEF IsRegistry, Empty
<1>7. CASE Crash
  <2>1. process' # "running" /\ UNCHANGED data
    BY <1>7 DEF Crash
  <2>2. DataIsRegistry'
    BY <1>3, <2>1 DEF RegistryInv, DataIsRegistry, IsRegistry
  <2>3. ResponsesAreKept'
    BY <1>1, <1>3, <2>1 DEF RegistryInv, ResponsesAreKept, FileHas, Has
  <2> QED BY <1>2, <1>4, <1>5, <2>2, <2>3 DEF RegistryInv
<1>8. CASE Restart(Empty)
  <2>1. /\ process' = "running" =>
              \/ path = 0 /\ data' = Empty /\ acked = 0
              \/ /\ path # 0 /\ inodes[path][1] # Hole /\ data' = inodes[path][1].data
                 /\ acked <= inodes[path][1].version
    BY <1>2, <1>8, RestartFacts
  <2>2. process' = "running" \/ data' = data
    BY <1>8 DEF Restart
  <2>3. path # 0 => path \in Inodes
    BY <1>2, VersionFacts
  <2>4. IsRegistry(data')
    BY <1>6, <2>1, <2>2, <2>3 DEF RegistryInv, DataIsRegistry
  <2>5. DataIsRegistry'
    BY <1>3, <2>4 DEF RegistryInv, DataIsRegistry, IsRegistry
  <2>6. ASSUME NEW r \in responses, r.saved, process' = "running"
        PROVE  Has(data', r.request, r.registered)
    <3>1. r.registered \in 1..MaxVersion /\ r.registered <= acked /\ FileHas(r.request, r.registered)
      BY <2>6 DEF RegistryInv, ResponsesAreKept
    <3>2. acked \in Nat /\ acked # 0
      BY <1>2, <3>1, VersionFacts
    <3>3. path # 0 /\ inodes[path][1] # Hole /\ data' = inodes[path][1].data
          /\ acked <= inodes[path][1].version
      BY <2>1, <2>6, <3>2
    <3>4. inodes[path][1].version \in Nat
      BY <1>2, <2>3, <3>3, VersionFacts
    <3>5. inodes[path][1].version >= r.registered
      BY <3>1, <3>2, <3>3, <3>4
    <3> QED BY <3>1, <3>3, <3>5 DEF FileHas
  <2>7. \A r \in responses : r.saved =>
          r.registered \in 1..MaxVersion /\ r.registered <= acked /\ FileHas(r.request, r.registered)
    BY DEF RegistryInv, ResponsesAreKept
  <2>8. ResponsesAreKept'
    BY <1>1, <1>3, <2>6, <2>7 DEF ResponsesAreKept, FileHas, Has
  <2> QED BY <1>2, <1>4, <1>5, <2>5, <2>8 DEF RegistryInv
<1> QED BY <1>1, <1>7, <1>8

----------------------------------------------------------------------------
(* The registry's invariant: what it was asked to register it has, in      *)
(* memory and in what it saved, through errors, crashes and restarts.      *)
THEOREM RegistryInvHolds == RegistrySpec => []RegistryInv
<1>1. RegistryInit => RegistryInv
  <2> SUFFICES ASSUME RegistryInit PROVE RegistryInv
    OBVIOUS
  <2>1. StoreInv
    BY NewStore DEF RegistryInit
  <2>2. \A i \in Inodes, k \in 1..2 : inodes[i][k] = Hole
    BY DEF RegistryInit, StoreInit, Blank
  <2>3. DataIsRegistry
    BY <2>2 DEF RegistryInit, StoreInit, DataIsRegistry, IsRegistry, Empty
  <2>4. RequestsAreKept /\ ResponsesAreKept /\ AnswerIsOwnOrNewer
    BY DEF RegistryInit, RequestsAreKept, ResponsesAreKept, AnswerIsOwnOrNewer
  <2> QED BY <2>1, <2>3, <2>4 DEF RegistryInv
<1>2. RegistryInv /\ [RegistryNext]_registryVars => RegistryInv'
  <2> SUFFICES ASSUME RegistryInv, [RegistryNext]_registryVars PROVE RegistryInv'
    OBVIOUS
  <2>1. CASE UNCHANGED registryVars
    <3>1. UNCHANGED store /\ UNCHANGED <<request, responses, data, inodes, path, process, mine, acked>>
      BY <2>1 DEF registryVars, store
    <3>2. StoreInv'
      BY <3>1, StutterKeepsStore DEF RegistryInv
    <3>3. DataIsRegistry'
      BY <3>1 DEF RegistryInv, DataIsRegistry, IsRegistry
    <3>4. RequestsAreKept'
      BY <3>1 DEF RegistryInv, RequestsAreKept, FileHas, Has
    <3>5. ResponsesAreKept' /\ AnswerIsOwnOrNewer'
      BY <3>1 DEF RegistryInv, ResponsesAreKept, FileHas, Has, AnswerIsOwnOrNewer
    <3> QED BY <3>2, <3>3, <3>4, <3>5 DEF RegistryInv
  <2> QED BY <2>1, RegisterKeepsInv, RegistrySaveKeepsInv, RespondKeepsInv, RegistryRestartKeepsInv DEF RegistryNext
<1> QED BY <1>1, <1>2, PTL DEF RegistrySpec

(* Type correctness of the registry and its store.                         *)
THEOREM RegistryTypeCorrect == RegistrySpec => []RegistryTypeOK
<1>1. RegistryInv => RegistryTypeOK
  BY DEF RegistryInv, StoreInv, DataIsRegistry, IsRegistry, RequestsAreKept, RegistryTypeOK
<1> QED BY <1>1, RegistryInvHolds, PTL

(* An answer is about the requested registration or a newer one, although  *)
(* it is looked up after the lock was given up (register_address).         *)
THEOREM AnswersAreOwnOrNewer == RegistrySpec => []AnswerIsOwnOrNewer
<1>1. RegistryInv => AnswerIsOwnOrNewer
  BY DEF RegistryInv
<1> QED BY <1>1, RegistryInvHolds, PTL

(* No restart loses a registration whose save had succeeded.               *)
THEOREM SavedSurvives == RegistrySpec => SavedRegistrationSurvives
<1> DEFINE Survives ==
      process = "down" /\ process' = "running" =>
        \A r \in responses : r.saved =>
          /\ Lower(r.request.username) \in DOMAIN data'
          /\ data'[Lower(r.request.username)].registered_at >= r.registered
<1>1. RegistryInv /\ RegistryInv' /\ [RegistryNext]_registryVars => Survives
  <2> SUFFICES ASSUME RegistryInv', [RegistryNext]_registryVars, process = "down", process' = "running",
                      NEW r \in responses, r.saved
               PROVE  Has(data', r.request, r.registered)
    BY DEF Has
  <2>1. responses \subseteq responses'
    BY DEF RegistryNext, registryVars, Register, RegistrySave, Respond, RegistryRestart
  <2>2. r \in responses'
    BY <2>1
  <2> QED BY <2>2 DEF RegistryInv, ResponsesAreKept, Has
<1>2. RegistrySpec => [][Survives]_registryVars
  BY <1>1, RegistryInvHolds, PTL DEF RegistrySpec
<1> QED BY <1>2 DEF SavedRegistrationSurvives

----------------------------------------------------------------------------
(* NoteStore: the notes a store keeps.                                     *)
(* The ids of a store. *)
LEMMA IdsFacts ==
  ASSUME NEW notes, NEW x
  PROVE  x \in Ids(notes) <=> \E t \in DOMAIN notes : \E i \in 1..Len(notes[t]) : notes[t][i].id = x
BY DEF Ids, Notes

(* The parts of the invariant in the next state, said of its variables. *)
LEMMA NotesAreQueuesNext ==
  ASSUME IsNotes(data', next_id' - 1),
         \A i \in Inodes, k \in 1..2 :
           inodes'[i][k] # Hole => IsNotes(inodes'[i][k].data, next_id' - 1)
  PROVE  NotesAreQueues'
<1>1. IsNotes(data, next_id - 1)'
  BY DEF IsNotes, AreQueues
<1>2. \A i \in Inodes, k \in 1..2 :
        inodes'[i][k] # Hole => IsNotes(inodes[i][k].data, next_id - 1)'
  BY DEF IsNotes, AreQueues
<1> QED BY <1>1, <1>2 DEF NotesAreQueues

LEMMA DeletedAreOutNext ==
  ASSUME process' = "running" =>
           gone' \cap Ids(data') = {} /\ \A h \in Handlers : deleting'[h] \notin Ids(data'),
         path' # 0 => \A k \in 1..2 :
           inodes'[path'][k] # Hole => gone' \cap Ids(inodes'[path'][k].data) = {}
  PROVE  DeletedAreOut'
BY DEF DeletedAreOut, Ids, Notes

(* What it means to be the notes of a store. *)
LEMMA IsNotesFacts ==
  ASSUME NEW last, NEW notes, IsNotes(notes, last)
  PROVE  /\ AreQueues(notes, [id : 1..last]) /\ DOMAIN notes \subseteq Tags
         /\ \A t \in DOMAIN notes : /\ notes[t] \in Seq([id : 1..last]) /\ Len(notes[t]) \in 1..MaxNotes
                                    /\ \A i \in 1..Len(notes[t]) : notes[t][i] \in [id : 1..last]
         /\ Ids(notes) \subseteq 1..last
<1> DEFINE N == [id : 1..last]
<1>1. AreQueues(notes, N)
  BY DEF IsNotes
<1> HIDE DEF N
<1>2. /\ DOMAIN notes \subseteq Tags
      /\ \A t \in DOMAIN notes : /\ notes[t] \in Seq(N) /\ Len(notes[t]) \in 1..MaxNotes
                                 /\ \A i \in 1..Len(notes[t]) : notes[t][i] \in N
  BY <1>1 DEF AreQueues
<1>3. \A n \in N : n.id \in 1..last
  BY DEF N
<1>4. Ids(notes) \subseteq 1..last
  BY <1>2, <1>3, IdsFacts
<1> QED BY <1>1, <1>2, <1>4 DEF N

(* It stays so when more notes are uploaded. *)
LEMMA LaterNotes ==
  ASSUME NEW last \in Int, NEW later \in Int, last <= later, NEW notes, IsNotes(notes, last)
  PROVE  IsNotes(notes, later)
<1> DEFINE N == [id : 1..last]
           M == [id : 1..later]
<1>1. N \subseteq M
  OBVIOUS
<1>2. AreQueues(notes, N)
  BY DEF IsNotes
<1> HIDE DEF N, M
<1>3. \A s \in Seq(N) : s \in Seq(M)
  <2> SUFFICES ASSUME NEW s \in Seq(N) PROVE s \in Seq(M)
    OBVIOUS
  <2>1. Len(s) \in Nat /\ s \in [1..Len(s) -> M]
    BY <1>1
  <2> QED BY <2>1
<1>4. AreQueues(notes, M)
  BY <1>2, <1>3 DEF AreQueues
<1> QED BY <1>4 DEF IsNotes, M

(* The notes of a store after an upload, which has a new id. *)
LEMMA UploadNotes ==
  ASSUME NEW last \in Nat, NEW notes, IsNotes(notes, last), NEW tag \in Tags,
         NEW new, new = insert(notes, tag, [id |-> last + 1])
  PROVE  IsNotes(new, last + 1) /\ Ids(new) \subseteq Ids(notes) \cup {last + 1}
<1> DEFINE M == [id : 1..(last + 1)]
           note == [id |-> last + 1]
           old == QueueOf(notes, tag)
<1>1. IsNotes(notes, last + 1) /\ Ids(notes) \subseteq 1..last
  <2>1. last \in Int /\ last + 1 \in Int /\ last <= last + 1
    OBVIOUS
  <2> QED BY <2>1, LaterNotes, IsNotesFacts
<1>2. AreQueues(notes, M) /\ note \in M /\ note.id = last + 1
  BY <1>1 DEF IsNotes
<1> HIDE DEF M, note
<1>3. new = insert(notes, tag, note)
  BY DEF note
<1>4. /\ AreQueues(new, M) /\ DOMAIN new = DOMAIN notes \cup {tag}
      /\ \A t \in DOMAIN notes : t # tag => new[t] = notes[t]
      /\ \E d \in 0..1 : (d = 1 => Len(old) = MaxNotes) /\ Shifted(d, new[tag], old, note)
  <2>1. AreQueues(new, M) /\ Inserted(new, notes, tag, note)
    BY <1>2, <1>3, InsertFacts
  <2> QED BY <2>1 DEF Inserted
<1>5. old \in Seq(M)
  BY <1>2, QueueOfFacts
<1>6. tag \in DOMAIN notes => old = notes[tag]
  BY DEF QueueOf
<1>7. tag \notin DOMAIN notes => Len(old) = 0
  BY DEF QueueOf
<1> HIDE DEF old
<1>8. ASSUME NEW i \in 1..Len(new[tag])
      PROVE  \/ new[tag][i].id = last + 1
             \/ tag \in DOMAIN notes /\ \E j \in 1..Len(notes[tag]) : new[tag][i] = notes[tag][j]
  <2>1. PICK d \in 0..1 : Shifted(d, new[tag], old, note)
    BY <1>4
  <2>2. Len(old) \in Nat /\ (i = Len(new[tag]) \/ i \in 1..(Len(old) - d))
    BY <1>5, <2>1 DEF Shifted
  <2>3. CASE i = Len(new[tag])
    BY <1>2, <2>1, <2>3 DEF Shifted
  <2>4. CASE i \in 1..(Len(old) - d)
    <3>1. i + d \in 1..Len(old) /\ new[tag][i] = old[i + d]
      BY <2>1, <2>4 DEF Shifted
    <3>2. tag \in DOMAIN notes
      BY <1>7, <3>1
    <3> QED BY <1>6, <3>1, <3>2
  <2> QED BY <2>2, <2>3, <2>4
<1>9. ASSUME NEW t \in DOMAIN new, NEW i \in 1..Len(new[t])
      PROVE  \/ t = tag /\ new[t][i].id = last + 1
             \/ t \in DOMAIN notes /\ \E j \in 1..Len(notes[t]) : new[t][i] = notes[t][j]
  <2>1. CASE t = tag
    BY ONLY <1>8, <1>9, <2>1
  <2>2. CASE t # tag
    <3>1. t \in DOMAIN notes /\ new[t] = notes[t]
      BY ONLY <1>4, <1>9, <2>2
    <3> QED BY ONLY <1>9, <3>1
  <2> QED BY ONLY <2>1, <2>2
<1>10. Ids(new) \subseteq Ids(notes) \cup {last + 1}
  BY <1>9, IdsFacts
<1>11. ASSUME NEW t \in DOMAIN new, NEW u \in DOMAIN new,
              NEW i \in 1..Len(new[t]), NEW j \in 1..Len(new[u]), new[t][i].id = new[u][j].id
       PROVE  t = u
  <2>1. \A v \in DOMAIN notes : \A k \in 1..Len(notes[v]) : notes[v][k].id \in 1..last
    BY <1>1, IdsFacts
  <2>2. last + 1 \notin 1..last
    OBVIOUS
  <2>3. \A v, w \in DOMAIN notes : \A k \in 1..Len(notes[v]), l \in 1..Len(notes[w]) :
          notes[v][k].id = notes[w][l].id => v = w
    BY DEF IsNotes
  <2>4. \/ t = tag /\ new[t][i].id = last + 1
        \/ t \in DOMAIN notes /\ \E k \in 1..Len(notes[t]) : new[t][i] = notes[t][k]
    BY <1>9
  <2>5. \/ u = tag /\ new[u][j].id = last + 1
        \/ u \in DOMAIN notes /\ \E k \in 1..Len(notes[u]) : new[u][j] = notes[u][k]
    BY <1>9
  <2>6. CASE t \in DOMAIN notes /\ \E k \in 1..Len(notes[t]) : new[t][i] = notes[t][k]
    <3>1. new[t][i].id \in 1..last
      BY ONLY <2>1, <2>6
    <3>2. CASE new[u][j].id = last + 1
      BY ONLY <1>11, <2>2, <3>1, <3>2
    <3>3. CASE u \in DOMAIN notes /\ \E k \in 1..Len(notes[u]) : new[u][j] = notes[u][k]
      BY ONLY <1>11, <2>3, <2>6, <3>3
    <3> QED BY ONLY <2>5, <3>2, <3>3
  <2>7. CASE t = tag /\ new[t][i].id = last + 1
    <3>1. CASE u = tag
      BY ONLY <2>7, <3>1
    <3>2. CASE u \in DOMAIN notes /\ \E k \in 1..Len(notes[u]) : new[u][j] = notes[u][k]
      <4>1. new[u][j].id \in 1..last
        BY ONLY <2>1, <3>2
      <4> QED BY ONLY <1>11, <2>2, <2>7, <4>1
    <3> QED BY ONLY <2>5, <3>1, <3>2
  <2> QED BY ONLY <2>4, <2>6, <2>7
<1> QED BY <1>4, <1>10, <1>11 DEF IsNotes, M

(* All notes of a store but the oldest of full queues are still there. *)
YoungerKept(notes, new) ==
  \A t \in DOMAIN notes : \A i \in 1..Len(notes[t]) :
    notes[t][i] \in Notes(new) \/ (i = 1 /\ Len(notes[t]) = MaxNotes)

(* What an upload drops (insert). *)
LEMMA UploadEvicts ==
  ASSUME NEW M, NEW notes, AreQueues(notes, M), NEW tag \in Tags, NEW note \in M,
         NEW new, new = insert(notes, tag, note)
  PROVE  YoungerKept(notes, new)
<1> DEFINE old == QueueOf(notes, tag)
<1>1. /\ AreQueues(new, M) /\ DOMAIN new = DOMAIN notes \cup {tag}
      /\ \A t \in DOMAIN notes : t # tag => new[t] = notes[t]
      /\ \E d \in 0..1 : (d = 1 => Len(old) = MaxNotes) /\ Shifted(d, new[tag], old, note)
  <2>1. AreQueues(new, M) /\ Inserted(new, notes, tag, note)
    BY InsertFacts
  <2> QED BY <2>1 DEF Inserted
<1>2. tag \in DOMAIN notes => old = notes[tag] /\ notes[tag] \in Seq(M)
  BY DEF QueueOf, AreQueues
<1> HIDE DEF old
<1> SUFFICES ASSUME NEW t \in DOMAIN notes, NEW i \in 1..Len(notes[t])
             PROVE  notes[t][i] \in Notes(new) \/ (i = 1 /\ Len(notes[t]) = MaxNotes)
  BY DEF YoungerKept
<1>3. CASE t # tag
  BY <1>1, <1>3 DEF Notes
<1>4. CASE t = tag
  <2>1. PICK d \in 0..1 : (d = 1 => Len(old) = MaxNotes) /\ Shifted(d, new[tag], old, note)
    BY <1>1
  <2>2. old = notes[tag] /\ Len(old) \in Nat /\ i \in 1..Len(old)
    BY <1>2, <1>4
  <2>3. CASE i = 1 /\ d = 1
    BY <1>4, <2>1, <2>2, <2>3
  <2>4. CASE i - d \in 1..(Len(old) - d)
    <3>1. (i - d) + d = i /\ Len(new[tag]) = Len(old) - d + 1
      BY <2>1, <2>2 DEF Shifted
    <3>2. new[tag][i - d] = old[i] /\ i - d \in 1..Len(new[tag])
      BY <2>1, <2>2, <2>4, <3>1 DEF Shifted
    <3> QED BY <1>1, <1>4, <2>2, <3>2 DEF Notes
  <2>5. (i = 1 /\ d = 1) \/ i - d \in 1..(Len(old) - d)
    BY <2>2
  <2> QED BY <2>3, <2>4, <2>5
<1> QED BY <1>3, <1>4

(* All notes of a store but the one with that id are still there. *)
OthersKept(notes, new, id) ==
  \A t \in DOMAIN notes : \A i \in 1..Len(notes[t]) :
    notes[t][i].id = id \/ notes[t][i] \in Notes(new)

(* The notes of a store after a deletion (delete_note). *)
LEMMA DeleteNotes ==
  ASSUME NEW last \in Nat, NEW notes, IsNotes(notes, last), NEW tag \in Tags, NEW id,
         NEW new, new = delete_note(notes, tag, id).notes, delete_note(notes, tag, id).deleted
  PROVE  IsNotes(new, last) /\ Ids(new) \subseteq Ids(notes) \ {id}
         /\ id \in Ids(notes)
         /\ OthersKept(notes, new, id)
<1> DEFINE N == [id : 1..last]
           old == QueueOf(notes, tag)
           left == QueueOf(new, tag)
           keep == Others(old, id)
<1>1. AreQueues(notes, N)
  BY DEF IsNotes
<1> HIDE DEF N
<1>2. /\ AreQueues(new, N) /\ left \in Seq(N)
      /\ \A t \in Tags \ {tag} : (t \in DOMAIN new <=> t \in DOMAIN notes)
                               /\ (t \in DOMAIN notes => new[t] = notes[t])
      /\ \E pos : Selects(pos, left, old, keep)
      /\ \E i \in 1..Len(old) : old[i].id = id
  <2>1. old = QueueOf(notes, tag) /\ left = QueueOf(new, tag)
    OBVIOUS
  <2> HIDE DEF old, left
  <2> QED BY <1>1, <2>1, DeleteFacts
<1>3. /\ tag \in DOMAIN notes => old = notes[tag]
      /\ tag \notin DOMAIN notes => 1..Len(old) = {}
      /\ tag \in DOMAIN new => left = new[tag]
      /\ tag \notin DOMAIN new => 1..Len(left) = {}
  BY DEF QueueOf
<1>4. DOMAIN notes \subseteq Tags /\ DOMAIN new \subseteq Tags
  BY <1>1, <1>2 DEF AreQueues
<1> HIDE DEF old, left
<1>5. tag \in DOMAIN notes /\ id \in Ids(notes)
  BY <1>2, <1>3, IdsFacts
<1>6. ASSUME NEW i \in 1..Len(left)
      PROVE  \E j \in 1..Len(old) : left[i] = old[j] /\ old[j].id # id
  BY <1>2 DEF Selects, Others
<1>7. ASSUME NEW i \in 1..Len(old), old[i].id # id
      PROVE  \E k \in 1..Len(left) : left[k] = old[i]
  BY <1>2, <1>7 DEF Selects, Others
<1>8. PICK n \in 1..Len(notes[tag]) : notes[tag][n].id = id
  BY <1>2, <1>3, <1>5
<1>9. ASSUME NEW t \in DOMAIN new, NEW i \in 1..Len(new[t])
      PROVE  t \in DOMAIN notes /\ \E j \in 1..Len(notes[t]) : new[t][i] = notes[t][j] /\ notes[t][j].id # id
  <2>1. CASE t = tag
    <3>1. left = new[tag] /\ old = notes[tag] /\ i \in 1..Len(left)
      BY <2>1, <1>3, <1>5, <1>9
    <3>2. PICK j \in 1..Len(old) : left[i] = old[j] /\ old[j].id # id
      BY <1>6, <3>1
    <3> QED BY <2>1, <1>5, <3>1, <3>2
  <2>2. CASE t # tag
    <3>1. t \in DOMAIN notes /\ new[t] = notes[t]
      BY <2>2, <1>2, <1>4
    <3>2. notes[t][i].id # id
      BY <2>2, <3>1, <1>5, <1>8 DEF IsNotes
    <3> QED BY <3>1, <3>2
  <2> QED BY <2>1, <2>2
<1>10. Ids(new) \subseteq Ids(notes) \ {id}
  BY <1>9, IdsFacts
<1>11. IsNotes(new, last)
  <2>0. \A v, w \in DOMAIN notes : \A k \in 1..Len(notes[v]), l \in 1..Len(notes[w]) :
          notes[v][k].id = notes[w][l].id => v = w
    BY DEF IsNotes
  <2>1. ASSUME NEW t \in DOMAIN new, NEW u \in DOMAIN new,
               NEW i \in 1..Len(new[t]), NEW j \in 1..Len(new[u]), new[t][i].id = new[u][j].id
        PROVE  t = u
    <3>1. t \in DOMAIN notes /\ \E k \in 1..Len(notes[t]) : new[t][i] = notes[t][k]
      BY <1>9
    <3>2. u \in DOMAIN notes /\ \E k \in 1..Len(notes[u]) : new[u][j] = notes[u][k]
      BY <1>9
    <3> QED BY <2>0, <2>1, <3>1, <3>2
  <2> QED BY <1>2, <2>1 DEF IsNotes, N
<1>12. ASSUME NEW t \in DOMAIN notes, NEW i \in 1..Len(notes[t]), notes[t][i].id # id
       PROVE  notes[t][i] \in Notes(new)
  <2>1. CASE t # tag
    BY <2>1, <1>2, <1>4 DEF Notes
  <2>2. CASE t = tag
    <3>1. PICK k \in 1..Len(left) : left[k] = notes[t][i]
      BY <2>2, <1>3, <1>7, <1>12
    <3>2. tag \in DOMAIN new /\ left = new[tag]
      BY <1>3, <3>1
    <3> QED BY <2>2, <3>1, <3>2 DEF Notes
  <2> QED BY <2>1, <2>2
<1>13. OthersKept(notes, new, id)
  BY <1>12 DEF OthersKept
<1> QED BY <1>5, <1>10, <1>11, <1>13

(* What the invariant says of the numbers. *)
LEMMA NextIdFacts ==
  ASSUME NoteStoreInv
  PROVE  /\ next_id \in Nat /\ next_id - 1 \in Nat /\ version \in Nat /\ crashes \in Nat /\ MaxVersion \in Nat
         /\ crashes * MaxVersion \in Nat
         /\ path # 0 => path \in Inodes
         /\ StoreInv /\ IsNotes(data, next_id - 1)
<1>1. version \in 0..MaxVersion /\ crashes \in 0..MaxCrashes /\ MaxVersion \in Nat /\ MaxCrashes \in Nat
  BY PersistBoundsAssumption DEF NoteStoreInv, StoreInv, StoreTypeOK
<1>2. crashes * MaxVersion \in Nat
  BY <1>1
<1>3. next_id \in 1..(1 + crashes * MaxVersion + IF process = "running" THEN version ELSE 0)
  BY DEF NoteStoreInv, IdsAreUploaded
<1>4. next_id \in Nat /\ next_id - 1 \in Nat
  BY <1>1, <1>2, <1>3
<1> QED BY <1>1, <1>2, <1>4 DEF NoteStoreInv, StoreInv, StoreTypeOK, NotesAreQueues

(* An upload. *)
LEMMA UploadKeepsInv ==
  ASSUME NoteStoreInv, NEW h \in Handlers, NEW tag \in Tags, upload_note(h, tag)
  PROVE  NoteStoreInv'
<1> USE DEF NoteStoreInv
<1> DEFINE last == next_id - 1
           new == insert(data, tag, [id |-> last + 1])
<1>1. last \in Nat /\ next_id = last + 1 /\ IsNotes(data, last) /\ version \in Nat
      /\ crashes * MaxVersion \in Nat
  BY NextIdFacts
<1>2. /\ Change(h, new) /\ next_id' = next_id + 1 /\ UNCHANGED <<deleting, gone>>
  BY <1>1 DEF upload_note
<1>3. StoreInv'
  BY <1>2, ChangeKeepsStore
<1>4. /\ process = "running" /\ data' = new /\ version' = version + 1
      /\ UNCHANGED <<inodes, path, process, crashes>>
  BY <1>2 DEF Change
<1>5. next_id' - 1 = last + 1
  BY <1>1, <1>2
<1>6. IsNotes(data', last + 1) /\ Ids(data') \subseteq Ids(data) \cup {last + 1}
  BY <1>1, <1>4, UploadNotes
<1> HIDE DEF last, new
<1>7. NotesAreQueues'
  <2>1. \A notes : IsNotes(notes, last) => IsNotes(notes, last + 1)
    <3>1. last \in Int /\ last + 1 \in Int /\ last <= last + 1
      BY <1>1
    <3> QED BY <3>1, LaterNotes
  <2>2. \A i \in Inodes, k \in 1..2 : inodes'[i][k] # Hole => IsNotes(inodes'[i][k].data, last + 1)
    BY <1>4, <2>1 DEF NotesAreQueues, last
  <2> QED BY ONLY <1>5, <1>6, <2>2, NotesAreQueuesNext
<1>8. IdsAreUploaded'
  <2>1. next_id \in 1..(1 + crashes * MaxVersion + version)
    BY <1>4 DEF IdsAreUploaded
  <2>2. next_id' \in 1..(1 + crashes * MaxVersion + version')
    BY <1>1, <1>2, <1>4, <2>1
  <2>3. gone \subseteq 1..last /\ deleting \in [Handlers -> 0..last]
    BY DEF IdsAreUploaded, last
  <2>4. 1..last \subseteq 1..(last + 1) /\ 0..last \subseteq 0..(last + 1)
    BY <1>1
  <2>5. gone' \subseteq 1..(next_id' - 1) /\ deleting' \in [Handlers -> 0..(next_id' - 1)]
    BY <1>2, <1>5, <2>3, <2>4
  <2> QED BY <1>4, <2>2, <2>5 DEF IdsAreUploaded
<1>9. DeletedAreOut'
  <2>1. gone \subseteq 1..last /\ \A g \in Handlers : deleting[g] \in 0..last
    BY DEF IdsAreUploaded, last
  <2>2. last + 1 \notin gone /\ \A g \in Handlers : deleting[g] # last + 1
    BY <1>1, <2>1
  <2>3. gone \cap Ids(data') = {} /\ \A g \in Handlers : deleting[g] \notin Ids(data')
    BY <1>4, <1>6, <2>2 DEF DeletedAreOut
  <2>4. path # 0 => \A k \in 1..2 : inodes[path][k] # Hole => gone \cap Ids(inodes[path][k].data) = {}
    BY DEF DeletedAreOut
  <2> QED BY ONLY <1>2, <1>4, <2>3, <2>4, DeletedAreOutNext
<1> QED BY <1>3, <1>7, <1>8, <1>9

(* A deletion: the note leaves the memory before its handler saves. *)
LEMMA DeleteKeepsInv ==
  ASSUME NoteStoreInv, NEW h \in Handlers, NEW tag \in Tags, NEW id, DeleteNote(h, tag, id)
  PROVE  NoteStoreInv'
<1> USE DEF NoteStoreInv
<1> DEFINE last == next_id - 1
           new == delete_note(data, tag, id).notes
<1>1. last \in Nat /\ IsNotes(data, last) /\ version \in Nat /\ crashes * MaxVersion \in Nat
      /\ next_id \in Nat
  BY NextIdFacts
<1>2. /\ delete_note(data, tag, id).deleted /\ Change(h, new)
      /\ deleting' = [deleting EXCEPT ![h] = id] /\ UNCHANGED <<next_id, gone>>
  BY DEF DeleteNote
<1>3. StoreInv'
  BY <1>2, ChangeKeepsStore
<1>4. /\ process = "running" /\ data' = new /\ version' = version + 1
      /\ UNCHANGED <<inodes, path, process, crashes>>
  BY <1>2 DEF Change
<1>5. /\ IsNotes(data', last) /\ Ids(data') \subseteq Ids(data) \ {id} /\ id \in Ids(data)
      /\ Ids(data) \subseteq 1..last
  <2>1. Ids(data) \subseteq 1..last
    BY <1>1, IsNotesFacts
  <2>2. data' = delete_note(data, tag, id).notes /\ delete_note(data, tag, id).deleted
    BY <1>2, <1>4
  <2> HIDE DEF last, new
  <2>3. IsNotes(data', last) /\ Ids(data') \subseteq Ids(data) \ {id} /\ id \in Ids(data)
    BY <1>1, <2>2, DeleteNotes
  <2> QED BY <2>1, <2>3
<1>6. deleting \in [Handlers -> 0..last]
  BY DEF IdsAreUploaded
<1> HIDE DEF last, new
<1>7. deleting' \in [Handlers -> 0..last] /\ \A g \in Handlers : deleting'[g] \in {id, deleting[g]}
  BY <1>1, <1>2, <1>5, <1>6
<1>8. NotesAreQueues'
  <2>1. IsNotes(data', next_id' - 1) /\ \A i \in Inodes, k \in 1..2 :
           inodes'[i][k] # Hole => IsNotes(inodes'[i][k].data, next_id' - 1)
    BY <1>2, <1>4, <1>5 DEF NotesAreQueues, last
  <2> QED BY ONLY <2>1, NotesAreQueuesNext
<1>9. IdsAreUploaded'
  <2>1. next_id \in 1..(1 + crashes * MaxVersion + version)
    BY <1>4 DEF IdsAreUploaded
  <2>2. next_id' \in 1..(1 + crashes * MaxVersion + version')
    BY <1>1, <1>2, <1>4, <2>1
  <2> QED BY <1>2, <1>4, <1>7, <2>2 DEF IdsAreUploaded, last
<1>10. DeletedAreOut'
  <2>1. gone \cap Ids(data') = {} /\ \A g \in Handlers : deleting'[g] \notin Ids(data')
    BY <1>4, <1>5, <1>7 DEF DeletedAreOut
  <2>2. path # 0 => \A k \in 1..2 : inodes[path][k] # Hole => gone \cap Ids(inodes[path][k].data) = {}
    BY DEF DeletedAreOut
  <2> QED BY ONLY <1>2, <1>4, <2>1, <2>2, DeletedAreOutNext
<1> QED BY <1>3, <1>8, <1>9, <1>10

(* A step of maybe_persist: what it writes is the memory, from which the   *)
(* note of a deletion is gone.                                             *)
LEMMA SaveKeepsInv ==
  ASSUME NoteStoreInv, NEW h \in Handlers, Save(h)
  PROVE  NoteStoreInv'
<1> USE DEF NoteStoreInv
<1> DEFINE last == next_id - 1
<1>1. last \in Nat /\ IsNotes(data, last) /\ (path # 0 => path \in Inodes)
  BY NextIdFacts
<1>2. PersistStep(h) /\ UNCHANGED next_id
      /\ deleting' = (IF persist'[h] = "idle" THEN [deleting EXCEPT ![h] = 0] ELSE deleting)
      /\ gone' = IF tmp # 0 /\ tmp' = 0 /\ deleting[h] # 0 THEN gone \cup {deleting[h]} ELSE gone
  BY DEF Save
<1>3. StoreInv'
  BY <1>2, PersistStepKeepsStore
<1>4. /\ process = "running" /\ UNCHANGED <<data, version, process, mine>>
      /\ \A i \in Inodes, k \in 1..2 : inodes'[i][k] \in {Hole, Snapshot, inodes[i][k]}
      /\ path' # 0 => \A k \in 1..2 :
           inodes'[path'][k] # Hole =>
             \/ inodes'[path'][k] = Snapshot
             \/ path' = path /\ inodes'[path'][k] = inodes[path][k]
  BY <1>2, PersistStepFacts
<1>5. Snapshot.data = data
  BY SnapshotIsPiece DEF StoreInv
<1>6. crashes' = crashes
  BY <1>2 DEF PersistStep, PersistCreate, PersistWrite, PersistRename, PersistError
<1>7. deleting \in [Handlers -> 0..last] /\ gone \subseteq 1..last
  BY DEF IdsAreUploaded
<1> HIDE DEF last
<1>8. /\ deleting' \in [Handlers -> 0..last] /\ \A g \in Handlers : deleting'[g] \in {0, deleting[g]}
      /\ gone' \subseteq 1..last /\ gone' \subseteq gone \cup {deleting[h]}
  <2>1. 0 \in 0..last /\ \A d \in 0..last : d # 0 => d \in 1..last
    BY <1>1
  <2>2. deleting[h] \in 0..last
    BY <1>7
  <2> QED BY <1>2, <1>7, <2>1, <2>2
<1>9. IsNotes(data', next_id' - 1)
  BY <1>1, <1>2, <1>4 DEF last
<1>10. NotesAreQueues'
  <2>1. \A i \in Inodes, k \in 1..2 : inodes'[i][k] # Hole => IsNotes(inodes'[i][k].data, next_id' - 1)
    BY <1>1, <1>2, <1>4, <1>5 DEF NotesAreQueues, last
  <2>2. IsNotes(data, next_id - 1)' /\ \A i \in Inodes, k \in 1..2 :
           inodes'[i][k] # Hole => IsNotes(inodes[i][k].data, next_id - 1)'
    BY <1>9, <2>1 DEF IsNotes, AreQueues
  <2> QED BY <2>2 DEF NotesAreQueues
<1>11. IdsAreUploaded'
  BY <1>2, <1>4, <1>6, <1>8 DEF IdsAreUploaded, last
<1>12. DeletedAreOut'
  <2>1. gone' \cap Ids(data) = {} /\ \A g \in Handlers : deleting[g] \notin Ids(data)
    BY <1>4, <1>8 DEF DeletedAreOut
  <2>2. 0 \notin Ids(data)
    <3>1. Ids(data) \subseteq 1..last
      BY <1>1, IsNotesFacts
    <3> QED BY <1>1, <3>1
  <2>3. \A g \in Handlers : deleting'[g] \notin Ids(data)
    BY <1>8, <2>1, <2>2
  <2>4. path' # 0 => \A k \in 1..2 : inodes'[path'][k] # Hole => gone' \cap Ids(inodes'[path'][k].data) = {}
    <3> SUFFICES ASSUME path' # 0, NEW k \in 1..2, inodes'[path'][k] # Hole
                 PROVE  gone' \cap Ids(inodes'[path'][k].data) = {}
      OBVIOUS
    <3>1. CASE inodes'[path'][k] = Snapshot
      BY <3>1, <1>5, <2>1
    <3>2. CASE path' = path /\ inodes'[path'][k] = inodes[path][k]
      <4>1. CASE gone' = gone
        BY <3>2, <4>1 DEF DeletedAreOut
      <4>2. CASE gone' # gone
        <5>1. PersistRename(h) /\ tmp # 0
          BY <1>2, <4>2, InodesAssumption DEF PersistStep, PersistCreate, PersistWrite, PersistError, StoreInv, StoreTypeOK
        <5>2. path' = tmp /\ UNCHANGED inodes /\ ~NoReader
          BY <5>1 DEF PersistRename, NoReader, Reading
        <5>3. inodes'[path'][k] = Snapshot
          BY <3>2, <5>1, <5>2 DEF StoreInv, OpenFilesAreCurrent, IsCurrent
        <5> QED BY <5>3, <1>5, <2>1
      <4> QED BY <4>1, <4>2
    <3> QED BY <1>4, <3>1, <3>2
  <2> QED BY ONLY <1>4, <2>1, <2>3, <2>4, DeletedAreOutNext
<1> QED BY <1>3, <1>10, <1>11, <1>12

(* A crash forgets who was deleting, a restart reads the file. *)
LEMMA CrashRestartKeepsInv ==
  ASSUME NoteStoreInv, CrashRestart
  PROVE  NoteStoreInv'
<1> USE DEF NoteStoreInv
<1> DEFINE last == next_id - 1
<1>1. /\ last \in Nat /\ IsNotes(data, last) /\ (path # 0 => path \in Inodes)
      /\ version \in Nat /\ crashes \in Nat /\ MaxVersion \in Nat /\ next_id \in Nat
      /\ crashes * MaxVersion \in Nat /\ version <= MaxVersion
  <2>1. version <= MaxVersion
    BY PersistBoundsAssumption DEF StoreInv, StoreTypeOK
  <2> QED BY <2>1, NextIdFacts
<1>2. /\ Crash \/ Restart(NoNotes)
      /\ deleting' = [h \in Handlers |-> 0] /\ UNCHANGED <<next_id, gone>>
  BY DEF CrashRestart
<1>3. StoreInv'
  BY <1>2, CrashKeepsStore, RestartKeepsStore
<1>4. UNCHANGED <<inodes, path>>
  BY <1>2 DEF Crash, Restart
<1>5. gone' \subseteq 1..(next_id' - 1) /\ deleting' \in [Handlers -> 0..(next_id' - 1)]
      /\ \A h \in Handlers : deleting'[h] = 0
  BY <1>1, <1>2 DEF IdsAreUploaded
<1>6. ASSUME IsNotes(data', last)
      PROVE  NotesAreQueues'
  <2>1. IsNotes(data', next_id' - 1) /\ \A i \in Inodes, k \in 1..2 :
           inodes'[i][k] # Hole => IsNotes(inodes'[i][k].data, next_id' - 1)
    BY <1>2, <1>4, <1>6 DEF NotesAreQueues
  <2> QED BY ONLY <2>1, NotesAreQueuesNext
<1>7. ASSUME process' = "running" => gone \cap Ids(data') = {} /\ 0 \notin Ids(data')
      PROVE  DeletedAreOut'
  <2>1. path' # 0 => \A k \in 1..2 : inodes'[path'][k] # Hole => gone \cap Ids(inodes'[path'][k].data) = {}
    BY <1>4 DEF DeletedAreOut
  <2> QED BY ONLY <1>2, <1>5, <1>7, <2>1, DeletedAreOutNext
<1>8. CASE Crash
  <2>1. process = "running" /\ process' = "down" /\ crashes' = crashes + 1 /\ data' = data
    BY <1>8 DEF Crash
  <2>2. IdsAreUploaded'
    <3>1. next_id \in 1..(1 + crashes * MaxVersion + version)
      BY <2>1 DEF IdsAreUploaded
    <3>2. crashes' * MaxVersion = crashes * MaxVersion + MaxVersion
      BY <1>1, <2>1
    <3>3. next_id' \in 1..(1 + crashes' * MaxVersion + 0)
      BY <1>1, <1>2, <3>1, <3>2
    <3> QED BY <2>1, <3>3, <1>5 DEF IdsAreUploaded
  <2>3. NotesAreQueues' /\ DeletedAreOut'
    BY <1>1, <1>6, <1>7, <2>1
  <2> QED BY <1>3, <2>2, <2>3
<1>9. CASE Restart(NoNotes)
  <2>1. /\ process = "down" /\ crashes' = crashes
        /\ process' = "running" =>
              \/ data' = NoNotes
              \/ path # 0 /\ inodes[path][1] # Hole /\ data' = inodes[path][1].data
        /\ process' # "running" => data' = data
    <3>1. process' = "running" =>
            \/ data' = NoNotes
            \/ path # 0 /\ inodes[path][1] # Hole /\ data' = inodes[path][1].data
      BY <1>9, RestartFacts
    <3> QED BY <1>9, <3>1 DEF Restart
  <2>2. version' \in Nat
    BY <1>3, PersistBoundsAssumption DEF StoreInv, StoreTypeOK
  <2>3. IdsAreUploaded'
    <3>1. next_id \in 1..(1 + crashes * MaxVersion + 0)
      BY <2>1 DEF IdsAreUploaded
    <3> DEFINE more == IF process' = "running" THEN version' ELSE 0
    <3>2. more \in Nat
      BY <2>2
    <3> HIDE DEF more
    <3>3. next_id' \in 1..(1 + crashes' * MaxVersion + more)
      BY <1>1, <1>2, <2>1, <3>1, <3>2
    <3> QED BY <3>3, <1>5 DEF IdsAreUploaded, more
  <2>4. IsNotes(NoNotes, last) /\ Ids(NoNotes) = {}
    <3>1. DOMAIN NoNotes = {} /\ NoNotes = [t \in DOMAIN NoNotes |-> NoNotes[t]]
      BY DEF NoNotes
    <3>2. \A x : x \notin Ids(NoNotes)
      BY <3>1, IdsFacts
    <3> QED BY <3>1, <3>2 DEF IsNotes, AreQueues
  <2>5. IsNotes(data', last)
    BY <1>1, <2>1, <2>4 DEF NotesAreQueues
  <2>6. process' = "running" => gone \cap Ids(data') = {}
    BY <2>1, <2>4 DEF DeletedAreOut
  <2>7. 0 \notin Ids(data')
    <3>1. Ids(data') \subseteq 1..last
      BY <1>1, <2>5, IsNotesFacts
    <3> QED BY <1>1, <3>1
  <2>8. NotesAreQueues'
    BY <1>6, <2>5
  <2>9. DeletedAreOut'
    BY <1>7, <2>6, <2>7
  <2> QED BY <1>3, <2>3, <2>8, <2>9
<1> QED BY <1>2, <1>8, <1>9

(* Every step of the note store keeps its invariant. *)
LEMMA NextKeepsInv ==
  ASSUME NoteStoreInv, [Next]_vars
  PROVE  NoteStoreInv'
<1>1. CASE UNCHANGED vars
  <2>1. UNCHANGED store /\ UNCHANGED <<data, inodes, path, process, version, crashes, next_id, deleting, gone>>
    BY <1>1 DEF vars, store
  <2>2. StoreInv'
    BY <2>1, StutterKeepsStore DEF NoteStoreInv
  <2>3. NotesAreQueues'
    <3>1. IsNotes(data', next_id' - 1) /\ \A i \in Inodes, k \in 1..2 :
             inodes'[i][k] # Hole => IsNotes(inodes'[i][k].data, next_id' - 1)
      BY <2>1 DEF NoteStoreInv, NotesAreQueues
    <3> QED BY ONLY <3>1, NotesAreQueuesNext
  <2>4. IdsAreUploaded'
    BY <2>1 DEF NoteStoreInv, IdsAreUploaded
  <2>5. DeletedAreOut'
    <3>1. DeletedAreOut
      BY DEF NoteStoreInv
    <3>2. /\ process' = "running" => /\ gone' \cap Ids(data') = {}
                                     /\ \A h \in Handlers : deleting'[h] \notin Ids(data')
          /\ path' # 0 => \A k \in 1..2 :
                inodes'[path'][k] # Hole => gone' \cap Ids(inodes'[path'][k].data) = {}
      BY ONLY <2>1, <3>1 DEF DeletedAreOut
    <3> QED BY ONLY <3>2, DeletedAreOutNext
  <2> QED BY <2>2, <2>3, <2>4, <2>5 DEF NoteStoreInv
<1> QED BY <1>1, UploadKeepsInv, DeleteKeepsInv, SaveKeepsInv, CrashRestartKeepsInv DEF Next

(* The invariant of the note store: queues of uploaded notes in memory and *)
(* in every piece of a file, and no deleted note in what is kept.          *)
THEOREM NoteStoreInvHolds == Spec => []NoteStoreInv
<1>1. Init => NoteStoreInv
  <2> SUFFICES ASSUME Init PROVE NoteStoreInv
    OBVIOUS
  <2>1. StoreInv
    BY NewStore DEF Init
  <2>2. /\ data = NoNotes /\ version = 0 /\ crashes = 0 /\ path = 0 /\ process = "running"
        /\ next_id = 1 /\ gone = {} /\ deleting = [h \in Handlers |-> 0]
        /\ \A i \in Inodes, k \in 1..2 : inodes[i][k] = Hole
    BY DEF Init, StoreInit, Blank
  <2>3. DOMAIN NoNotes = {} /\ NoNotes = [t \in DOMAIN NoNotes |-> NoNotes[t]]
    BY DEF NoNotes
  <2>4. NotesAreQueues
    BY <2>2, <2>3 DEF NotesAreQueues, IsNotes, AreQueues
  <2>5. IdsAreUploaded
    BY <2>2, PersistBoundsAssumption DEF IdsAreUploaded
  <2>6. DeletedAreOut
    <3>1. \A x : x \notin Ids(NoNotes)
      BY <2>3, IdsFacts
    <3> QED BY <2>2, <3>1 DEF DeletedAreOut
  <2> QED BY <2>1, <2>4, <2>5, <2>6 DEF NoteStoreInv
<1> QED BY <1>1, NextKeepsInv, PTL DEF Spec

(* Type correctness of the note store: no queue is empty or over its      *)
(* limit, whatever is uploaded, deleted, saved and read back (insert).    *)
THEOREM NoteStoreTypeCorrect == Spec => []TypeOK
<1>1. NoteStoreInv => TypeOK
  <2> SUFFICES ASSUME NoteStoreInv PROVE TypeOK
    OBVIOUS
  <2>1. StoreTypeOK /\ next_id \in Nat /\ next_id - 1 \in Nat /\ IsNotes(data, next_id - 1)
    BY NextIdFacts DEF NoteStoreInv, StoreInv
  <2>2. DOMAIN data \subseteq Tags /\ \A tag \in DOMAIN data : Len(data[tag]) \in 1..MaxNotes
    BY <2>1 DEF IsNotes, AreQueues
  <2>3. next_id \in 1..(MaxVersion + 1) * (MaxCrashes + 1)
    <3>1. version \in 0..MaxVersion /\ crashes \in 0..MaxCrashes /\ MaxVersion \in Nat /\ MaxCrashes \in Nat
      BY <2>1, PersistBoundsAssumption DEF StoreTypeOK
    <3>2. next_id \in 1..(1 + crashes * MaxVersion + IF process = "running" THEN version ELSE 0)
      BY DEF NoteStoreInv, IdsAreUploaded
    <3>3. next_id <= 1 + crashes * MaxVersion + MaxVersion
      BY <2>1, <3>1, <3>2
    <3>4. crashes * MaxVersion <= MaxCrashes * MaxVersion
      BY <3>1
    <3>5. (MaxVersion + 1) * (MaxCrashes + 1) = MaxCrashes * MaxVersion + MaxVersion + MaxCrashes + 1
      BY <3>1
    <3> QED BY <2>1, <3>1, <3>2, <3>3, <3>4, <3>5
  <2>4. deleting \in [Handlers -> Nat] /\ gone \subseteq Nat
    BY <2>1 DEF NoteStoreInv, IdsAreUploaded
  <2> QED BY <2>1, <2>2, <2>3, <2>4 DEF TypeOK
<1> QED BY <1>1, NoteStoreInvHolds, PTL

(* A note whose deletion was saved and answered never comes back, neither *)
(* in memory nor in the file (delete_note, maybe_persist).                *)
THEOREM DeletionsLast == Spec => []DeletedStaysDeleted
<1>1. NoteStoreInv => DeletedStaysDeleted
  BY DEF NoteStoreInv, DeletedAreOut, DeletedStaysDeleted, Whole
<1> QED BY <1>1, NoteStoreInvHolds, PTL

(* While the process runs, a note leaves memory because it is deleted or  *)
(* because it is the oldest of a full queue when a note arrives (insert). *)
THEOREM EvictionIsFifo == Spec => OnlyOldestEvicted
<1> DEFINE Evicted ==
      process' = "running" /\ process = "running" =>
        \A tag \in DOMAIN data : \A i \in 1..Len(data[tag]) :
          \/ data[tag][i] \in Notes(data')
          \/ i = 1 /\ Len(data[tag]) = MaxNotes /\ next_id' = next_id + 1
          \/ \E h \in Handlers : deleting'[h] = data[tag][i].id
<1>1. NoteStoreInv /\ [Next]_vars => Evicted
  <2> SUFFICES ASSUME NoteStoreInv, [Next]_vars, process = "running", process' = "running",
                      NEW tag \in DOMAIN data, NEW i \in 1..Len(data[tag])
               PROVE  \/ data[tag][i] \in Notes(data')
                      \/ i = 1 /\ Len(data[tag]) = MaxNotes /\ next_id' = next_id + 1
                      \/ \E h \in Handlers : deleting'[h] = data[tag][i].id
    OBVIOUS
  <2> DEFINE last == next_id - 1
             M == [id : 1..(last + 1)]
             note == [id |-> last + 1]
  <2>1. last \in Nat /\ next_id = last + 1 /\ IsNotes(data, last) /\ IsNotes(data, last + 1)
    <3>1. last \in Nat /\ next_id = last + 1 /\ IsNotes(data, last)
      BY NextIdFacts
    <3>2. last \in Int /\ last + 1 \in Int /\ last <= last + 1
      BY <3>1
    <3> HIDE DEF last
    <3> QED BY <3>1, <3>2, LaterNotes
  <2>2. AreQueues(data, M) /\ note \in M
    BY <2>1 DEF IsNotes
  <2>3. CASE data' = data
    BY <2>3 DEF Notes
  <2>4. ASSUME NEW h \in Handlers, NEW t \in Tags, upload_note(h, t)
        PROVE  data[tag][i] \in Notes(data') \/ (i = 1 /\ Len(data[tag]) = MaxNotes /\ next_id' = next_id + 1)
    <3>1. data' = insert(data, t, note) /\ next_id' = next_id + 1
      BY <2>1, <2>4 DEF upload_note, Change
    <3> HIDE DEF last, M, note
    <3>2. YoungerKept(data, data')
      BY <2>2, <3>1, UploadEvicts
    <3> QED BY <3>1, <3>2 DEF YoungerKept
  <2>5. ASSUME NEW h \in Handlers, NEW t \in Tags, NEW id, DeleteNote(h, t, id)
        PROVE  data[tag][i] \in Notes(data') \/ deleting'[h] = data[tag][i].id
    <3>1. /\ delete_note(data, t, id).deleted /\ data' = delete_note(data, t, id).notes
          /\ deleting' = [deleting EXCEPT ![h] = id]
      BY <2>5 DEF DeleteNote, Change
    <3>2. deleting'[h] = id
      BY <3>1 DEF NoteStoreInv, IdsAreUploaded
    <3> HIDE DEF last, M, note
    <3>3. OthersKept(data, data', id)
      BY <2>1, <3>1, DeleteNotes
    <3> QED BY <3>2, <3>3 DEF OthersKept
  <2>6. ASSUME NEW h \in Handlers, Save(h)
        PROVE  data' = data
    BY <2>6, PersistStepFacts DEF Save, NoteStoreInv
  <2>7. CrashRestart => FALSE
    BY DEF CrashRestart, Crash, Restart
  <2>8. UNCHANGED vars => data' = data
    BY DEF vars, store
  <2> QED BY <2>3, <2>4, <2>5, <2>6, <2>7, <2>8 DEF Next
<1>2. Spec => [][Evicted]_vars
  BY <1>1, NoteStoreInvHolds, PTL DEF Spec
<1> QED BY <1>2 DEF OnlyOldestEvicted

(* Whatever handlers write to one file at a time, a file without holes is  *)
(* one snapshot (maybe_persist).                                           *)
THEOREM SnapshotsAreUniform == Spec => []UniformSnapshots
<1>1. NoteStoreInv => UniformSnapshots
  BY DEF NoteStoreInv, StoreInv
<1> QED BY <1>1, NoteStoreInvHolds, PTL

(* Without I/O errors, the file is up to date whenever nobody saves,       *)
(* whichever rename failed (maybe_persist).                                *)
THEOREM IdleStoreIsSaved == Spec => []IdleMeansSaved
<1>1. NoteStoreInv => IdleMeansSaved
  BY ComingIsThere DEF NoteStoreInv
<1> QED BY <1>1, NoteStoreInvHolds, PTL

(* The change of a handler that saw its save succeed is in the file that a *)
(* restart loads: no slower handler replaces it by an older snapshot.      *)
THEOREM AcknowledgedIsOnDisk == Spec => []AckedIsOnDisk
<1>1. NoteStoreInv => AckedIsOnDisk
  BY DEF NoteStoreInv, StoreInv
<1> QED BY <1>1, NoteStoreInvHolds, PTL
============================================================================
