-------------------------- MODULE PersistentStore --------------------------
(***************************************************************************)
(* PersistentStore<T> of server/src/note_store.rs: data behind a RwLock,   *)
(* saved as a JSON file by every request handler that changed it.          *)
(*                                                                         *)
(* Handlers run in parallel.  A change happens under the write lock, which *)
(* is released before maybe_persist takes the read lock; several handlers  *)
(* may therefore be inside maybe_persist at once, all of them on the same  *)
(* "<path>.tmp".  The file system is modelled by its names and inodes:     *)
(* creating a file that exists truncates the inode it has, a rename moves  *)
(* whatever inode the temporary name has at that moment, and the JSON is   *)
(* written in two pieces, each at its own offset.  The process may be      *)
(* killed at any moment and started again.                                 *)
(*                                                                         *)
(* This module has no Next: NoteStore and AddressRegistry extend it with   *)
(* the changes their handlers make.                                        *)
(***************************************************************************)
EXTENDS Integers, Sequences

CONSTANTS
  Handlers,     \* request handlers that may run at the same time
  Inodes,       \* inodes of the file system, numbered
  MaxVersion,   \* bound on the changes made to the data
  MaxCrashes,   \* bound on the crashes
  MaxErrors     \* bound on the I/O errors

ASSUME InodesAssumption == Inodes \subseteq Nat \ {0}

ASSUME PersistBoundsAssumption ==
  MaxVersion \in Nat /\ MaxCrashes \in Nat /\ MaxErrors \in Nat

VARIABLES
  data,      \* the value behind the lock
  version,   \* history: how many changes led to data
  persist,   \* where each handler is in maybe_persist
  fd,        \* the inode each handler writes to, 0 for none
  inodes,    \* the content of each inode
  tmp,       \* the inode named <path>.tmp, 0 for none
  path,      \* the inode named <path>, 0 for none
  process,   \* "running", "down", or "refused" when loading the file failed
  mine,      \* history: the version each handler's own change produced
  acked,     \* history: the newest change whose handler saw its save succeed
  crashes, errors

store == <<data, version, persist, fd, inodes, tmp, path, process, mine, acked,
           crashes, errors>>

(* An inode holds two pieces; a piece that is not written is a hole. *)
Hole  == [version |-> -1]
Blank == <<Hole, Hole>>

Snapshot == [version |-> version, data |-> data]

Whole(content) == content[1] # Hole /\ content[1] = content[2]

PersistPhase == {"idle", "due", "created", "half", "written"}
Reading == {"created", "half", "written"}

StoreTypeOK ==
  /\ version \in 0..MaxVersion /\ acked \in 0..MaxVersion
  /\ persist \in [Handlers -> PersistPhase]
  /\ fd \in [Handlers -> Inodes \cup {0}]
  /\ DOMAIN inodes = Inodes
  /\ tmp \in Inodes \cup {0} /\ path \in Inodes \cup {0}
  /\ process \in {"running", "down", "refused"}
  /\ mine \in [Handlers -> 0..MaxVersion]
  /\ crashes \in 0..MaxCrashes /\ errors \in 0..MaxErrors

(* with_persistence on a data directory without the file. *)
StoreInit(default) ==
  /\ data = default /\ version = 0 /\ acked = 0
  /\ persist = [h \in Handlers |-> "idle"]
  /\ fd = [h \in Handlers |-> 0]
  /\ mine = [h \in Handlers |-> 0]
  /\ inodes = [i \in Inodes |-> Blank]
  /\ tmp = 0 /\ path = 0
  /\ process = "running"
  /\ crashes = 0 /\ errors = 0

----------------------------------------------------------------------------
(* Mutant: the read lock is given up before the file is written. *)
NoReader_slip == TRUE

(* The write lock is free: no handler holds the read lock of maybe_persist. *)
NoReader == \A h \in Handlers : persist[h] \notin Reading

(* A write-locked section that changes the data; maybe_persist follows. *)
Change(h, value) ==
  /\ process = "running" /\ persist[h] = "idle" /\ NoReader
  /\ version < MaxVersion
  /\ data' = value
  /\ version' = version + 1
  /\ mine' = [mine EXCEPT ![h] = version + 1]
  /\ persist' = [persist EXCEPT ![h] = "due"]
  /\ UNCHANGED <<fd, inodes, tmp, path, process, acked, crashes, errors>>

Unused == Inodes \ ({tmp, path} \cup {fd[h] : h \in Handlers})

(* maybe_persist: File::create on the temporary name. *)
PersistCreate(h) ==
  LET file == IF tmp = 0 THEN CHOOSE i \in Unused : TRUE ELSE tmp
  IN /\ process = "running" /\ persist[h] = "due"
     /\ tmp = 0 => Unused # {}
     /\ persist' = [persist EXCEPT ![h] = "created"]
     /\ fd' = [fd EXCEPT ![h] = file]
     /\ tmp' = file
     /\ inodes' = [inodes EXCEPT ![file] = Blank]
     /\ UNCHANGED <<data, version, path, process, mine, acked, crashes, errors>>

(* serde_json::to_writer, a piece at a time; the writer is dropped, and    *)
(* with it the file closed, when the second piece is written.              *)
PersistWrite(h) ==
  LET piece == IF persist[h] = "created" THEN 1 ELSE 2
  IN /\ process = "running" /\ persist[h] \in {"created", "half"}
     /\ inodes' = [inodes EXCEPT ![fd[h]][piece] = Snapshot]
     /\ persist' = [persist EXCEPT ![h] = IF piece = 1 THEN "half" ELSE "written"]
     /\ fd' = [fd EXCEPT ![h] = IF piece = 1 THEN @ ELSE 0]
     /\ UNCHANGED <<data, version, tmp, path, process, mine, acked, crashes, errors>>

(* Mutant: the file itself is removed when the rename fails. *)
PersistRename_slip(h) ==
  /\ process = "running" /\ persist[h] = "written"
  /\ persist' = [persist EXCEPT ![h] = "idle"]
  /\ path' = tmp /\ tmp' = 0
  /\ acked' = IF tmp # 0 /\ mine[h] > acked THEN mine[h] ELSE acked
  /\ UNCHANGED <<data, version, fd, inodes, process, mine, crashes, errors>>

(* fs::rename.  It fails, with a warning, when another handler has renamed *)
(* the temporary file already.                                             *)
PersistRename(h) ==
  /\ process = "running" /\ persist[h] = "written"
  /\ persist' = [persist EXCEPT ![h] = "idle"]
  /\ IF tmp # 0
     THEN /\ path' = tmp /\ tmp' = 0
          /\ acked' = IF mine[h] > acked THEN mine[h] ELSE acked
     ELSE UNCHANGED <<path, tmp, acked>>
  /\ UNCHANGED <<data, version, fd, inodes, process, mine, crashes, errors>>

(* An I/O error in create, in a write or in rename: maybe_persist returns  *)
(* at once, leaving the files as they are; the caller logs a warning.      *)
PersistError(h) ==
  /\ process = "running" /\ persist[h] # "idle"
  /\ errors < MaxErrors
  /\ errors' = errors + 1
  /\ persist' = [persist EXCEPT ![h] = "idle"]
  /\ fd' = [fd EXCEPT ![h] = 0]
  /\ UNCHANGED <<data, version, inodes, tmp, path, process, mine, acked, crashes>>

Crash ==
  /\ process = "running" /\ crashes < MaxCrashes
  /\ crashes' = crashes + 1
  /\ process' = "down"
  /\ persist' = [h \in Handlers |-> "idle"]
  /\ fd' = [h \in Handlers |-> 0]
  /\ mine' = [h \in Handlers |-> 0]
  /\ UNCHANGED <<data, version, inodes, tmp, path, acked, errors>>

(* with_persistence and load_from_file: no file is an empty store, a file  *)
(* that does not parse is an error that ends the start-up.                 *)
Restart(default) ==
  /\ process = "down"
  /\ IF path = 0 \/ Whole(inodes[path])
     THEN /\ process' = "running"
          /\ data' = IF path = 0 THEN default ELSE inodes[path][1].data
          /\ version' = IF path = 0 THEN 0 ELSE inodes[path][1].version
     ELSE /\ process' = "refused"
          /\ UNCHANGED <<data, version>>
  /\ UNCHANGED <<persist, fd, inodes, tmp, path, mine, acked, crashes, errors>>

PersistStep(h) == PersistCreate(h) \/ PersistWrite(h) \/ PersistRename(h) \/ PersistError(h)

----------------------------------------------------------------------------
(* A file that parses is one consistent snapshot: handlers that write the  *)
(* same inode at the same time all hold the read lock of maybe_persist,    *)
(* so they write the same data.                                            *)
UniformSnapshots ==
  \A i \in Inodes : inodes[i][1] # Hole /\ inodes[i][2] # Hole => Whole(inodes[i])

(* Whenever no handler is between its change and the end of its            *)
(* maybe_persist, the file holds the data in memory, whichever handler     *)
(* wrote it and whichever rename failed (as long as no I/O error occurred).*)
IdleMeansSaved ==
  (process = "running" /\ errors = 0 /\ \A h \in Handlers : persist[h] = "idle") =>
    IF path = 0 THEN version = 0
    ELSE Whole(inodes[path]) /\ inodes[path][1] = Snapshot

(* No older snapshot ever replaces a newer one: once a handler has seen    *)
(* its save succeed, the file that a restart would load has its change.    *)
AckedIsOnDisk ==
  /\ acked > 0 => path # 0
  /\ path # 0 /\ Whole(inodes[path]) => inodes[path][1].version >= acked

(* The doc comment of maybe_persist, "atomic write via temp file +         *)
(* rename": at no moment is there a file that a start-up could not load.   *)
FileIsNeverTorn == path # 0 => Whole(inodes[path])

----------------------------------------------------------------------------
(* What makes them true.  A piece is a hole or a snapshot of some version. *)
IsPiece(p) ==
  \/ p = Hole
  \/ p = [version |-> p.version, data |-> p.data] /\ p.version \in 0..MaxVersion

FilesAreWellFormed ==
  /\ inodes = [i \in Inodes |-> inodes[i]]
  /\ \A i \in Inodes :
       /\ inodes[i] = [k \in 1..2 |-> inodes[i][k]]
       /\ IsPiece(inodes[i][1]) /\ IsPiece(inodes[i][2])

(* A handler has a file open while it writes; nobody does when the process *)
(* is not running.                                                         *)
OpenFilesAreWritten ==
  /\ \A h \in Handlers : fd[h] # 0 <=> persist[h] \in {"created", "half"}
  /\ process # "running" => \A h \in Handlers : persist[h] = "idle" /\ mine[h] = 0

(* Whoever writes holds the read lock since the file was truncated, so     *)
(* that nothing but the present data is in it; nor in the temporary file,  *)
(* while anybody holds the lock.                                           *)
IsCurrent(i) == \A k \in 1..2 : inodes[i][k] \in {Hole, Snapshot}

OpenFilesAreCurrent ==
  /\ \A h \in Handlers : fd[h] # 0 => IsCurrent(fd[h])
  /\ tmp # 0 /\ ~NoReader => IsCurrent(tmp)

(* The process has the data of every version that it knows of. *)
VersionsAreReached ==
  process = "running" =>
    /\ acked <= version
    /\ \A h \in Handlers : mine[h] <= version
    /\ path # 0 => \A k \in 1..2 : inodes[path][k] # Hole => inodes[path][k].version <= version

(* Every piece of a file has been written, or somebody is going to. *)
WillWrite(h, k) == persist[h] = "created" \/ (k = 2 /\ persist[h] = "half")

IsComing(i) ==
  \A k \in 1..2 : inodes[i][k] = Snapshot \/ \E h \in Handlers : fd[h] = i /\ WillWrite(h, k)

(* Without errors the data is on its way to the file: a handler has yet to *)
(* begin, or the temporary file is going to have it, or the file is.       *)
DataIsComing ==
  process = "running" /\ errors = 0 =>
    /\ tmp # 0 /\ ~NoReader => IsComing(tmp)
    /\ \/ \E h \in Handlers : persist[h] = "due"
       \/ tmp # 0 /\ ~NoReader
       \/ path = 0 /\ version = 0
       \/ path # 0 /\ IsComing(path)

StoreInv ==
  /\ StoreTypeOK
  /\ FilesAreWellFormed
  /\ OpenFilesAreWritten
  /\ OpenFilesAreCurrent
  /\ UniformSnapshots
  /\ AckedIsOnDisk
  /\ VersionsAreReached
  /\ DataIsComing
============================================================================
