----------------------------- MODULE NoteStore -----------------------------
(***************************************************************************)
(* The encrypted-note store (server/src/note_store.rs, with the handlers   *)
(* upload_note and delete_note of server/src/api.rs): queues of notes per  *)
(* recipient, saved through PersistentStore.  Requests that fail their     *)
(* validation do not reach the store.  generate_id combines the time in    *)
(* nanoseconds and a counter: ids are taken to be new, also after a        *)
(* restart.  get_notes changes nothing and is modelled in NoteDelivery.    *)
(***************************************************************************)
EXTENDS PersistentStore, NoteQueue

VARIABLES
  next_id,   \* the next note id
  deleting,  \* the note each handler has deleted but not answered for, 0 for none
  gone       \* history: the notes whose deletion was answered and saved

vars == <<store, next_id, deleting, gone>>

Notes(notes) ==
  UNION {{notes[tag][i] : i \in 1..Len(notes[tag])} : tag \in DOMAIN notes}
Ids(notes) == {n.id : n \in Notes(notes)}

TypeOK ==
  /\ StoreTypeOK
  /\ DOMAIN data \subseteq Tags
  /\ \A tag \in DOMAIN data : Len(data[tag]) \in 1..MaxNotes
  /\ next_id \in 1..(MaxVersion + 1) * (MaxCrashes + 1)
  /\ deleting \in [Handlers -> Nat]
  /\ gone \subseteq Nat

Init ==
  /\ StoreInit(NoNotes)
  /\ next_id = 1
  /\ deleting = [h \in Handlers |-> 0]
  /\ gone = {}

upload_note(h, tag) ==
  /\ Change(h, insert(data, tag, [id |-> next_id]))
  /\ next_id' = next_id + 1
  /\ UNCHANGED <<deleting, gone>>

(* Mutant: a deletion is answered without saving it. *)
DeleteNote_slip(h, tag, id) ==
  LET r == delete_note(data, tag, id)
  IN /\ process = "running" /\ persist[h] = "idle" /\ NoReader /\ r.deleted
     /\ data' = r.notes
     /\ gone' = gone \cup {id}
     /\ UNCHANGED <<version, persist, fd, inodes, tmp, path, process, mine, acked,
                    crashes, errors, next_id, deleting>>

(* A note that is not there is answered with 404 and changes nothing. *)
DeleteNote(h, tag, id) ==
  LET r == delete_note(data, tag, id)
  IN /\ r.deleted
     /\ Change(h, r.notes)
     /\ deleting' = [deleting EXCEPT ![h] = id]
     /\ UNCHANGED <<next_id, gone>>

(* A step of maybe_persist; its end is the end of the request. *)
Save(h) ==
  /\ PersistStep(h)
  /\ deleting' = IF persist'[h] = "idle" THEN [deleting EXCEPT ![h] = 0] ELSE deleting
  /\ gone' = IF tmp # 0 /\ tmp' = 0 /\ deleting[h] # 0
             THEN gone \cup {deleting[h]} ELSE gone
  /\ UNCHANGED next_id

CrashRestart ==
  /\ Crash \/ Restart(NoNotes)
  /\ deleting' = [h \in Handlers |-> 0]
  /\ UNCHANGED <<next_id, gone>>

Next ==
  \/ \E h \in Handlers, tag \in Tags :
       \/ upload_note(h, tag)
       \/ \E id \in Ids(data) : DeleteNote(h, tag, id)
  \/ \E h \in Handlers : Save(h)
  \/ CrashRestart

Spec == Init /\ [][Next]_vars

----------------------------------------------------------------------------
(* A note whose deletion was saved and answered never comes back, whatever *)
(* handlers save after it and wherever the process is killed.              *)
DeletedStaysDeleted ==
  /\ process = "running" => gone \cap Ids(data) = {}
  /\ path # 0 /\ Whole(inodes[path]) => gone \cap Ids(inodes[path][1].data) = {}

(* Only the oldest note of a full queue is dropped to make room: a note    *)
(* leaves memory because it is deleted, because it is the oldest of        *)
(* MaxNotes when another one arrives, or because the process restarts.     *)
OnlyOldestEvicted ==
  [][process' = "running" /\ process = "running" =>
       \A tag \in DOMAIN data : \A i \in 1..Len(data[tag]) :
         \/ data[tag][i] \in Notes(data')
         \/ i = 1 /\ Len(data[tag]) = MaxNotes /\ next_id' = next_id + 1
         \/ \E h \in Handlers : deleting'[h] = data[tag][i].id]_vars

----------------------------------------------------------------------------
(* What makes them true.  Memory, and every piece of a file, has queues of *)
(* notes that were uploaded, each under one tag.                           *)
IsNotes(notes, last) ==
  /\ AreQueues(notes, [id : 1..last])
  /\ \A t, u \in DOMAIN notes : \A i \in 1..Len(notes[t]), j \in 1..Len(notes[u]) :
       notes[t][i].id = notes[u][j].id => t = u

NotesAreQueues ==
  /\ IsNotes(data, next_id - 1)
  /\ \A i \in Inodes, k \in 1..2 :
       inodes[i][k] # Hole => IsNotes(inodes[i][k].data, next_id - 1)

(* An upload is a change; every start of the process makes MaxVersion at   *)
(* most.  What is deleted has been uploaded.                               *)
IdsAreUploaded ==
  /\ next_id \in 1..(1 + crashes * MaxVersion + IF process = "running" THEN version ELSE 0)
  /\ gone \subseteq 1..(next_id - 1)
  /\ deleting \in [Handlers -> 0..(next_id - 1)]

(* A note that is being deleted has left the memory, one whose deletion is *)
(* saved has left the file as well, written to the end or not.             *)
DeletedAreOut ==
  /\ process = "running" =>
       /\ gone \cap Ids(data) = {}
       /\ \A h \in Handlers : deleting[h] \notin Ids(data)
  /\ path # 0 => \A k \in 1..2 :
       inodes[path][k] # Hole => gone \cap Ids(inodes[path][k].data) = {}

NoteStoreInv ==
  /\ StoreInv
  /\ NotesAreQueues
  /\ IdsAreUploaded
  /\ DeletedAreOut
============================================================================
