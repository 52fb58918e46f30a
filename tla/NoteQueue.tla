----------------------------- MODULE NoteQueue -----------------------------
(***************************************************************************)
(* The operations of NoteStore (server/src/note_store.rs) on its data, a   *)
(* function from recipient tags to queues of notes, oldest first.  A tag   *)
(* without notes is not in the domain.  A note is its id and the second it *)
(* was stamped with; the payload, the key and the sender tag play no part. *)
(***************************************************************************)
EXTENDS Integers, Sequences

CONSTANTS
  Tags,       \* recipient tags, normalised
  MaxNotes,   \* max_notes_per_recipient
  Limit       \* the limit of a get_notes request, 100 by default

ASSUME MaxNotesAssumption == MaxNotes \in Nat \ {0} /\ Limit \in Nat

NoNotes == [tag \in {} |-> <<>>]

(* Queues of notes from Note, none of them empty or over the limit. *)
AreQueues(notes, Note) ==
  /\ notes = [tag \in DOMAIN notes |-> notes[tag]] /\ DOMAIN notes \subseteq Tags
  /\ \A tag \in DOMAIN notes : notes[tag] \in Seq(Note) /\ Len(notes[tag]) \in 1..MaxNotes

QueueOf(notes, tag) == IF tag \in DOMAIN notes THEN notes[tag] ELSE <<>>

WithQueue(notes, tag, queue) ==
  [t \in DOMAIN notes \cup {tag} |-> IF t = tag THEN queue ELSE notes[t]]

(* Mutants: room is made one note late; the newest note makes room. *)
Evict_late(queue) ==
  IF Len(queue) <= MaxNotes THEN queue ELSE SubSeq(queue, 2, Len(queue))

Evict_slip(queue) ==
  IF Len(queue) < MaxNotes THEN queue ELSE SubSeq(queue, 1, MaxNotes - 1)

(* FIFO eviction: pop from the front until there is room for one more. *)
Evict(queue) ==
  IF Len(queue) < MaxNotes THEN queue
  ELSE SubSeq(queue, Len(queue) - MaxNotes + 2, Len(queue))

insert(notes, tag, note) ==
  WithQueue(notes, tag, Append(Evict(QueueOf(notes, tag)), note))

(* retain, and filter of an iterator: the elements at the positions in     *)
(* keep, in their order.                                                   *)
Retain(queue, keep) ==
  LET kept[i \in 0..Len(queue)] ==
        IF i = 0 THEN <<>>
        ELSE IF i \in keep THEN Append(kept[i - 1], queue[i]) ELSE kept[i - 1]
  IN kept[Len(queue)]

(* delete_note: whether the note was there, and the notes without it.  A   *)
(* queue that is left empty is removed.                                    *)
delete_note(notes, tag, id) ==
  LET queue == QueueOf(notes, tag)
      kept  == Retain(queue, {i \in DOMAIN queue : queue[i].id # id})
  IN [deleted |-> Len(kept) < Len(queue),
      notes   |-> IF kept # <<>> THEN WithQueue(notes, tag, kept)
                  ELSE [t \in DOMAIN notes \ {tag} |-> notes[t]]]

(* get_notes: the first Limit notes stamped after since, in queue order. *)
get_notes(notes, tag, since) ==
  LET queue    == QueueOf(notes, tag)
      filtered == Retain(queue, {i \in DOMAIN queue : queue[i].stored_at > since})
  IN [notes    |-> SubSeq(filtered, 1, IF Len(filtered) < Limit THEN Len(filtered) ELSE Limit),
      has_more |-> Len(filtered) > Limit]
============================================================================
