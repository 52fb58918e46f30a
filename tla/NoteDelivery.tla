---------------------------- MODULE NoteDelivery ----------------------------
(***************************************************************************)
(* The delivery of encrypted notes to one recipient: uploads into the      *)
(* recipient's queue (NoteStore::insert), the polling hook of the wallet   *)
(* (front/src/hooks/useEncryptedNotes.ts) and processNotes                 *)
(* (front/src/services/EncryptedNoteService.ts), which fetches, decrypts   *)
(* and deletes before the hook stores anything.                            *)
(*                                                                         *)
(* A login starts a fetch at once and arms a timer for the next ones.      *)
(* Fetches are not serialised: a slow first fetch, or one of an earlier    *)
(* login, may run beside a polled one.  A logout clears the timer that     *)
(* pollingRef names and leaves the calls under way alone; isMounted is     *)
(* false only between the cleanup of an effect and its next run, so they   *)
(* store what they have, and a polled one arms its timer again.  A polling *)
(* loop keeps the lastFetch of the render that started it, which is not    *)
(* that of the new identity: none, or that of an earlier call that ended   *)
(* after the logout or of the identity before it.  The clocks of server    *)
(* and wallet agree.                                                       *)
(***************************************************************************)
EXTENDS NoteQueue, FiniteSets

CONSTANTS
  Me,          \* the recipient's tag
  Uploaders,   \* upload handlers running at the same time
  Fetches,     \* fetchNotes calls running at the same time
  Unreadable,  \* ids of notes the recipient cannot decrypt
  MaxTime, MaxUploads, MaxLogins, MaxFailures   \* bounds

ASSUME DeliveryAssumption ==
  /\ Me \in Tags /\ IsFiniteSet(Fetches)
  /\ MaxTime \in Nat \ {0} /\ MaxUploads \in Nat /\ MaxLogins \in Nat /\ MaxFailures \in Nat

VARIABLES
  now,        \* the time in seconds
  notes,      \* the server's queues
  stamped,    \* per upload handler, the note it has stamped, <<>> for none
  uploads,    \* history: number of uploads begun
  logged_in,  \* the hook runs with this recipient's identity
  timers,     \* the armed timers, each the since of its loop, in order
  ref_live,   \* pollingRef names the last of timers
  loop_since, \* the since of the loop started last, -1 for undefined
  call,       \* per fetch: [phase, since, batch, hands, polled]
  wallet,     \* localStorage: how many times each note was added
  logins, failures, closed, overlapped, evicted  \* history

polling == <<timers, ref_live, loop_since>>

vars == <<now, notes, stamped, uploads, logged_in, polling, call, wallet,
          logins, failures, closed, overlapped, evicted>>

server == <<notes, stamped, uploads, evicted>>

NoteIds == 1..MaxUploads

Idle == [phase |-> "idle", since |-> -1, batch |-> <<>>, hands |-> <<>>, polled |-> FALSE]

IdsOf(queue) == {queue[i].id : i \in 1..Len(queue)}

Queue == QueueOf(notes, Me)

TypeOK ==
  /\ now \in 1..MaxTime
  /\ DOMAIN notes \subseteq Tags /\ IdsOf(Queue) \subseteq NoteIds
  /\ uploads \in 0..MaxUploads
  /\ logged_in \in BOOLEAN /\ ref_live \in BOOLEAN
  /\ timers \in Seq({-1} \cup 1..MaxTime) /\ Len(timers) <= MaxLogins
  /\ wallet \in [NoteIds -> Nat]
  /\ \A f \in Fetches : call[f].phase \in {"idle", "requested", "processing"}

Init ==
  /\ now = 1 /\ notes = NoNotes /\ uploads = 0
  /\ stamped = [u \in Uploaders |-> <<>>]
  /\ logged_in = FALSE /\ timers = <<>> /\ ref_live = FALSE /\ loop_since = -1
  /\ call = [f \in Fetches |-> Idle]
  /\ wallet = [id \in NoteIds |-> 0]
  /\ logins = 0 /\ failures = 0 /\ closed = FALSE /\ overlapped = FALSE
  /\ evicted = {}

Tick ==
  /\ now < MaxTime
  /\ now' = now + 1
  /\ UNCHANGED <<server, logged_in, polling, call, wallet, logins, failures,
                 closed, overlapped>>

----------------------------------------------------------------------------
(* insert stamps the note before it asks for the write lock. *)
Stamp(u) ==
  /\ stamped[u] = <<>> /\ uploads < MaxUploads
  /\ uploads' = uploads + 1
  /\ stamped' = [stamped EXCEPT ![u] = [id |-> uploads + 1, stored_at |-> now]]
  /\ UNCHANGED <<now, notes, evicted, logged_in, polling, call, wallet, logins,
                 failures, closed, overlapped>>

Insert(u) ==
  /\ stamped[u] # <<>>
  /\ notes' = insert(notes, Me, stamped[u])
  /\ evicted' = evicted \cup (IdsOf(Queue) \ IdsOf(QueueOf(notes', Me)))
  /\ stamped' = [stamped EXCEPT ![u] = <<>>]
  /\ UNCHANGED <<now, uploads, logged_in, polling, call, wallet, logins,
                 failures, closed, overlapped>>

----------------------------------------------------------------------------
Requested(since, polled) ==
  [Idle EXCEPT !.phase = "requested", !.since = since, !.polled = polled]

(* The timers that the cleanup of the effect leaves: it clears the one     *)
(* that pollingRef names, if that one has not fired yet.                   *)
AfterCleanup == IF ref_live THEN SubSeq(timers, 1, Len(timers) - 1) ELSE timers

(* The effect of the hook: one fetch now, one timer armed.  The cleanup    *)
(* before it is that of another identity's effect, if there was one.       *)
Login(f, since) ==
  /\ ~logged_in /\ logins < MaxLogins /\ call[f].phase = "idle"
  /\ logged_in' = TRUE
  /\ logins' = logins + 1
  /\ loop_since' = since
  /\ \E kept \in {timers, AfterCleanup} : timers' = Append(kept, since)
  /\ ref_live' = TRUE
  /\ call' = [call EXCEPT ![f] = Requested(since, FALSE)]
  /\ UNCHANGED <<now, server, wallet, failures, closed, overlapped>>

Logout ==
  /\ logged_in
  /\ logged_in' = FALSE
  /\ timers' = AfterCleanup
  /\ ref_live' = FALSE
  /\ UNCHANGED <<now, server, loop_since, call, wallet, logins, failures, closed, overlapped>>

(* The page is closed: what is not in localStorage is gone. *)
ClosePage ==
  /\ logged_in
  /\ logged_in' = FALSE
  /\ timers' = <<>> /\ ref_live' = FALSE
  /\ call' = [f \in Fetches |-> Idle]
  /\ closed' = TRUE
  /\ UNCHANGED <<now, server, loop_since, wallet, logins, failures, overlapped>>

(* All timers have the same delay: they fire in the order they were armed. *)
TimerFires(f) ==
  /\ timers # <<>> /\ call[f].phase = "idle"
  /\ timers' = Tail(timers)
  /\ ref_live' = (ref_live /\ Len(timers) > 1)
  /\ call' = [call EXCEPT ![f] = Requested(Head(timers), TRUE)]
  /\ UNCHANGED <<now, server, logged_in, loop_since, wallet, logins, failures, closed, overlapped>>

(* The server answers GET /api/notes/{tag}?since=...; has_more is ignored. *)
Fetch(f) ==
  /\ call[f].phase = "requested"
  /\ call' = [call EXCEPT ![f].phase = "processing",
                          ![f].batch = get_notes(notes, Me, call[f].since).notes]
  /\ overlapped' = (overlapped \/ \E g \in Fetches : call[g].phase = "processing")
  /\ UNCHANGED <<now, server, logged_in, polling, wallet, logins, failures,
                 closed>>

(* Mutants: every call arms a timer; no call arms one. *)
Ended_slip(f) ==
  /\ call' = [call EXCEPT ![f] = Idle]
  /\ timers' = Append(timers, call[f].since)
  /\ ref_live' = TRUE

Ended_once(f) ==
  /\ call' = [call EXCEPT ![f] = Idle]
  /\ UNCHANGED <<timers, ref_live>>

(* The end of fetchNotes; a polled call arms the timer again (finally).    *)
Ended(f) ==
  /\ call' = [call EXCEPT ![f] = Idle]
  /\ timers' = IF call[f].polled THEN Append(timers, call[f].since) ELSE timers
  /\ ref_live' = (ref_live \/ call[f].polled)

FetchFails(f) ==
  /\ call[f].phase = "requested" /\ failures < MaxFailures
  /\ failures' = failures + 1
  /\ Ended(f)
  /\ UNCHANGED <<now, server, logged_in, loop_since, wallet, logins, closed, overlapped>>

(* Mutant: the note is deleted and then decrypted. *)
ProcessNote_slip(f, delete_ok) ==
  LET note == Head(call[f].batch)
  IN /\ call[f].phase = "processing" /\ call[f].batch # <<>>
     /\ ~delete_ok => failures < MaxFailures
     /\ failures' = IF delete_ok THEN failures ELSE failures + 1
     /\ notes' = IF delete_ok THEN delete_note(notes, Me, note.id).notes ELSE notes
     /\ call' = [call EXCEPT ![f].batch = Tail(@),
                             ![f].hands = IF note.id \in Unreadable THEN @ ELSE Append(@, note)]
     /\ UNCHANGED <<now, stamped, uploads, evicted, logged_in, polling, wallet,
                    logins, closed, overlapped>>

(* Mutant: the note is kept on the server. *)
ProcessNote_kept(f, delete_ok) ==
  /\ call[f].phase = "processing" /\ call[f].batch # <<>>
  /\ call' = [call EXCEPT ![f].batch = Tail(@),
                          ![f].hands = Append(@, Head(call[f].batch))]
  /\ UNCHANGED <<now, notes, stamped, uploads, evicted, logged_in, polling, wallet,
                 logins, failures, closed, overlapped>>

(* One turn of the loop of processNotes: a note that decrypts is kept in   *)
(* hand and deleted on the server; a failed deletion is only logged.  One  *)
(* that does not decrypt stays on the server.                              *)
ProcessNote(f, delete_ok) ==
  LET note == Head(call[f].batch)
      read == note.id \notin Unreadable
  IN /\ call[f].phase = "processing" /\ call[f].batch # <<>>
     /\ ~delete_ok => read /\ failures < MaxFailures
     /\ failures' = IF delete_ok THEN failures ELSE failures + 1
     /\ notes' = IF read /\ delete_ok THEN delete_note(notes, Me, note.id).notes ELSE notes
     /\ call' = [call EXCEPT ![f].batch = Tail(@),
                             ![f].hands = IF read THEN Append(@, note) ELSE @]
     /\ UNCHANGED <<now, stamped, uploads, evicted, logged_in, polling, wallet,
                    logins, closed, overlapped>>

(* Back in fetchNotes: every note in hand is added, without a look at what *)
(* is there already.                                                       *)
Store(f) ==
  /\ call[f].phase = "processing" /\ call[f].batch = <<>>
  /\ wallet' = [id \in NoteIds |->
                  wallet[id] + IF id \in IdsOf(call[f].hands) THEN 1 ELSE 0]
  /\ Ended(f)
  /\ UNCHANGED <<now, server, logged_in, loop_since, logins, failures, closed, overlapped>>

Poll(f) ==
  \/ TimerFires(f)
  \/ Fetch(f)
  \/ ProcessNote(f, TRUE)
  \/ Store(f)

Next ==
  \/ Tick
  \/ \E u \in Uploaders : Stamp(u) \/ Insert(u)
  \/ \E f \in Fetches : \E since \in {-1} \cup 1..now : Login(f, since)
  \/ Logout
  \/ ClosePage
  \/ \E f \in Fetches : Poll(f) \/ FetchFails(f) \/ ProcessNote(f, FALSE)

Spec == Init /\ [][Next]_vars

(* Requests complete, timers fire and upload handlers run to their end.    *)
FairSpec ==
  /\ Spec
  /\ WF_vars(\E f \in Fetches : TimerFires(f))
  /\ \A f \in Fetches :
       WF_vars(Fetch(f)) /\ WF_vars(ProcessNote(f, TRUE)) /\ WF_vars(Store(f))
  /\ \A u \in Uploaders : WF_vars(Insert(u))

----------------------------------------------------------------------------
InHands(id) == \E f \in Fetches : id \in IdsOf(call[f].hands)

Arrived(id) == id <= uploads /\ \A u \in Uploaders : stamped[u] # <<>> => stamped[u].id # id

(* Unless the page is closed, every uploaded note that was not evicted is  *)
(* on the server, in the hands of a fetch that is under way, or in the     *)
(* wallet, whatever requests failed, however fetches overlap and wherever  *)
(* the user logs out and in again (processNotes deletes a note only with   *)
(* its content in hand, and fetchNotes stores all it was handed).          *)
NoteIsSomewhere ==
  ~closed =>
    \A id \in NoteIds : Arrived(id) =>
      id \in evicted \/ id \in IdsOf(Queue) \/ InHands(id) \/ wallet[id] > 0

(* A note is added to the wallet once, unless a deletion failed or two     *)
(* fetches overlapped: then the note is still there for the other one.     *)
AddedOnce ==
  failures = 0 /\ ~overlapped => \A id \in NoteIds : wallet[id] <= 1

(* As long as the wallet stays logged in and its loop asks without since,  *)
(* every readable note of the queue is added in the end, unless it is      *)
(* evicted first: unreadable notes, which are never deleted, do not hide   *)
(* it while they are fewer than a page.                                    *)
NotesAreDelivered ==
  Cardinality(Unreadable) < Limit =>
    \A id \in NoteIds \ Unreadable :
      (logged_in /\ id \in IdsOf(Queue)) ~>
        (wallet[id] > 0 \/ id \in evicted \/ loop_since # -1 \/ ~logged_in)

(* TRANSFER_SETUP.md, Receiving Transfers: "No action needed! The app      *)
(* automatically: [...] Decrypts notes with your private key, adds funds   *)
(* to your balance": no note is lost on the way to the wallet.             *)
NoNoteIsLost ==
  \A id \in NoteIds : Arrived(id) =>
    id \in evicted \/ id \in IdsOf(Queue) \/ InHands(id) \/ wallet[id] > 0

----------------------------------------------------------------------------
(* What makes them true.  Queues and calls hold notes; a loop is a timer   *)
(* that is armed or a polled call under way, and every login starts one.   *)
Note == [id : NoteIds, stored_at : 1..MaxTime]

Since == {-1} \cup 1..MaxTime

IsCall(c) ==
  /\ c \in [phase : {"idle", "requested", "processing"}, since : Since,
            batch : Seq(Note), hands : Seq(Note), polled : BOOLEAN]
  /\ c.phase # "processing" => c.batch = <<>> /\ c.hands = <<>>
  /\ c.phase = "idle" => ~c.polled

Polled == {f \in Fetches : call[f].polled}

LoopsAreCounted ==
  /\ timers \in Seq(Since) /\ ref_live \in BOOLEAN
  /\ ref_live => timers # <<>>
  /\ logins \in 0..MaxLogins
  /\ Len(timers) + Cardinality(Polled) <= logins

NotesAreTyped ==
  /\ now \in 1..MaxTime /\ uploads \in 0..MaxUploads /\ failures \in Nat
  /\ logged_in \in BOOLEAN
  /\ AreQueues(notes, Note)
  /\ wallet \in [NoteIds -> Nat]
  /\ DOMAIN call = Fetches /\ \A f \in Fetches : IsCall(call[f])

(* A handler stamps its note with an id of its own. *)
StampsAreNew ==
  /\ DOMAIN stamped = Uploaders
  /\ \A u \in Uploaders : stamped[u] # <<>> => stamped[u] \in Note /\ stamped[u].id <= uploads
  /\ \A u, v \in Uploaders :
       stamped[u] # <<>> /\ stamped[v] # <<>> /\ stamped[u].id = stamped[v].id => u = v

(* Ids are those of notes that arrived, each once in a queue or batch. *)
Distinct(queue) == \A i, j \in 1..Len(queue) : queue[i].id = queue[j].id => i = j

IdsHaveArrived ==
  /\ Distinct(Queue) /\ \A id \in IdsOf(Queue) : Arrived(id)
  /\ \A f \in Fetches :
       /\ Distinct(call[f].batch)
       /\ \A id \in IdsOf(call[f].batch) \cup IdsOf(call[f].hands) : Arrived(id)

(* Without failures and overlaps: one call has notes at a time; what is in *)
(* its hands has left the queue and the batch; what is in the wallet is in *)
(* neither, nor in hands.                                                  *)
NotesMoveOnce ==
  failures = 0 /\ ~overlapped =>
    /\ \A f, g \in Fetches :
         call[f].phase = "processing" /\ call[g].phase = "processing" => f = g
    /\ \A f \in Fetches : \A id \in IdsOf(call[f].hands) :
         id \notin IdsOf(Queue) /\ id \notin IdsOf(call[f].batch)
    /\ \A id \in NoteIds : wallet[id] > 0 =>
         /\ wallet[id] = 1 /\ Arrived(id) /\ id \notin IdsOf(Queue)
         /\ \A f \in Fetches : id \notin IdsOf(call[f].batch) \cup IdsOf(call[f].hands)

DeliveryInv ==
  /\ NotesAreTyped
  /\ LoopsAreCounted
  /\ StampsAreNew
  /\ IdsHaveArrived
  /\ NotesMoveOnce
  /\ NoteIsSomewhere
============================================================================
