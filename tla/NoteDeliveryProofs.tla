------------------------- MODULE NoteDeliveryProofs -------------------------
(***************************************************************************)
(* Proofs about NoteDelivery, for any number of uploads, upload handlers,  *)
(* calls, logins and failures, any limits of the queue and of a page, and  *)
(* any set of notes the recipient cannot read.                             *)
(***************************************************************************)
EXTENDS NoteDelivery, NoteQueueProofs

(* The ids of a queue.                                                     *)
LEMMA IdsOfFacts ==
  ASSUME NEW q, NEW x
  PROVE  x \in IdsOf(q) <=> \E i \in 1..Len(q) : q[i].id = x
BY DEF IdsOf

(* The recipient's queue after insert. *)
LEMMA InsertIds ==
  ASSUME NEW N, NEW old, AreQueues(old, N), NEW note \in N,
         NEW new, new = insert(old, Me, note),
         NEW p, p = QueueOf(old, Me), NEW q, q = QueueOf(new, Me)
  PROVE  /\ AreQueues(new, N)
         /\ IdsOf(q) \subseteq IdsOf(p) \cup {note.id}
         /\ note.id \in IdsOf(q)
         /\ Distinct(p) /\ note.id \notin IdsOf(p) => Distinct(q)
<1>1. AreQueues(new, N) /\ Inserted(new, old, Me, note)
  BY DeliveryAssumption, InsertFacts
<1>2. PICK d \in 0..1 : Shifted(d, new[Me], p, note)
  BY <1>1 DEF Inserted
<1>3. q = new[Me] /\ Len(p) \in Nat /\ p \in Seq(N) /\ Len(q) \in Nat
  <2>1. q = new[Me]
    BY <1>1 DEF Inserted, QueueOf
  <2>2. p \in Seq(N) /\ q \in Seq(N)
    BY <1>1, QueueOfFacts
  <2> QED BY <2>1, <2>2
<1>4. /\ Len(q) = Len(p) - d + 1 /\ q[Len(q)] = note
      /\ \A i \in 1..(Len(p) - d) : i + d \in 1..Len(p) /\ q[i] = p[i + d]
  BY <1>2, <1>3 DEF Shifted
<1>5. \A i \in 1..Len(q) : i = Len(q) \/ i \in 1..(Len(p) - d)
  BY <1>3, <1>4
<1>6. IdsOf(q) \subseteq IdsOf(p) \cup {note.id}
  BY <1>4, <1>5, IdsOfFacts
<1>7. note.id \in IdsOf(q)
  <2>1. Len(q) \in 1..Len(q)
    <3>1. Len(q) # 0
      <4>1. Me \in DOMAIN new
        BY <1>1 DEF Inserted
      <4> QED BY <1>1, <4>1, QueueOfFacts
    <3> QED BY <1>3, <3>1
  <2> QED BY <2>1, <1>4, IdsOfFacts
<1>8. ASSUME Distinct(p), note.id \notin IdsOf(p)
      PROVE  Distinct(q)
  <2>1. ASSUME NEW i \in 1..Len(q), NEW j \in 1..Len(q), q[i].id = q[j].id
        PROVE  i = j
    <3>1. \A k \in 1..(Len(p) - d) : q[k].id # note.id
      BY <1>4, <1>8, IdsOfFacts
    <3>2. CASE i = Len(q) \/ j = Len(q)
      BY <2>1, <3>1, <3>2, <1>4, <1>5
    <3>3. CASE i \in 1..(Len(p) - d) /\ j \in 1..(Len(p) - d)
      <4>1. i + d \in 1..Len(p) /\ j + d \in 1..Len(p) /\ p[i + d].id = p[j + d].id
        BY <2>1, <3>3, <1>4
      <4>2. i + d = j + d
        BY <4>1, <1>8 DEF Distinct
      <4> QED BY <4>2
    <3> QED BY <3>2, <3>3, <1>5
  <2> QED BY <2>1 DEF Distinct
<1> QED BY <1>1, <1>6, <1>7, <1>8

(* What a selection leaves of a queue. *)
LEMMA SelectedIds ==
  ASSUME NEW N, NEW p \in Seq(N), NEW q \in Seq(N), NEW keep, NEW pos, Selects(pos, q, p, keep)
  PROVE  /\ IdsOf(q) \subseteq IdsOf(p)
         /\ Distinct(p) => Distinct(q)
<1>1. /\ \A k \in 1..Len(q) : pos[k] \in 1..Len(p) /\ q[k] = p[pos[k]]
      /\ \A j, k \in 1..Len(q) : j < k => pos[j] < pos[k]
  BY DEF Selects
<1>2. IdsOf(q) \subseteq IdsOf(p)
  BY <1>1, IdsOfFacts
<1>3. ASSUME Distinct(p)
      PROVE  Distinct(q)
  <2>1. ASSUME NEW i \in 1..Len(q), NEW j \in 1..Len(q), q[i].id = q[j].id
        PROVE  i = j
    <3>1. pos[i] = pos[j] /\ pos[i] \in Int
      BY <1>1, <1>3, <2>1 DEF Distinct
    <3>2. ~(i < j) /\ ~(j < i)
      BY <3>1, <1>1
    <3> QED BY <3>2
  <2> QED BY <2>1 DEF Distinct
<1> QED BY <1>2, <1>3

(* The recipient's queue after delete_note. *)
LEMMA DeleteIds ==
  ASSUME NEW N, NEW old, AreQueues(old, N), NEW id,
         NEW new, new = delete_note(old, Me, id).notes,
         NEW p, p = QueueOf(old, Me), NEW q, q = QueueOf(new, Me)
  PROVE  /\ AreQueues(new, N)
         /\ IdsOf(q) = IdsOf(p) \ {id}
         /\ Distinct(p) => Distinct(q)
<1>1. /\ AreQueues(new, N) /\ q \in Seq(N)
      /\ \E pos : Selects(pos, q, p, Others(p, id))
  BY DeliveryAssumption, DeleteFacts
<1>2. PICK pos : Selects(pos, q, p, Others(p, id))
  BY <1>1
<1>3. p \in Seq(N)
  BY QueueOfFacts
<1>4. IdsOf(q) \subseteq IdsOf(p) /\ (Distinct(p) => Distinct(q))
  BY <1>1, <1>2, <1>3, SelectedIds
<1>5. id \notin IdsOf(q)
  BY <1>2, IdsOfFacts DEF Selects, Others
<1>6. ASSUME NEW x \in IdsOf(p), x # id
      PROVE  x \in IdsOf(q)
  <2>1. PICK i \in 1..Len(p) : p[i].id = x
    BY IdsOfFacts
  <2>2. i \in Others(p, id) \cap 1..Len(p)
    BY <2>1, <1>6 DEF Others
  <2>3. PICK k \in 1..Len(q) : pos[k] = i
    BY <2>2, <1>2 DEF Selects
  <2>4. q[k] = p[i]
    BY <2>3, <1>2 DEF Selects
  <2> QED BY <2>1, <2>4, IdsOfFacts
<1> QED BY <1>1, <1>4, <1>5, <1>6

(* A page of the recipient's queue (get_notes). *)
LEMMA PageIds ==
  ASSUME NEW N, NEW old, AreQueues(old, N), NEW since,
         NEW page, page = get_notes(old, Me, since).notes,
         NEW p, p = QueueOf(old, Me)
  PROVE  /\ page \in Seq(N)
         /\ IdsOf(page) \subseteq IdsOf(p)
         /\ Distinct(p) => Distinct(page)
<1> DEFINE keep == {i \in DOMAIN p : p[i].stored_at > since}
           filtered == Retain(p, keep)
           n == IF Len(filtered) < Limit THEN Len(filtered) ELSE Limit
<1>1. page = SubSeq(filtered, 1, n)
  BY DEF get_notes
<1>2. p \in Seq(N)
  BY QueueOfFacts
<1> HIDE DEF keep
<1>3. filtered \in Seq(N) /\ \E pos : Selects(pos, filtered, p, keep)
  BY <1>2, RetainFacts
<1> HIDE DEF filtered
<1>4. IdsOf(filtered) \subseteq IdsOf(p) /\ (Distinct(p) => Distinct(filtered))
  <2>1. PICK pos : Selects(pos, filtered, p, keep)
    BY <1>3
  <2> QED BY <2>1, <1>2, <1>3, SelectedIds
<1>5. n \in 0..Len(filtered)
  BY <1>3, MaxNotesAssumption
<1> HIDE DEF n
<1>6. /\ page \in Seq(N) /\ Len(page) = n /\ 1..n \subseteq 1..Len(filtered)
      /\ \A i \in 1..n : page[i] = filtered[i]
  <2>1. Len(filtered) \in Nat /\ n \in Nat /\ \A i \in 1..n : filtered[i] \in N
    BY <1>3, <1>5
  <2>2. 1 \in Int /\ n \in Int
    BY <2>1
  <2>3. /\ SubSeq(filtered, 1, n) \in Seq(N)
        /\ Len(SubSeq(filtered, 1, n)) = n
        /\ \A i \in 1..n : SubSeq(filtered, 1, n)[i] = filtered[i]
    BY <1>3, <1>5, <2>1
  <2> QED BY <1>1, <1>5, <2>1, <2>3
<1>7. IdsOf(page) \subseteq IdsOf(filtered)
  BY <1>6, IdsOfFacts
<1>8. Distinct(filtered) => Distinct(page)
  BY <1>6 DEF Distinct
<1> QED BY <1>4, <1>6, <1>7, <1>8

----------------------------------------------------------------------------
(* The parts of the invariant about ids, of any state. *)
ArrivedIn(id, n, st) == id <= n /\ \A u \in Uploaders : st[u] # <<>> => st[u].id # id

AllArrived(q, c, n, st) ==
  /\ Distinct(q) /\ \A id \in IdsOf(q) : ArrivedIn(id, n, st)
  /\ \A f \in Fetches :
       /\ Distinct(c[f].batch)
       /\ \A id \in IdsOf(c[f].batch) \cup IdsOf(c[f].hands) : ArrivedIn(id, n, st)

MovedOnce(q, c, w, n, st) ==
  /\ \A f, g \in Fetches : c[f].phase = "processing" /\ c[g].phase = "processing" => f = g
  /\ \A f \in Fetches : \A id \in IdsOf(c[f].hands) :
       id \notin IdsOf(q) /\ id \notin IdsOf(c[f].batch)
  /\ \A id \in NoteIds : w[id] > 0 =>
       /\ w[id] = 1 /\ ArrivedIn(id, n, st) /\ id \notin IdsOf(q)
       /\ \A f \in Fetches : id \notin IdsOf(c[f].batch) \cup IdsOf(c[f].hands)

Somewhere(q, c, w, gone, n, st) ==
  \A id \in NoteIds : ArrivedIn(id, n, st) =>
    \/ id \in gone \/ id \in IdsOf(q) \/ w[id] > 0
    \/ \E f \in Fetches : id \in IdsOf(c[f].hands)

(* The parts of the invariant about ids, of this state,                    *)
LEMMA IdForms ==
  /\ IdsHaveArrived <=> AllArrived(QueueOf(notes, Me), call, uploads, stamped)
  /\ NotesMoveOnce <=> (failures = 0 /\ ~overlapped =>
       MovedOnce(QueueOf(notes, Me), call, wallet, uploads, stamped))
  /\ NoteIsSomewhere <=> (~closed =>
       Somewhere(QueueOf(notes, Me), call, wallet, evicted, uploads, stamped))
<1>1. IdsHaveArrived <=> AllArrived(QueueOf(notes, Me), call, uploads, stamped)
  BY DEF IdsHaveArrived, AllArrived, Arrived, ArrivedIn, Queue
<1>2. NotesMoveOnce <=> (failures = 0 /\ ~overlapped =>
       MovedOnce(QueueOf(notes, Me), call, wallet, uploads, stamped))
  BY DEF NotesMoveOnce, MovedOnce, Arrived, ArrivedIn, Queue
<1>3. NoteIsSomewhere <=> (~closed =>
       Somewhere(QueueOf(notes, Me), call, wallet, evicted, uploads, stamped))
  BY DEF NoteIsSomewhere, Somewhere, Arrived, ArrivedIn, Queue, InHands
<1> QED BY <1>1, <1>2, <1>3

(* and of the next.                                                        *)
LEMMA NextIdForms ==
  /\ IdsHaveArrived' <=> AllArrived(QueueOf(notes', Me), call', uploads', stamped')
  /\ NotesMoveOnce' <=> (failures' = 0 /\ ~overlapped' =>
       MovedOnce(QueueOf(notes', Me), call', wallet', uploads', stamped'))
  /\ NoteIsSomewhere' <=> (~closed' =>
       Somewhere(QueueOf(notes', Me), call', wallet', evicted', uploads', stamped'))
<1>1. IdsHaveArrived' <=> AllArrived(QueueOf(notes', Me), call', uploads', stamped')
  BY DEF IdsHaveArrived, AllArrived, Arrived, ArrivedIn, Queue, QueueOf, Distinct, IdsOf
<1>2. NotesMoveOnce' <=> (failures' = 0 /\ ~overlapped' =>
       MovedOnce(QueueOf(notes', Me), call', wallet', uploads', stamped'))
  BY DEF NotesMoveOnce, MovedOnce, Arrived, ArrivedIn, Queue, QueueOf, IdsOf
<1>3. NoteIsSomewhere' <=> (~closed' =>
       Somewhere(QueueOf(notes', Me), call', wallet', evicted', uploads', stamped'))
  BY DEF NoteIsSomewhere, Somewhere, Arrived, ArrivedIn, Queue, InHands, QueueOf, IdsOf
<1> QED BY <1>1, <1>2, <1>3

(* Nothing happens to ids when calls start or end with empty hands. *)
LEMMA CallsKeepIds ==
  ASSUME IdsHaveArrived, NotesMoveOnce, NoteIsSomewhere,
         UNCHANGED <<notes, uploads, stamped, wallet, evicted, closed, overlapped>>,
         failures' = 0 => failures = 0,
         \A f \in Fetches : /\ call'[f].batch = call[f].batch /\ call'[f].hands = call[f].hands
                            /\ call'[f].phase = "processing" => call[f].phase = "processing"
  PROVE  IdsHaveArrived' /\ NotesMoveOnce' /\ NoteIsSomewhere'
<1>1. AllArrived(QueueOf(notes', Me), call', uploads', stamped')
  BY IdForms DEF AllArrived
<1>2. failures' = 0 /\ ~overlapped' => MovedOnce(QueueOf(notes', Me), call', wallet', uploads', stamped')
  BY IdForms DEF MovedOnce
<1>3. ~closed' => Somewhere(QueueOf(notes', Me), call', wallet', evicted', uploads', stamped')
  BY IdForms DEF Somewhere
<1> QED BY <1>1, <1>2, <1>3, NextIdForms

(* The calls that a loop waits for. *)
PolledIn(c) == {f \in Fetches : c[f].polled}

(* A call that a loop waits for begins or ends.                            *)
LEMMA PolledFacts ==
  ASSUME NEW c, NEW d, NEW f \in Fetches, \A g \in Fetches : g # f => (d[g].polled <=> c[g].polled)
  PROVE  /\ Cardinality(PolledIn(c)) \in Nat /\ Cardinality(PolledIn(d)) \in Nat
         /\ (d[f].polled <=> c[f].polled) => Cardinality(PolledIn(d)) = Cardinality(PolledIn(c))
         /\ d[f].polled /\ ~c[f].polled => Cardinality(PolledIn(d)) = Cardinality(PolledIn(c)) + 1
         /\ ~d[f].polled /\ c[f].polled => Cardinality(PolledIn(d)) = Cardinality(PolledIn(c)) - 1
<1> DEFINE P == PolledIn(c)
           Q == PolledIn(d)
<1>1. IsFiniteSet(P) /\ IsFiniteSet(Q)
  BY DeliveryAssumption, FS_Subset DEF PolledIn
<1>2. Cardinality(P) \in Nat /\ Cardinality(Q) \in Nat
  BY <1>1, FS_CardinalityType
<1>3. (d[f].polled <=> c[f].polled) => Q = P
  BY DEF PolledIn
<1>4. ASSUME d[f].polled, ~c[f].polled
      PROVE  Cardinality(Q) = Cardinality(P) + 1
  <2>1. Q = P \cup {f} /\ f \notin P
    BY <1>4 DEF PolledIn
  <2> QED BY <1>1, <2>1, FS_AddElement
<1>5. ASSUME ~d[f].polled, c[f].polled
      PROVE  Cardinality(Q) = Cardinality(P) - 1
  <2>1. P = Q \cup {f} /\ f \notin Q
    BY <1>5 DEF PolledIn
  <2>2. Cardinality(P) = Cardinality(Q) + 1
    BY <1>1, <2>1, FS_AddElement
  <2> QED BY <1>2, <2>2
<1> HIDE DEF P, Q
<1>6. /\ Cardinality(P) \in Nat /\ Cardinality(Q) \in Nat
      /\ (d[f].polled <=> c[f].polled) => Cardinality(Q) = Cardinality(P)
      /\ d[f].polled /\ ~c[f].polled => Cardinality(Q) = Cardinality(P) + 1
      /\ ~d[f].polled /\ c[f].polled => Cardinality(Q) = Cardinality(P) - 1
  BY <1>2, <1>3, <1>4, <1>5
<1> QED BY <1>6 DEF P, Q

(* What the invariant says of a call.                                      *)
LEMMA TypeFacts ==
  ASSUME DeliveryInv
  PROVE  /\ now \in 1..MaxTime /\ uploads \in 0..MaxUploads /\ MaxUploads \in Nat /\ MaxTime \in Nat
         /\ \A f \in Fetches :
              /\ call[f].phase \in {"idle", "requested", "processing"} /\ call[f].since \in Since
              /\ call[f].batch \in Seq(Note) /\ call[f].hands \in Seq(Note) /\ call[f].polled \in BOOLEAN
              /\ call[f].phase # "processing" => call[f].batch = <<>> /\ call[f].hands = <<>>
              /\ call[f].phase = "idle" => ~call[f].polled
<1>1. \A f \in Fetches : IsCall(call[f])
  BY DEF DeliveryInv, NotesAreTyped
<1>2. now \in 1..MaxTime /\ uploads \in 0..MaxUploads /\ MaxUploads \in Nat /\ MaxTime \in Nat
  BY DeliveryAssumption DEF DeliveryInv, NotesAreTyped
<1>3. ASSUME NEW f \in Fetches
      PROVE  /\ call[f].phase \in {"idle", "requested", "processing"} /\ call[f].since \in Since
             /\ call[f].batch \in Seq(Note) /\ call[f].hands \in Seq(Note) /\ call[f].polled \in BOOLEAN
             /\ call[f].phase # "processing" => call[f].batch = <<>> /\ call[f].hands = <<>>
             /\ call[f].phase = "idle" => ~call[f].polled
  BY <1>1 DEF IsCall
<1> QED BY <1>2, <1>3

(* All ids that are about. *)
LEMMA SeqIds ==
  ASSUME NEW q \in Seq(Note)
  PROVE  IdsOf(q) \subseteq NoteIds
<1>1. \A n \in Note : n.id \in NoteIds
  BY DEF Note
<1>2. \A i \in 1..Len(q) : q[i] \in Note
  OBVIOUS
<1> QED BY <1>1, <1>2, IdsOfFacts

(* They are numbers of uploads.                                            *)
LEMMA IdsAreNumbers ==
  ASSUME DeliveryInv
  PROVE  /\ IdsOf(QueueOf(notes, Me)) \subseteq NoteIds
         /\ \A f \in Fetches : IdsOf(call[f].batch) \cup IdsOf(call[f].hands) \subseteq NoteIds
<1>1. QueueOf(notes, Me) \in Seq(Note)
  BY QueueOfFacts DEF DeliveryInv, NotesAreTyped
<1> QED BY <1>1, SeqIds, TypeFacts

(* A call that is idle, and one that was just made, has no notes.          *)
LEMMA NewCalls ==
  ASSUME NEW since \in Since, NEW polled \in BOOLEAN
  PROVE  /\ IsCall(Idle) /\ Idle.batch = <<>> /\ Idle.hands = <<>> /\ ~Idle.polled /\ Idle.phase = "idle"
         /\ IsCall(Requested(since, polled)) /\ Requested(since, polled).batch = <<>>
         /\ Requested(since, polled).hands = <<>> /\ (Requested(since, polled).polled <=> polled)
         /\ Requested(since, polled).phase = "requested"
<1> DEFINE N == Seq(Note)
<1>1. <<>> \in N /\ -1 \in Since
  BY DEF Since
<1> HIDE DEF N
<1>2. IsCall(Idle) /\ Idle.batch = <<>> /\ Idle.hands = <<>> /\ ~Idle.polled /\ Idle.phase = "idle"
  BY <1>1 DEF IsCall, Idle, N
<1>3. /\ IsCall(Requested(since, polled)) /\ Requested(since, polled).batch = <<>>
      /\ Requested(since, polled).hands = <<>> /\ (Requested(since, polled).polled <=> polled)
      /\ Requested(since, polled).phase = "requested"
  BY <1>1 DEF IsCall, Idle, Requested, N
<1> QED BY <1>2, <1>3

----------------------------------------------------------------------------
(* The other parts of the invariant, of the next state. *)
LEMMA NextTypeForms ==
  /\ NotesAreTyped' <=>
       /\ now' \in 1..MaxTime /\ uploads' \in 0..MaxUploads /\ failures' \in Nat
       /\ logged_in' \in BOOLEAN
       /\ AreQueues(notes', Note) /\ wallet' \in [NoteIds -> Nat]
       /\ DOMAIN call' = Fetches /\ \A f \in Fetches : IsCall(call'[f])
  /\ LoopsAreCounted' <=>
       /\ timers' \in Seq(Since) /\ ref_live' \in BOOLEAN /\ (ref_live' => timers' # <<>>)
       /\ logins' \in 0..MaxLogins
       /\ Len(timers') + Cardinality(PolledIn(call')) <= logins'
<1>1. NotesAreTyped' <=>
       /\ now' \in 1..MaxTime /\ uploads' \in 0..MaxUploads /\ failures' \in Nat
       /\ logged_in' \in BOOLEAN
       /\ AreQueues(notes', Note) /\ wallet' \in [NoteIds -> Nat]
       /\ DOMAIN call' = Fetches /\ \A f \in Fetches : IsCall(call'[f])
  BY DEF NotesAreTyped, AreQueues, IsCall
<1>2. LoopsAreCounted' <=>
       /\ timers' \in Seq(Since) /\ ref_live' \in BOOLEAN /\ (ref_live' => timers' # <<>>)
       /\ logins' \in 0..MaxLogins
       /\ Len(timers') + Cardinality(PolledIn(call')) <= logins'
  <2>1. Polled' = PolledIn(call')
    BY DEF Polled, PolledIn
  <2> QED BY <2>1 DEF LoopsAreCounted
<1> QED BY <1>1, <1>2

(* The part of the invariant about loops, of this state.                   *)
LEMMA LoopForms ==
  LoopsAreCounted <=>
    /\ timers \in Seq(Since) /\ ref_live \in BOOLEAN /\ (ref_live => timers # <<>>)
    /\ logins \in 0..MaxLogins
    /\ Len(timers) + Cardinality(PolledIn(call)) <= logins
<1>1. Polled = PolledIn(call)
  BY DEF Polled, PolledIn
<1> QED BY <1>1 DEF LoopsAreCounted

(* One call changes, the notes stay. *)
LEMMA OneCall ==
  ASSUME DeliveryInv, NEW f \in Fetches, NEW c, IsCall(c), call' = [call EXCEPT ![f] = c],
         UNCHANGED <<now, notes, stamped, uploads>>, failures' \in Nat,
         logged_in' \in BOOLEAN, wallet' \in [NoteIds -> Nat]
  PROVE  /\ NotesAreTyped' /\ StampsAreNew'
         /\ DOMAIN call' = Fetches /\ call'[f] = c /\ \A g \in Fetches : g # f => call'[g] = call[g]
<1>1. DOMAIN call = Fetches /\ \A g \in Fetches : IsCall(call[g])
  BY DEF DeliveryInv, NotesAreTyped
<1>2. DOMAIN call' = Fetches /\ call'[f] = c /\ \A g \in Fetches : g # f => call'[g] = call[g]
  BY <1>1
<1>3. \A g \in Fetches : IsCall(call'[g])
  BY <1>1, <1>2
<1>4. NotesAreTyped'
  BY <1>2, <1>3, NextTypeForms DEF DeliveryInv, NotesAreTyped
<1>5. StampsAreNew'
  BY DEF DeliveryInv, StampsAreNew
<1> QED BY <1>2, <1>4, <1>5

(* Time passes.                                                            *)
LEMMA TickKeepsInv ==
  ASSUME DeliveryInv, Tick
  PROVE  DeliveryInv'
<1> USE DEF DeliveryInv
<1>1. /\ now < MaxTime /\ now' = now + 1
      /\ UNCHANGED <<notes, stamped, uploads, evicted, logged_in, timers, ref_live,
                     call, wallet, logins, failures, closed, overlapped>>
  BY DEF Tick, server, polling
<1>2. now' \in 1..MaxTime
  BY <1>1, TypeFacts
<1>3. NotesAreTyped' /\ LoopsAreCounted'
  BY <1>1, <1>2, NextTypeForms, LoopForms DEF NotesAreTyped
<1>4. StampsAreNew'
  BY <1>1 DEF StampsAreNew
<1>5. IdsHaveArrived' /\ NotesMoveOnce' /\ NoteIsSomewhere'
  BY <1>1, CallsKeepIds
<1> QED BY <1>3, <1>4, <1>5

(* A stamp is a new id, which has not arrived. *)
LEMMA StampKeepsInv ==
  ASSUME DeliveryInv, NEW u \in Uploaders, Stamp(u)
  PROVE  DeliveryInv'
<1> USE DEF DeliveryInv
<1> DEFINE note == [id |-> uploads + 1, stored_at |-> now]
<1>1. /\ stamped[u] = <<>> /\ uploads < MaxUploads /\ uploads' = uploads + 1
      /\ stamped' = [stamped EXCEPT ![u] = note]
      /\ UNCHANGED <<now, notes, evicted, logged_in, timers, ref_live, call, wallet, logins,
                     failures, closed, overlapped>>
  BY DEF Stamp, polling
<1>2. uploads \in Nat /\ uploads' \in 0..MaxUploads /\ uploads + 1 \in NoteIds
  BY <1>1, TypeFacts DEF NoteIds
<1>3. NotesAreTyped' /\ LoopsAreCounted'
  BY <1>1, <1>2, NextTypeForms, LoopForms DEF NotesAreTyped
<1>4. note \in Note /\ note.id = uploads + 1 /\ note # <<>>
  <2>1. note \in Note /\ note.id = uploads + 1
    BY <1>2, TypeFacts DEF Note
  <2>2. DOMAIN note # {} /\ DOMAIN <<>> = {}
    OBVIOUS
  <2>3. note # <<>>
    BY <2>2
  <2> QED BY <2>1, <2>3
<1> HIDE DEF note
<1>5. /\ DOMAIN stamped = Uploaders
      /\ \A v \in Uploaders : stamped[v] # <<>> => stamped[v] \in Note /\ stamped[v].id <= uploads
                                                  /\ stamped[v].id \in NoteIds
  <2>1. \A n \in Note : n.id \in NoteIds
    BY DEF Note
  <2> QED BY <2>1 DEF StampsAreNew
<1>6. stamped'[u] = note /\ \A v \in Uploaders : v # u => stamped'[v] = stamped[v]
  BY <1>1, <1>5
<1>7. StampsAreNew'
  <2>1. DOMAIN stamped' = Uploaders
    BY <1>1, <1>5
  <2>2. \A v \in Uploaders : stamped[v] # <<>> => stamped[v].id <= uploads' /\ stamped[v].id # uploads + 1
    BY <1>1, <1>2, <1>5 DEF NoteIds
  <2>3. \A v \in Uploaders : stamped'[v] # <<>> => stamped'[v] \in Note /\ stamped'[v].id <= uploads'
    BY <1>1, <1>2, <1>4, <1>5, <1>6, <2>2
  <2>4. \A v, w \in Uploaders :
          stamped'[v] # <<>> /\ stamped'[w] # <<>> /\ stamped'[v].id = stamped'[w].id => v = w
    BY <1>4, <1>6, <2>2 DEF StampsAreNew
  <2> QED BY <2>1, <2>3, <2>4 DEF StampsAreNew
<1>8. \A id \in NoteIds : ArrivedIn(id, uploads', stamped') <=> ArrivedIn(id, uploads, stamped)
  BY <1>1, <1>2, <1>4, <1>6 DEF ArrivedIn, NoteIds
<1>9. AllArrived(QueueOf(notes', Me), call', uploads', stamped')
  BY <1>1, <1>8, IdsAreNumbers, IdForms DEF AllArrived
<1>10. failures' = 0 /\ ~overlapped' => MovedOnce(QueueOf(notes', Me), call', wallet', uploads', stamped')
  BY <1>1, <1>8, IdForms DEF MovedOnce
<1>11. ~closed' => Somewhere(QueueOf(notes', Me), call', wallet', evicted', uploads', stamped')
  BY <1>1, <1>8, IdForms DEF Somewhere
<1>12. IdsHaveArrived' /\ NotesMoveOnce' /\ NoteIsSomewhere'
  BY <1>9, <1>10, <1>11, NextIdForms
<1> QED BY <1>3, <1>7, <1>12

(* An inserted note arrives; what it pushes out of the queue is evicted. *)
LEMMA InsertKeepsInv ==
  ASSUME DeliveryInv, NEW u \in Uploaders, Insert(u)
  PROVE  DeliveryInv'
<1> USE DEF DeliveryInv
<1> DEFINE note == stamped[u]
           p == QueueOf(notes, Me)
           q == QueueOf(notes', Me)
<1>1. /\ note # <<>> /\ notes' = insert(notes, Me, note)
      /\ evicted' = evicted \cup (IdsOf(p) \ IdsOf(q))
      /\ stamped' = [stamped EXCEPT ![u] = <<>>]
      /\ UNCHANGED <<now, uploads, logged_in, timers, ref_live, call, wallet, logins,
                     failures, closed, overlapped>>
  <2>1. evicted' = evicted \cup (IdsOf(Queue) \ IdsOf(QueueOf(notes', Me)))
    BY DEF Insert
  <2> QED BY <2>1 DEF Insert, polling, Queue
<1>2. note \in Note /\ note.id <= uploads /\ note.id \in NoteIds /\ DOMAIN stamped = Uploaders
  <2>1. \A n \in Note : n.id \in NoteIds
    BY DEF Note
  <2> QED BY <1>1, <2>1 DEF StampsAreNew
<1>3. stamped'[u] = <<>> /\ \A v \in Uploaders : v # u => stamped'[v] = stamped[v]
  BY <1>1, <1>2
<1>4. \A v \in Uploaders : v # u /\ stamped[v] # <<>> => stamped[v].id # note.id
  BY <1>1 DEF StampsAreNew
<1>5. note.id \notin IdsOf(p)
  BY <1>1, IdForms DEF AllArrived, ArrivedIn
<1> HIDE DEF note, p, q
<1>6. AreQueues(notes, Note)
  BY DEF NotesAreTyped
<1>7. /\ AreQueues(notes', Note) /\ IdsOf(q) \subseteq IdsOf(p) \cup {note.id}
      /\ note.id \in IdsOf(q) /\ Distinct(q)
  <2>1. /\ AreQueues(notes', Note)
        /\ IdsOf(q) \subseteq IdsOf(p) \cup {note.id}
        /\ note.id \in IdsOf(q)
        /\ Distinct(p) /\ note.id \notin IdsOf(p) => Distinct(q)
    BY <1>1, <1>2, <1>6, InsertIds DEF p, q
  <2> QED BY <2>1, <1>5, IdForms DEF AllArrived, p
<1>8. NotesAreTyped' /\ LoopsAreCounted'
  BY <1>1, <1>7, NextTypeForms, LoopForms DEF NotesAreTyped
<1>9. StampsAreNew'
  <2>1. DOMAIN stamped' = Uploaders
    BY <1>1, <1>2
  <2>2. \A v \in Uploaders : stamped'[v] # <<>> => stamped'[v] = stamped[v]
    BY <1>3
  <2> QED BY <1>1, <2>1, <2>2 DEF StampsAreNew
<1>10. /\ \A id : ArrivedIn(id, uploads, stamped) => ArrivedIn(id, uploads', stamped')
       /\ ArrivedIn(note.id, uploads', stamped')
       /\ \A id \in NoteIds : ArrivedIn(id, uploads', stamped') /\ id # note.id => ArrivedIn(id, uploads, stamped)
       /\ ~ArrivedIn(note.id, uploads, stamped)
  BY <1>1, <1>2, <1>3, <1>4 DEF ArrivedIn, note
<1>11. AllArrived(q, call', uploads', stamped')
  BY <1>1, <1>7, <1>10, IdForms DEF AllArrived, p
<1>12. failures' = 0 /\ ~overlapped' => MovedOnce(q, call', wallet', uploads', stamped')
  <2> SUFFICES ASSUME failures' = 0, ~overlapped' PROVE MovedOnce(q, call', wallet', uploads', stamped')
    OBVIOUS
  <2>1. MovedOnce(p, call, wallet, uploads, stamped)
    BY <1>1, IdForms DEF p
  <2>2. \A f \in Fetches : note.id \notin IdsOf(call[f].hands)
    BY <1>10, IdForms DEF AllArrived
  <2> QED BY <1>1, <1>7, <1>10, <2>1, <2>2 DEF MovedOnce
<1>13. ~closed' => Somewhere(q, call', wallet', evicted', uploads', stamped')
  <2> SUFFICES ASSUME ~closed, NEW id \in NoteIds, ArrivedIn(id, uploads', stamped')
               PROVE  \/ id \in evicted' \/ id \in IdsOf(q) \/ wallet[id] > 0
                      \/ \E f \in Fetches : id \in IdsOf(call[f].hands)
    BY <1>1 DEF Somewhere
  <2>1. CASE id = note.id
    BY <1>7, <2>1
  <2>2. CASE id # note.id
    BY <1>1, <1>10, <2>2, IdForms DEF Somewhere, p
  <2> QED BY <2>1, <2>2
<1>14. IdsHaveArrived' /\ NotesMoveOnce' /\ NoteIsSomewhere'
  BY <1>11, <1>12, <1>13, NextIdForms DEF q
<1> QED BY <1>8, <1>9, <1>14

----------------------------------------------------------------------------
(* What the cleanup of the effect leaves of the timers. *)
LEMMA CleanupFacts ==
  ASSUME DeliveryInv
  PROVE  AfterCleanup \in Seq(Since) /\ Len(AfterCleanup) \in Nat /\ Len(AfterCleanup) <= Len(timers)
<1>1. timers \in Seq(Since) /\ (ref_live => timers # <<>>)
  BY LoopForms DEF DeliveryInv
<1>2. CASE ref_live
  <2>1. AfterCleanup = SubSeq(timers, 1, Len(timers) - 1) /\ Len(timers) \in Nat /\ Len(timers) # 0
    BY <1>1, <1>2 DEF AfterCleanup
  <2> DEFINE n == Len(timers) - 1
  <2>2. n \in Nat /\ 1 \in Int /\ n \in Int /\ \A i \in 1..n : timers[i] \in Since
    BY <1>1, <2>1
  <2> HIDE DEF n
  <2>3. SubSeq(timers, 1, n) \in Seq(Since) /\ Len(SubSeq(timers, 1, n)) = IF 1 <= n THEN n - 1 + 1 ELSE 0
    BY <2>2, SubSeqProperties
  <2> QED BY <2>1, <2>2, <2>3 DEF n
<1>3. CASE ~ref_live
  BY <1>1, <1>3 DEF AfterCleanup
<1> QED BY <1>2, <1>3

(* A login starts a call with empty hands, and a loop. *)
LEMMA LoginKeepsInv ==
  ASSUME DeliveryInv, NEW f \in Fetches, NEW since \in {-1} \cup 1..now, Login(f, since)
  PROVE  DeliveryInv'
<1> USE DEF DeliveryInv
<1> DEFINE c == Requested(since, FALSE)
<1>1. /\ logins < MaxLogins /\ call[f].phase = "idle" /\ logged_in' = TRUE /\ logins' = logins + 1
      /\ timers' = Append(timers, since) \/ timers' = Append(AfterCleanup, since)
      /\ ref_live' = TRUE /\ call' = [call EXCEPT ![f] = c]
      /\ UNCHANGED <<now, notes, stamped, uploads, evicted, wallet, failures, closed, overlapped>>
  BY DEF Login, server
<1>2. since \in Since
  BY TypeFacts DEF Since
<1>3. IsCall(c) /\ c.batch = <<>> /\ c.hands = <<>> /\ ~c.polled /\ c.phase = "requested"
  BY <1>2, NewCalls
<1> HIDE DEF c
<1>4. /\ NotesAreTyped' /\ StampsAreNew'
      /\ call'[f] = c /\ \A g \in Fetches : g # f => call'[g] = call[g]
  BY <1>1, <1>3, OneCall DEF NotesAreTyped
<1>5. LoopsAreCounted'
  <2>1. /\ Cardinality(PolledIn(call')) = Cardinality(PolledIn(call)) /\ Cardinality(PolledIn(call)) \in Nat
    <3>1. call'[f].polled <=> call[f].polled
      BY <1>1, <1>3, <1>4, TypeFacts
    <3>2. \A g \in Fetches : g # f => (call'[g].polled <=> call[g].polled)
      BY <1>4
    <3> QED BY <3>1, <3>2, PolledFacts
  <2>2. timers \in Seq(Since) /\ logins \in 0..MaxLogins /\ Len(timers) + Cardinality(PolledIn(call)) <= logins
    BY LoopForms
  <2>3. timers' \in Seq(Since) /\ Len(timers') <= Len(timers) + 1 /\ Len(timers') # 0
    <3>1. \A t \in Seq(Since) : /\ Append(t, since) \in Seq(Since)
                                /\ Len(Append(t, since)) = Len(t) + 1 /\ Len(t) \in Nat
      BY <1>2
    <3>2. CASE timers' = Append(timers, since)
      BY <2>2, <3>1, <3>2
    <3>3. CASE timers' = Append(AfterCleanup, since)
      BY <2>2, <3>1, <3>3, CleanupFacts
    <3> QED BY <1>1, <3>2, <3>3
  <2>4. timers' # <<>> /\ Len(timers') \in Nat /\ Len(timers) \in Nat /\ MaxLogins \in Nat
    BY <2>2, <2>3, DeliveryAssumption
  <2>5. logins' \in 0..MaxLogins /\ Len(timers') + Cardinality(PolledIn(call')) <= logins'
    BY <1>1, <2>1, <2>2, <2>3, <2>4
  <2> QED BY <1>1, <2>3, <2>4, <2>5, NextTypeForms
<1>6. IdsHaveArrived' /\ NotesMoveOnce' /\ NoteIsSomewhere'
  <2>1. \A g \in Fetches : /\ call'[g].batch = call[g].batch /\ call'[g].hands = call[g].hands
                           /\ call'[g].phase = "processing" => call[g].phase = "processing"
    BY <1>1, <1>3, <1>4, TypeFacts
  <2> QED BY <1>1, <2>1, CallsKeepIds
<1> QED BY <1>4, <1>5, <1>6

(* A logout leaves fewer timers, and the calls.                            *)
LEMMA LogoutKeepsInv ==
  ASSUME DeliveryInv, Logout
  PROVE  DeliveryInv'
<1> USE DEF DeliveryInv
<1>1. /\ logged_in' = FALSE /\ timers' = AfterCleanup /\ ref_live' = FALSE
      /\ UNCHANGED <<now, notes, stamped, uploads, evicted, call, wallet, logins, failures, closed, overlapped>>
  BY DEF Logout, server
<1>2. NotesAreTyped'
  BY <1>1, NextTypeForms DEF NotesAreTyped
<1>3. StampsAreNew'
  BY <1>1 DEF StampsAreNew
<1>4. LoopsAreCounted'
  <2>1. /\ logins \in 0..MaxLogins /\ Len(timers) \in Nat /\ Cardinality(PolledIn(call)) \in Nat
        /\ Len(timers) + Cardinality(PolledIn(call)) <= logins
    <3>1. IsFiniteSet(PolledIn(call))
      BY DeliveryAssumption, FS_Subset DEF PolledIn
    <3>2. Cardinality(PolledIn(call)) \in Nat
      BY <3>1, FS_CardinalityType
    <3> QED BY <3>2, LoopForms
  <2>2. Len(timers') + Cardinality(PolledIn(call')) <= logins'
    BY <1>1, <2>1, CleanupFacts
  <2> QED BY <1>1, <2>1, <2>2, CleanupFacts, NextTypeForms
<1>5. IdsHaveArrived' /\ NotesMoveOnce' /\ NoteIsSomewhere'
  BY <1>1, CallsKeepIds
<1> QED BY <1>2, <1>3, <1>4, <1>5

(* Closing the page drops what is in hand. *)
LEMMA ClosePageKeepsInv ==
  ASSUME DeliveryInv, ClosePage
  PROVE  DeliveryInv'
<1> USE DEF DeliveryInv
<1>1. /\ logged_in' = FALSE /\ timers' = <<>> /\ ref_live' = FALSE /\ closed' = TRUE
      /\ call' = [f \in Fetches |-> Idle]
      /\ UNCHANGED <<now, notes, stamped, uploads, evicted, wallet, logins, failures, overlapped>>
  BY DEF ClosePage, server
<1>2. IsCall(Idle) /\ Idle.batch = <<>> /\ Idle.hands = <<>> /\ ~Idle.polled /\ Idle.phase = "idle"
  <2>1. -1 \in Since /\ TRUE \in BOOLEAN
    BY DEF Since
  <2> QED BY <2>1, NewCalls
<1>3. DOMAIN call' = Fetches /\ \A f \in Fetches : call'[f] = Idle
  BY <1>1
<1>4. NotesAreTyped'
  BY <1>1, <1>2, <1>3, NextTypeForms DEF NotesAreTyped
<1>5. StampsAreNew'
  BY <1>1 DEF StampsAreNew
<1>6. LoopsAreCounted'
  <2>1. PolledIn(call') = {}
    BY <1>2, <1>3 DEF PolledIn
  <2>2. Cardinality(PolledIn(call')) = 0
    BY <2>1, FS_EmptySet
  <2>3. logins \in 0..MaxLogins /\ MaxLogins \in Nat
    BY LoopForms, DeliveryAssumption
  <2>4. <<>> \in Seq(Since) /\ Len(<<>>) = 0
    OBVIOUS
  <2>5. logins' \in 0..MaxLogins /\ Len(timers') + Cardinality(PolledIn(call')) <= logins'
    BY <1>1, <2>2, <2>3, <2>4
  <2> QED BY <1>1, <2>4, <2>5, NextTypeForms
<1>7. \A f \in Fetches : IdsOf(call'[f].batch) = {} /\ IdsOf(call'[f].hands) = {} /\ Distinct(call'[f].batch)
                         /\ call'[f].phase = "idle"
  <2>1. IdsOf(<<>>) = {} /\ Distinct(<<>>)
    <3>1. 1..Len(<<>>) = {}
      OBVIOUS
    <3>2. \A x : x \notin IdsOf(<<>>)
      BY <3>1, IdsOfFacts
    <3> QED BY <3>1, <3>2 DEF Distinct
  <2> QED BY <1>2, <1>3, <2>1
<1>8. AllArrived(QueueOf(notes', Me), call', uploads', stamped')
  BY <1>1, <1>7, IdForms DEF AllArrived
<1>9. failures' = 0 /\ ~overlapped' => MovedOnce(QueueOf(notes', Me), call', wallet', uploads', stamped')
  BY <1>1, <1>7, IdForms DEF MovedOnce
<1>10. IdsHaveArrived' /\ NotesMoveOnce' /\ NoteIsSomewhere'
  BY <1>1, <1>8, <1>9, NextIdForms
<1> QED BY <1>4, <1>5, <1>6, <1>10

----------------------------------------------------------------------------
(* A timer that fires is a call with empty hands. *)
LEMMA TimerFiresKeepsInv ==
  ASSUME DeliveryInv, NEW f \in Fetches, TimerFires(f)
  PROVE  DeliveryInv'
<1> USE DEF DeliveryInv
<1> DEFINE c == Requested(Head(timers), TRUE)
<1>1. /\ timers # <<>> /\ call[f].phase = "idle" /\ timers' = Tail(timers)
      /\ ref_live' = (ref_live /\ Len(timers) > 1)
      /\ call' = [call EXCEPT ![f] = c]
      /\ UNCHANGED <<now, notes, stamped, uploads, evicted, logged_in, wallet, logins, failures,
                     closed, overlapped>>
  BY DEF TimerFires, server
<1>2. /\ timers \in Seq(Since) /\ ref_live \in BOOLEAN /\ logins \in 0..MaxLogins
      /\ Len(timers) + Cardinality(PolledIn(call)) <= logins
  BY LoopForms
<1>3. /\ Head(timers) \in Since /\ Tail(timers) \in Seq(Since) /\ Len(timers) \in Nat
      /\ Len(Tail(timers)) = Len(timers) - 1
      /\ Len(timers) > 1 => Tail(timers) # <<>>
  <2>1. Head(timers) \in Since /\ Tail(timers) \in Seq(Since) /\ Len(Tail(timers)) = Len(timers) - 1
    BY <1>1, <1>2, HeadTailProperties
  <2>2. Len(timers) \in Nat
    BY <1>2
  <2>3. Len(<<>>) = 0
    OBVIOUS
  <2>4. ASSUME Len(timers) > 1, Tail(timers) = <<>>
        PROVE  FALSE
    BY <2>1, <2>2, <2>3, <2>4
  <2> QED BY <2>1, <2>2, <2>4
<1>4. IsCall(c) /\ c.batch = <<>> /\ c.hands = <<>> /\ c.polled /\ c.phase = "requested"
  <2>1. TRUE \in BOOLEAN
    OBVIOUS
  <2> QED BY <1>3, <2>1, NewCalls
<1> HIDE DEF c
<1>5. /\ NotesAreTyped' /\ StampsAreNew'
      /\ call'[f] = c /\ \A g \in Fetches : g # f => call'[g] = call[g]
  BY <1>1, <1>4, OneCall DEF NotesAreTyped
<1>6. LoopsAreCounted'
  <2>1. /\ Cardinality(PolledIn(call')) = Cardinality(PolledIn(call)) + 1
        /\ Cardinality(PolledIn(call)) \in Nat
    <3>1. call'[f].polled /\ ~call[f].polled
      BY <1>1, <1>4, <1>5, TypeFacts
    <3>2. \A g \in Fetches : g # f => (call'[g].polled <=> call[g].polled)
      BY <1>5
    <3> QED BY <3>1, <3>2, PolledFacts
  <2>2. Len(timers') + Cardinality(PolledIn(call')) <= logins' /\ logins' \in 0..MaxLogins
    BY <1>1, <1>2, <1>3, <2>1
  <2>3. ref_live' \in BOOLEAN /\ (ref_live' => timers' # <<>>)
    BY <1>1, <1>2, <1>3
  <2> QED BY <1>1, <1>3, <2>2, <2>3, NextTypeForms
<1>7. IdsHaveArrived' /\ NotesMoveOnce' /\ NoteIsSomewhere'
  <2>1. \A g \in Fetches : /\ call'[g].batch = call[g].batch /\ call'[g].hands = call[g].hands
                           /\ call'[g].phase = "processing" => call[g].phase = "processing"
    BY <1>1, <1>4, <1>5, TypeFacts
  <2> QED BY <1>1, <2>1, CallsKeepIds
<1> QED BY <1>5, <1>6, <1>7

(* The end of a call that a loop waited for arms its timer again. *)
LEMMA EndedKeepsLoops ==
  ASSUME DeliveryInv, NEW f \in Fetches, Ended(f), UNCHANGED logins
  PROVE  /\ LoopsAreCounted' /\ IsCall(Idle) /\ Idle.batch = <<>> /\ Idle.hands = <<>>
         /\ Idle.phase = "idle" /\ call' = [call EXCEPT ![f] = Idle]
<1> USE DEF DeliveryInv
<1>1. /\ call' = [call EXCEPT ![f] = Idle]
      /\ timers' = IF call[f].polled THEN Append(timers, call[f].since) ELSE timers
      /\ ref_live' = (ref_live \/ call[f].polled)
  BY DEF Ended
<1>2. /\ timers \in Seq(Since) /\ ref_live \in BOOLEAN /\ (ref_live => timers # <<>>)
      /\ logins \in 0..MaxLogins
      /\ Len(timers) + Cardinality(PolledIn(call)) <= logins
  BY LoopForms
<1>3. IsCall(Idle) /\ Idle.batch = <<>> /\ Idle.hands = <<>> /\ ~Idle.polled /\ Idle.phase = "idle"
  <2>1. -1 \in Since /\ TRUE \in BOOLEAN
    BY DEF Since
  <2> QED BY <2>1, NewCalls
<1>4. call'[f] = Idle /\ \A g \in Fetches : g # f => call'[g] = call[g]
  BY <1>1 DEF NotesAreTyped
<1>5. call[f].polled \in BOOLEAN /\ call[f].since \in Since
  BY TypeFacts
<1>6. \A g \in Fetches : g # f => (call'[g].polled <=> call[g].polled)
  BY <1>4
<1>7. CASE call[f].polled
  <2>1. /\ Cardinality(PolledIn(call')) = Cardinality(PolledIn(call)) - 1
        /\ Cardinality(PolledIn(call)) \in Nat
    <3>1. ~call'[f].polled
      BY <1>3, <1>4
    <3> QED BY <1>6, <1>7, <3>1, PolledFacts
  <2>2. timers' \in Seq(Since) /\ Len(timers') = Len(timers) + 1 /\ Len(timers) \in Nat /\ timers' # <<>>
    BY <1>1, <1>2, <1>5, <1>7
  <2>3. Len(timers') + Cardinality(PolledIn(call')) <= logins'
    BY <1>2, <2>1, <2>2
  <2>4. ref_live' = TRUE
    BY <1>1, <1>2, <1>7
  <2> QED BY <1>1, <1>2, <1>3, <2>2, <2>3, <2>4, NextTypeForms
<1>8. CASE ~call[f].polled
  <2>1. Cardinality(PolledIn(call')) = Cardinality(PolledIn(call))
    <3>1. call'[f].polled <=> call[f].polled
      BY <1>3, <1>4, <1>8
    <3> QED BY <1>6, <3>1, PolledFacts
  <2>2. timers' = timers /\ (ref_live' <=> ref_live) /\ ref_live' \in BOOLEAN
    BY <1>1, <1>2, <1>8
  <2> QED BY <1>1, <1>2, <1>3, <2>1, <2>2, NextTypeForms
<1> QED BY <1>7, <1>8

(* A failed request ends a call that has no notes yet.                     *)
LEMMA FetchFailsKeepsInv ==
  ASSUME DeliveryInv, NEW f \in Fetches, FetchFails(f)
  PROVE  DeliveryInv'
<1> USE DEF DeliveryInv
<1>1. /\ call[f].phase = "requested" /\ failures < MaxFailures /\ failures' = failures + 1
      /\ Ended(f)
      /\ UNCHANGED <<now, notes, stamped, uploads, evicted, logged_in, wallet, logins,
                     closed, overlapped>>
  BY DEF FetchFails, server
<1>2. /\ LoopsAreCounted' /\ IsCall(Idle) /\ Idle.batch = <<>> /\ Idle.hands = <<>>
      /\ Idle.phase = "idle" /\ call' = [call EXCEPT ![f] = Idle]
  BY <1>1, EndedKeepsLoops
<1>3. /\ NotesAreTyped' /\ StampsAreNew'
      /\ call'[f] = Idle /\ \A g \in Fetches : g # f => call'[g] = call[g]
  <2>1. failures' \in Nat
    BY <1>1 DEF NotesAreTyped
  <2> QED BY <1>1, <1>2, <2>1, OneCall DEF NotesAreTyped
<1>4. \A g \in Fetches : /\ call'[g].batch = call[g].batch /\ call'[g].hands = call[g].hands
                         /\ call'[g].phase = "processing" => call[g].phase = "processing"
  BY <1>1, <1>2, <1>3, TypeFacts
<1>5. IdsHaveArrived'  /\ NotesMoveOnce' /\ NoteIsSomewhere'
  <2>1. failures' = 0 => failures = 0
    BY <1>1 DEF NotesAreTyped
  <2> QED BY <1>1, <1>4, <2>1, CallsKeepIds
<1> QED BY <1>2, <1>3, <1>5

----------------------------------------------------------------------------
(* There is no id in an empty queue.                                       *)
LEMMA NoIds == IdsOf(<<>>) = {} /\ Distinct(<<>>)
<1>1. 1..Len(<<>>) = {}
  OBVIOUS
<1>2. \A x : x \notin IdsOf(<<>>)
  BY <1>1, IdsOfFacts
<1> QED BY <1>1, <1>2 DEF Distinct

(* A fetch gets notes that are in the queue; it overlaps with every other  *)
(* call that has notes.                                                    *)
LEMMA FetchKeepsInv ==
  ASSUME DeliveryInv, NEW f \in Fetches, Fetch(f)
  PROVE  DeliveryInv'
<1> USE DEF DeliveryInv
<1> DEFINE page == get_notes(notes, Me, call[f].since).notes
           c == [call[f] EXCEPT !.phase = "processing", !.batch = page]
           p == QueueOf(notes, Me)
<1>1. /\ call[f].phase = "requested" /\ call' = [call EXCEPT ![f] = c]
      /\ overlapped' = (overlapped \/ \E g \in Fetches : call[g].phase = "processing")
      /\ UNCHANGED <<now, notes, stamped, uploads, evicted, logged_in, timers, ref_live, wallet,
                     logins, failures, closed>>
  BY DEF Fetch, server, polling
<1>2. AreQueues(notes, Note)
  BY DEF NotesAreTyped
<1>3. page \in Seq(Note) /\ IdsOf(page) \subseteq IdsOf(p) /\ Distinct(page)
  <2>1. /\ page \in Seq(Note) /\ IdsOf(page) \subseteq IdsOf(p)
        /\ Distinct(p) => Distinct(page)
    BY <1>2, PageIds
  <2>2. Distinct(p)
    BY IdForms DEF AllArrived
  <2> QED BY <2>1, <2>2
<1> HIDE DEF page, p
<1>4. /\ IsCall(c) /\ c.phase = "processing" /\ c.batch = page /\ c.hands = call[f].hands
      /\ c.hands = <<>> /\ (c.polled <=> call[f].polled)
  <2> DEFINE N == Seq(Note)
  <2>1. IsCall(call[f]) /\ call[f].hands = <<>> /\ page \in N
    BY <1>1, <1>3, TypeFacts DEF NotesAreTyped
  <2> HIDE DEF N
  <2> QED BY <2>1 DEF IsCall, N
<1> HIDE DEF c
<1>5. /\ NotesAreTyped' /\ StampsAreNew'
      /\ call'[f] = c /\ \A g \in Fetches : g # f => call'[g] = call[g]
  BY <1>1, <1>4, OneCall DEF NotesAreTyped
<1>6. LoopsAreCounted'
  <2>1. Cardinality(PolledIn(call')) = Cardinality(PolledIn(call))
    <3>1. \A g \in Fetches : g # f => (call'[g].polled <=> call[g].polled)
      BY <1>5
    <3>2. call'[f].polled <=> call[f].polled
      BY <1>4, <1>5
    <3> QED BY <3>1, <3>2, PolledFacts
  <2> QED BY <1>1, <2>1, LoopForms, NextTypeForms
<1>7. AllArrived(QueueOf(notes', Me), call', uploads', stamped')
  BY <1>1, <1>3, <1>4, <1>5, IdForms DEF AllArrived, p
<1>8. failures' = 0 /\ ~overlapped' => MovedOnce(QueueOf(notes', Me), call', wallet', uploads', stamped')
  <2> SUFFICES ASSUME failures' = 0, ~overlapped'
               PROVE  MovedOnce(p, call', wallet, uploads, stamped)
    BY <1>1 DEF p
  <2>1. \A g \in Fetches : call[g].phase # "processing"
    BY <1>1
  <2>2. MovedOnce(p, call, wallet, uploads, stamped)
    BY <1>1, IdForms DEF p
  <2>3. \A g \in Fetches : call'[g].hands = <<>>
    BY <1>4, <1>5, <2>1, TypeFacts
  <2>4. \A g, h \in Fetches : call'[g].phase = "processing" /\ call'[h].phase = "processing" => g = h
    BY <1>5, <2>1
  <2>5. \A id \in NoteIds : wallet[id] > 0 =>
          \A g \in Fetches : id \notin IdsOf(call'[g].batch) \cup IdsOf(call'[g].hands)
    <3> SUFFICES ASSUME NEW id \in NoteIds, wallet[id] > 0, NEW g \in Fetches
                 PROVE  id \notin IdsOf(call'[g].batch)
      BY <2>3, NoIds
    <3>1. CASE g = f
      BY <3>1, <1>3, <1>4, <1>5, <2>2 DEF MovedOnce
    <3>2. CASE g # f
      BY <3>2, <1>5, <2>2 DEF MovedOnce
    <3> QED BY <3>1, <3>2
  <2> QED BY <2>2, <2>3, <2>4, <2>5, NoIds DEF MovedOnce
<1>9. ~closed' => Somewhere(QueueOf(notes', Me), call', wallet', evicted', uploads', stamped')
  <2>1. \A g \in Fetches : call'[g].hands = call[g].hands
    BY <1>4, <1>5
  <2> QED BY <1>1, <2>1, IdForms DEF Somewhere
<1> QED BY <1>5, <1>6, <1>7, <1>8, <1>9, NextIdForms

(* The ids of a batch from which the first note is taken, and of the hands *)
(* that take it.                                                           *)
LEMMA BatchIds ==
  ASSUME NEW batch \in Seq(Note), batch # <<>>, NEW hands \in Seq(Note),
         NEW note, note = Head(batch)
  PROVE  /\ note \in Note /\ Tail(batch) \in Seq(Note) /\ Append(hands, note) \in Seq(Note)
         /\ IdsOf(batch) = IdsOf(Tail(batch)) \cup {note.id}
         /\ IdsOf(Append(hands, note)) = IdsOf(hands) \cup {note.id}
         /\ Distinct(batch) => Distinct(Tail(batch)) /\ note.id \notin IdsOf(Tail(batch))
<1> DEFINE rest == Tail(batch)
           more == Append(hands, note)
<1>1. /\ note \in Note /\ rest \in Seq(Note) /\ Len(rest) = Len(batch) - 1
      /\ \A i \in 1..Len(rest) : rest[i] = batch[i + 1]
  BY HeadTailProperties
<1>2. Len(batch) \in Nat /\ Len(batch) # 0 /\ note = batch[1]
  OBVIOUS
<1>3. /\ more \in Seq(Note) /\ Len(more) = Len(hands) + 1 /\ Len(hands) \in Nat
      /\ more[Len(hands) + 1] = note /\ \A i \in 1..Len(hands) : more[i] = hands[i]
  BY <1>1
<1> HIDE DEF rest, more
<1>4. \A i \in 1..Len(batch) : i = 1 \/ (i - 1 \in 1..Len(rest) /\ batch[i] = rest[i - 1])
  <2>1. \A i \in 1..Len(batch) : i = 1 \/ (i - 1 \in 1..Len(rest) /\ (i - 1) + 1 = i)
    BY <1>1, <1>2
  <2> QED BY <1>1, <2>1
<1>5. IdsOf(batch) = IdsOf(rest) \cup {note.id}
  <2>1. \A i \in 1..Len(rest) : i + 1 \in 1..Len(batch)
    BY <1>1, <1>2
  <2>2. IdsOf(rest) \subseteq IdsOf(batch)
    <3> SUFFICES ASSUME NEW id \in IdsOf(rest) PROVE id \in IdsOf(batch)
      OBVIOUS
    <3>1. PICK i \in 1..Len(rest) : rest[i].id = id
      BY IdsOfFacts
    <3>2. i + 1 \in 1..Len(batch) /\ batch[i + 1].id = id
      BY ONLY <1>1, <2>1, <3>1
    <3> QED BY <3>2, IdsOfFacts
  <2>3. 1 \in 1..Len(batch)
    BY <1>2
  <2>4. note.id \in IdsOf(batch)
    BY <1>2, <2>3, IdsOfFacts
  <2>5. IdsOf(batch) \subseteq IdsOf(rest) \cup {note.id}
    <3> SUFFICES ASSUME NEW id \in IdsOf(batch), id # note.id
                 PROVE  id \in IdsOf(rest)
      OBVIOUS
    <3>1. PICK i \in 1..Len(batch) : batch[i].id = id
      BY IdsOfFacts
    <3>2. i - 1 \in 1..Len(rest) /\ rest[i - 1].id = id
      BY <1>2, <1>4, <3>1
    <3> QED BY <3>2, IdsOfFacts
  <2> QED BY <2>2, <2>4, <2>5
<1>6. IdsOf(more) = IdsOf(hands) \cup {note.id}
  <2>1. \A i \in 1..Len(more) : i = Len(hands) + 1 \/ i \in 1..Len(hands)
    BY <1>3
  <2>2. Len(hands) + 1 \in 1..Len(more) /\ 1..Len(hands) \subseteq 1..Len(more)
    BY <1>3
  <2>3. IdsOf(more) \subseteq IdsOf(hands) \cup {note.id}
    BY <1>3, <2>1, IdsOfFacts
  <2>4. note.id \in IdsOf(more)
    BY <1>3, <2>2, IdsOfFacts
  <2>5. IdsOf(hands) \subseteq IdsOf(more)
    BY <1>3, <2>2, IdsOfFacts
  <2> QED BY <2>3, <2>4, <2>5
<1>7. ASSUME Distinct(batch)
      PROVE  Distinct(rest) /\ note.id \notin IdsOf(rest)
  <2>1. \A i \in 1..Len(rest) : i + 1 \in 1..Len(batch) /\ rest[i] = batch[i + 1] /\ i + 1 # 1
    BY <1>1, <1>2
  <2>2. Distinct(rest)
    <3> SUFFICES ASSUME NEW i \in 1..Len(rest), NEW j \in 1..Len(rest), rest[i].id = rest[j].id
                 PROVE  i = j
      BY DEF Distinct
    <3>1. i + 1 \in 1..Len(batch) /\ j + 1 \in 1..Len(batch) /\ batch[i + 1].id = batch[j + 1].id
      BY <2>1
    <3>2. i + 1 = j + 1
      BY ONLY <1>7, <3>1 DEF Distinct
    <3> QED BY <3>2
  <2>3. note.id \notin IdsOf(rest)
    <3>1. 1 \in 1..Len(batch)
      BY <1>2
    <3>2. \A i \in 1..Len(rest) : rest[i].id # note.id
      <4>1. \A i, j \in 1..Len(batch) : batch[i].id = batch[j].id => i = j
        BY <1>7 DEF Distinct
      <4> QED BY ONLY <1>2, <2>1, <3>1, <4>1
    <3> QED BY <3>2, IdsOfFacts
  <2> QED BY <2>2, <2>3
<1> QED BY <1>1, <1>3, <1>5, <1>6, <1>7 DEF rest, more

(* A note that is read goes from the batch, and from the queue if the      *)
(* deletion succeeds, to the hands; another one stays in the queue.        *)
LEMMA ProcessNoteKeepsInv ==
  ASSUME DeliveryInv, NEW f \in Fetches, NEW delete_ok \in BOOLEAN, ProcessNote(f, delete_ok)
  PROVE  DeliveryInv'
<1> USE DEF DeliveryInv
<1> DEFINE batch == call[f].batch
           note == Head(batch)
           read == note.id \notin Unreadable
           hands == IF read THEN Append(call[f].hands, note) ELSE call[f].hands
           c == [call[f] EXCEPT !.batch = Tail(batch), !.hands = hands]
           p == QueueOf(notes, Me)
           q == QueueOf(notes', Me)
<1>1. /\ call[f].phase = "processing" /\ batch # <<>>
      /\ failures' = (IF delete_ok THEN failures ELSE failures + 1)
      /\ notes' = (IF read /\ delete_ok THEN delete_note(notes, Me, note.id).notes ELSE notes)
      /\ call' = [call EXCEPT ![f] = c]
      /\ UNCHANGED <<now, stamped, uploads, evicted, logged_in, timers, ref_live, wallet,
                     logins, closed, overlapped>>
  BY DEF ProcessNote, polling
<1>2. AreQueues(notes, Note) /\ failures \in Nat
  BY DEF NotesAreTyped
<1>3. batch \in Seq(Note) /\ call[f].hands \in Seq(Note) /\ IsCall(call[f])
  BY TypeFacts DEF NotesAreTyped
<1>4. Distinct(batch) /\ Distinct(p)
  BY IdForms DEF AllArrived
<1> HIDE DEF batch, p, q
<1>5. /\ note \in Note /\ Tail(batch) \in Seq(Note) /\ Append(call[f].hands, note) \in Seq(Note)
      /\ IdsOf(batch) = IdsOf(Tail(batch)) \cup {note.id}
      /\ IdsOf(Append(call[f].hands, note)) = IdsOf(call[f].hands) \cup {note.id}
      /\ Distinct(Tail(batch)) /\ note.id \notin IdsOf(Tail(batch))
  <2> DEFINE held == call[f].hands
  <2>1. held \in Seq(Note)
    BY <1>3
  <2> HIDE DEF held
  <2>2. /\ note \in Note /\ Tail(batch) \in Seq(Note) /\ Append(held, note) \in Seq(Note)
        /\ IdsOf(batch) = IdsOf(Tail(batch)) \cup {note.id}
        /\ IdsOf(Append(held, note)) = IdsOf(held) \cup {note.id}
        /\ Distinct(batch) => Distinct(Tail(batch)) /\ note.id \notin IdsOf(Tail(batch))
    BY <1>1, <1>3, <2>1, BatchIds
  <2> QED BY <1>4, <2>2 DEF held
<1> HIDE DEF note, read
<1>6. /\ AreQueues(notes', Note) /\ Distinct(q)
      /\ read /\ delete_ok => IdsOf(q) = IdsOf(p) \ {note.id}
      /\ ~(read /\ delete_ok) => IdsOf(q) = IdsOf(p)
  <2>1. CASE read /\ delete_ok
    <3>1. notes' = delete_note(notes, Me, note.id).notes
      BY <1>1, <2>1
    <3>2. /\ AreQueues(notes', Note) /\ IdsOf(q) = IdsOf(p) \ {note.id}
          /\ Distinct(p) => Distinct(q)
      BY <1>2, <3>1, DeleteIds DEF p, q
    <3> QED BY <1>4, <2>1, <3>2
  <2>2. CASE ~(read /\ delete_ok)
    <3>1. notes' = notes
      BY <1>1, <2>2
    <3> QED BY <1>2, <1>4, <2>2, <3>1 DEF p, q
  <2> QED BY <2>1, <2>2
<1>7. /\ hands \in Seq(Note)
      /\ read => IdsOf(hands) = IdsOf(call[f].hands) \cup {note.id}
      /\ ~read => IdsOf(hands) = IdsOf(call[f].hands)
  BY <1>3, <1>5
<1> HIDE DEF hands
<1>8. /\ IsCall(c) /\ c.phase = "processing" /\ c.batch = Tail(batch) /\ c.hands = hands
      /\ (c.polled <=> call[f].polled)
  <2> DEFINE N == Seq(Note)
  <2>1. Tail(batch) \in N /\ hands \in N
    BY <1>5, <1>7
  <2> HIDE DEF N
  <2> QED BY <1>1, <1>3, <2>1 DEF IsCall, N
<1> HIDE DEF c
<1>9. /\ DOMAIN call' = Fetches /\ call'[f] = c /\ \A g \in Fetches : g # f => call'[g] = call[g]
  BY <1>1 DEF NotesAreTyped
<1>10. NotesAreTyped'
  <2>1. failures' \in Nat
    BY <1>1, <1>2
  <2>2. \A g \in Fetches : IsCall(call'[g])
    BY <1>8, <1>9 DEF NotesAreTyped
  <2> QED BY <1>1, <1>6, <1>9, <2>1, <2>2, NextTypeForms DEF NotesAreTyped
<1>11. StampsAreNew'
  BY <1>1 DEF StampsAreNew
<1>12. LoopsAreCounted'
  <2>1. Cardinality(PolledIn(call')) = Cardinality(PolledIn(call))
    <3>1. \A g \in Fetches : g # f => (call'[g].polled <=> call[g].polled)
      BY <1>9
    <3>2. call'[f].polled <=> call[f].polled
      BY <1>8, <1>9
    <3> QED BY <3>1, <3>2, PolledFacts
  <2> QED BY <1>1, <2>1, LoopForms, NextTypeForms
<1>13. IdsOf(q) \subseteq IdsOf(p) /\ IdsOf(Tail(batch)) \subseteq IdsOf(batch)
       /\ IdsOf(hands) \subseteq IdsOf(call[f].hands) \cup {note.id} /\ note.id \in IdsOf(batch)
  BY <1>5, <1>6, <1>7
<1>14. AllArrived(q, call', uploads', stamped')
  <2>1. AllArrived(p, call, uploads, stamped)
    BY IdForms DEF p
  <2>2. \A id \in IdsOf(batch) \cup IdsOf(call[f].hands) : ArrivedIn(id, uploads, stamped)
    BY <2>1 DEF AllArrived, batch
  <2>3. \A g \in Fetches :
          /\ Distinct(call'[g].batch)
          /\ \A id \in IdsOf(call'[g].batch) \cup IdsOf(call'[g].hands) : ArrivedIn(id, uploads, stamped)
    <3> SUFFICES ASSUME NEW g \in Fetches
                 PROVE  /\ Distinct(call'[g].batch)
                        /\ \A id \in IdsOf(call'[g].batch) \cup IdsOf(call'[g].hands) :
                             ArrivedIn(id, uploads, stamped)
      OBVIOUS
    <3>1. CASE g = f
      BY <3>1, <1>5, <1>8, <1>9, <1>13, <2>2
    <3>2. CASE g # f
      BY <3>2, <1>9, <2>1 DEF AllArrived
    <3> QED BY <3>1, <3>2
  <2>4. \A id \in IdsOf(q) : ArrivedIn(id, uploads, stamped)
    BY <1>13, <2>1 DEF AllArrived
  <2> QED BY <1>1, <1>6, <2>3, <2>4 DEF AllArrived
<1>15. failures' = 0 /\ ~overlapped' => MovedOnce(q, call', wallet', uploads', stamped')
  <2> SUFFICES ASSUME failures' = 0, ~overlapped'
               PROVE  MovedOnce(q, call', wallet, uploads, stamped)
    BY <1>1
  <2>1. failures = 0 /\ delete_ok
    BY <1>1, <1>2
  <2>2. MovedOnce(p, call, wallet, uploads, stamped)
    BY <1>1, <2>1, IdForms DEF p
  <2>3. \A g \in Fetches : call'[g].phase = call[g].phase
    BY <1>1, <1>8, <1>9
  <2>4. \A g, h \in Fetches : call'[g].phase = "processing" /\ call'[h].phase = "processing" => g = h
    BY <2>2, <2>3 DEF MovedOnce
  <2>5. ASSUME NEW g \in Fetches, NEW id \in IdsOf(call'[g].hands)
        PROVE  id \notin IdsOf(q) /\ id \notin IdsOf(call'[g].batch)
    <3>1. CASE g # f
      BY <3>1, <2>5, <1>9, <1>13, <2>2 DEF MovedOnce
    <3>2. CASE g = f /\ id \in IdsOf(call[f].hands)
      <4>1. id \notin IdsOf(p) /\ id \notin IdsOf(batch)
        BY <3>2, <2>2 DEF MovedOnce, batch
      <4> QED BY <3>2, <4>1, <1>8, <1>9, <1>13
    <3>3. CASE g = f /\ id \notin IdsOf(call[f].hands)
      <4>1. read /\ id = note.id
        BY <3>3, <2>5, <1>7, <1>8, <1>9
      <4> QED BY <3>3, <4>1, <1>5, <1>6, <1>8, <1>9, <2>1
    <3> QED BY <3>1, <3>2, <3>3
  <2>6. ASSUME NEW id \in NoteIds, wallet[id] > 0
        PROVE  /\ wallet[id] = 1 /\ ArrivedIn(id, uploads, stamped) /\ id \notin IdsOf(q)
               /\ \A g \in Fetches : id \notin IdsOf(call'[g].batch) \cup IdsOf(call'[g].hands)
    <3>1. /\ wallet[id] = 1 /\ ArrivedIn(id, uploads, stamped) /\ id \notin IdsOf(p)
          /\ \A g \in Fetches : id \notin IdsOf(call[g].batch) \cup IdsOf(call[g].hands)
      BY <2>2, <2>6 DEF MovedOnce
    <3>2. id \notin IdsOf(batch) /\ id \notin IdsOf(call[f].hands)
      BY <3>1 DEF batch
    <3>3. id \notin IdsOf(call'[f].batch) \cup IdsOf(call'[f].hands)
      BY <3>2, <1>8, <1>9, <1>13
    <3> QED BY <3>1, <3>3, <1>9, <1>13
  <2> QED BY <2>4, <2>5, <2>6 DEF MovedOnce
<1>16. ~closed' => Somewhere(q, call', wallet', evicted', uploads', stamped')
  <2> SUFFICES ASSUME ~closed, NEW id \in NoteIds, ArrivedIn(id, uploads, stamped)
               PROVE  \/ id \in evicted \/ id \in IdsOf(q) \/ wallet[id] > 0
                      \/ \E g \in Fetches : id \in IdsOf(call'[g].hands)
    BY <1>1 DEF Somewhere
  <2>1. \/ id \in evicted \/ id \in IdsOf(p) \/ wallet[id] > 0
        \/ \E g \in Fetches : id \in IdsOf(call[g].hands)
    BY IdForms DEF Somewhere, p
  <2>2. CASE id \in IdsOf(p)
    <3>1. CASE id \in IdsOf(q)
      BY <3>1
    <3>2. CASE id \notin IdsOf(q)
      <4>1. read /\ id = note.id
        BY <2>2, <3>2, <1>6
      <4>2. id \in IdsOf(call'[f].hands)
        BY <4>1, <1>7, <1>8, <1>9
      <4> QED BY <4>2
    <3> QED BY <3>1, <3>2
  <2>3. CASE \E g \in Fetches : id \in IdsOf(call[g].hands)
    <3>1. \A g \in Fetches : IdsOf(call[g].hands) \subseteq IdsOf(call'[g].hands)
      <4>1. IdsOf(call[f].hands) \subseteq IdsOf(call'[f].hands)
        BY <1>7, <1>8, <1>9
      <4> QED BY <4>1, <1>9
    <3> QED BY <2>3, <3>1
  <2> QED BY <2>1, <2>2, <2>3
<1> QED BY <1>10, <1>11, <1>12, <1>14, <1>15, <1>16, NextIdForms DEF q

(* What is in hand goes to the wallet. *)
LEMMA StoreKeepsInv ==
  ASSUME DeliveryInv, NEW f \in Fetches, Store(f)
  PROVE  DeliveryInv'
<1> USE DEF DeliveryInv
<1> DEFINE held == IdsOf(call[f].hands)
           p == QueueOf(notes, Me)
<1>1. /\ call[f].phase = "processing" /\ call[f].batch = <<>>
      /\ wallet' = [id \in NoteIds |-> wallet[id] + IF id \in held THEN 1 ELSE 0]
      /\ Ended(f)
      /\ UNCHANGED <<now, notes, stamped, uploads, evicted, logged_in, logins, failures,
                     closed, overlapped>>
  BY DEF Store, server
<1> HIDE DEF held, p
<1>2. /\ LoopsAreCounted' /\ IsCall(Idle) /\ Idle.batch = <<>> /\ Idle.hands = <<>>
      /\ Idle.phase = "idle" /\ call' = [call EXCEPT ![f] = Idle]
  BY <1>1, EndedKeepsLoops
<1>3. \A id \in NoteIds : /\ wallet[id] \in Nat /\ wallet'[id] \in Nat
                          /\ id \in held => wallet'[id] = wallet[id] + 1
                          /\ id \notin held => wallet'[id] = wallet[id]
  BY <1>1 DEF NotesAreTyped
<1>4. wallet' \in [NoteIds -> Nat]
  BY <1>1, <1>3
<1>5. /\ NotesAreTyped' /\ StampsAreNew'
      /\ call'[f] = Idle /\ \A g \in Fetches : g # f => call'[g] = call[g]
  BY <1>1, <1>2, <1>4, OneCall DEF NotesAreTyped
<1>6. IdsOf(call'[f].batch) = {} /\ IdsOf(call'[f].hands) = {} /\ Distinct(call'[f].batch)
  BY <1>2, <1>5, NoIds
<1>7. AllArrived(p, call', uploads', stamped')
  BY <1>1, <1>5, <1>6, IdForms DEF AllArrived, p
<1>8. failures' = 0 /\ ~overlapped' => MovedOnce(p, call', wallet', uploads', stamped')
  <2> SUFFICES ASSUME failures' = 0, ~overlapped'
               PROVE  MovedOnce(p, call', wallet', uploads, stamped)
    BY <1>1
  <2>1. MovedOnce(p, call, wallet, uploads, stamped)
    BY <1>1, IdForms DEF p
  <2>2. \A g, h \in Fetches : call'[g].phase = "processing" /\ call'[h].phase = "processing" => g = h
    BY <1>2, <1>5, <2>1 DEF MovedOnce
  <2>3. \A g \in Fetches : \A id \in IdsOf(call'[g].hands) :
          id \notin IdsOf(p) /\ id \notin IdsOf(call'[g].batch)
    BY <1>5, <1>6, <2>1 DEF MovedOnce
  <2>4. ASSUME NEW id \in NoteIds, wallet'[id] > 0
        PROVE  /\ wallet'[id] = 1 /\ ArrivedIn(id, uploads, stamped) /\ id \notin IdsOf(p)
               /\ \A g \in Fetches : id \notin IdsOf(call'[g].batch) \cup IdsOf(call'[g].hands)
    <3>1. CASE id \in held
      <4>1. wallet'[id] = 1
        <5>1. ~(wallet[id] > 0)
          BY <3>1, <2>1 DEF MovedOnce, held
        <5> QED BY <3>1, <5>1, <1>3
      <4>2. ArrivedIn(id, uploads, stamped) /\ id \notin IdsOf(p)
        BY <3>1, <2>1, IdForms DEF MovedOnce, AllArrived, held
      <4>3. ASSUME NEW g \in Fetches
            PROVE  id \notin IdsOf(call'[g].batch) \cup IdsOf(call'[g].hands)
        <5>1. CASE g = f
          BY <5>1, <1>6
        <5>2. CASE g # f
          <6>1. call[g].phase # "processing"
            BY <5>2, <1>1, <2>1 DEF MovedOnce
          <6>2. call'[g].batch = <<>> /\ call'[g].hands = <<>>
            BY <5>2, <6>1, <1>5, TypeFacts
          <6> QED BY <6>2, NoIds
        <5> QED BY <5>1, <5>2
      <4> QED BY <4>1, <4>2, <4>3
    <3>2. CASE id \notin held
      <4>1. wallet'[id] = wallet[id]
        BY <3>2, <1>3
      <4> QED BY <4>1, <2>4, <1>5, <1>6, <2>1 DEF MovedOnce
    <3> QED BY <3>1, <3>2
  <2> QED BY <2>2, <2>3, <2>4 DEF MovedOnce
<1>9. ~closed' => Somewhere(p, call', wallet', evicted', uploads', stamped')
  <2> SUFFICES ASSUME ~closed, NEW id \in NoteIds, ArrivedIn(id, uploads, stamped)
               PROVE  \/ id \in evicted \/ id \in IdsOf(p) \/ wallet'[id] > 0
                      \/ \E g \in Fetches : id \in IdsOf(call'[g].hands)
    BY <1>1 DEF Somewhere
  <2>1. \/ id \in evicted \/ id \in IdsOf(p) \/ wallet[id] > 0
        \/ \E g \in Fetches : id \in IdsOf(call[g].hands)
    BY IdForms DEF Somewhere, p
  <2>2. wallet[id] > 0 => wallet'[id] > 0
    BY <1>3
  <2>3. ASSUME NEW g \in Fetches, id \in IdsOf(call[g].hands)
        PROVE  wallet'[id] > 0 \/ id \in IdsOf(call'[g].hands)
    <3>1. CASE g = f
      <4>1. id \in held
        BY <2>3, <3>1 DEF held
      <4> QED BY <4>1, <1>3
    <3>2. CASE g # f
      BY <2>3, <3>2, <1>5
    <3> QED BY <3>1, <3>2
  <2> QED BY <2>1, <2>2, <2>3
<1>10. QueueOf(notes', Me) = p
  BY <1>1 DEF p
<1> QED BY <1>2, <1>5, <1>7, <1>8, <1>9, <1>10, NextIdForms

----------------------------------------------------------------------------
(* Every step of the delivery keeps its invariant.                         *)
LEMMA NextKeepsInv ==
  ASSUME DeliveryInv, [Next]_vars
  PROVE  DeliveryInv'
<1>1. CASE UNCHANGED vars
  <2>1. UNCHANGED <<now, notes, stamped, uploads, logged_in, timers, ref_live, call, wallet,
                    logins, failures, closed, overlapped, evicted>>
    BY <1>1 DEF vars, polling
  <2>2. NotesAreTyped' /\ LoopsAreCounted'
    BY <2>1, NextTypeForms, LoopForms DEF DeliveryInv, NotesAreTyped
  <2>3. StampsAreNew'
    BY <2>1 DEF DeliveryInv, StampsAreNew
  <2>4. IdsHaveArrived' /\ NotesMoveOnce' /\ NoteIsSomewhere'
    BY <2>1, CallsKeepIds DEF DeliveryInv
  <2> QED BY <2>2, <2>3, <2>4 DEF DeliveryInv
<1>2. ASSUME NEW f \in Fetches, Poll(f)
      PROVE  DeliveryInv'
  <2>1. TRUE \in BOOLEAN
    OBVIOUS
  <2> QED BY <1>2, <2>1, TimerFiresKeepsInv, FetchKeepsInv, ProcessNoteKeepsInv, StoreKeepsInv DEF Poll
<1>3. ASSUME NEW f \in Fetches, ProcessNote(f, FALSE)
      PROVE  DeliveryInv'
  <2>1. FALSE \in BOOLEAN
    OBVIOUS
  <2> QED BY <1>3, <2>1, ProcessNoteKeepsInv
<1> QED BY <1>1, <1>2, <1>3, TickKeepsInv, StampKeepsInv, InsertKeepsInv, LoginKeepsInv, LogoutKeepsInv,
           ClosePageKeepsInv, FetchFailsKeepsInv DEF Next

(* The invariant of the delivery: loops are counted by logins, ids are     *)
(* those of notes that arrived, and a note moves from the queue through    *)
(* the hands of a call to the wallet.                                      *)
THEOREM DeliveryInvHolds == Spec => []DeliveryInv
<1>1. Init => DeliveryInv
  <2> SUFFICES ASSUME Init PROVE DeliveryInv
    OBVIOUS
  <2>1. /\ now = 1 /\ notes = NoNotes /\ uploads = 0 /\ stamped = [u \in Uploaders |-> <<>>]
        /\ logged_in = FALSE /\ timers = <<>> /\ ref_live = FALSE
        /\ call = [f \in Fetches |-> Idle] /\ wallet = [id \in NoteIds |-> 0]
        /\ logins = 0 /\ failures = 0 /\ closed = FALSE /\ overlapped = FALSE /\ evicted = {}
    BY DEF Init
  <2>2. IsCall(Idle) /\ Idle.batch = <<>> /\ Idle.hands = <<>> /\ ~Idle.polled /\ Idle.phase = "idle"
    <3>1. -1 \in Since /\ TRUE \in BOOLEAN
      BY DEF Since
    <3> QED BY <3>1, NewCalls
  <2>3. DOMAIN call = Fetches /\ \A f \in Fetches : call[f] = Idle
    BY <2>1
  <2>4. AreQueues(notes, Note) /\ QueueOf(notes, Me) = <<>>
    BY <2>1 DEF NoNotes, AreQueues, QueueOf
  <2>5. NotesAreTyped
    <3>1. now \in 1..MaxTime /\ uploads \in 0..MaxUploads /\ failures \in Nat
      BY <2>1, DeliveryAssumption
    <3>2. wallet \in [NoteIds -> Nat] /\ logged_in \in BOOLEAN
      BY <2>1
    <3>3. \A f \in Fetches : IsCall(call[f])
      BY <2>2, <2>3
    <3> QED BY <2>3, <2>4, <3>1, <3>2, <3>3 DEF NotesAreTyped
  <2>6. LoopsAreCounted
    <3>1. PolledIn(call) = {}
      BY <2>2, <2>3 DEF PolledIn
    <3>2. Cardinality(PolledIn(call)) = 0
      BY <3>1, FS_EmptySet
    <3>3. timers \in Seq(Since) /\ Len(timers) = 0 /\ logins \in 0..MaxLogins
      BY <2>1, DeliveryAssumption
    <3>4. Len(timers) + Cardinality(PolledIn(call)) <= logins
      BY <2>1, <3>2, <3>3
    <3>5. ref_live \in BOOLEAN /\ ~ref_live
      BY <2>1
    <3> QED BY <3>3, <3>4, <3>5, LoopForms
  <2>7. StampsAreNew
    BY <2>1 DEF StampsAreNew
  <2>8. AllArrived(QueueOf(notes, Me), call, uploads, stamped)
    BY <2>2, <2>3, <2>4, NoIds DEF AllArrived
  <2>9. MovedOnce(QueueOf(notes, Me), call, wallet, uploads, stamped)
    BY <2>1, <2>2, <2>3, <2>4, NoIds DEF MovedOnce
  <2>10. Somewhere(QueueOf(notes, Me), call, wallet, evicted, uploads, stamped)
    BY <2>1 DEF Somewhere, ArrivedIn, NoteIds
  <2> QED BY <2>5, <2>6, <2>7, <2>8, <2>9, <2>10, IdForms DEF DeliveryInv
<1> QED BY <1>1, NextKeepsInv, PTL DEF Spec

(* Type correctness of the delivery: never more polling loops than logins, *)
(* though every login starts one and a logout may leave one behind         *)
(* (useEncryptedNotes).                                                    *)
THEOREM DeliveryTypeCorrect == Spec => []TypeOK
<1>1. DeliveryInv => TypeOK
  <2> SUFFICES ASSUME DeliveryInv PROVE TypeOK
    OBVIOUS
  <2>1. DOMAIN notes \subseteq Tags
    BY DEF DeliveryInv, NotesAreTyped, AreQueues
  <2>2. IdsOf(Queue) \subseteq NoteIds
    BY IdsAreNumbers DEF Queue
  <2>3. timers \in Seq(Since) /\ Len(timers) <= MaxLogins /\ ref_live \in BOOLEAN
    <3>1. IsFiniteSet(PolledIn(call))
      BY DeliveryAssumption, FS_Subset DEF PolledIn
    <3>2. Cardinality(PolledIn(call)) \in Nat
      BY <3>1, FS_CardinalityType
    <3>3. /\ timers \in Seq(Since) /\ ref_live \in BOOLEAN /\ logins \in 0..MaxLogins
          /\ Len(timers) + Cardinality(PolledIn(call)) <= logins
      BY LoopForms DEF DeliveryInv
    <3>4. Len(timers) \in Nat /\ MaxLogins \in Nat
      BY <3>3, DeliveryAssumption
    <3> QED BY <3>2, <3>3, <3>4
  <2>4. now \in 1..MaxTime /\ uploads \in 0..MaxUploads /\ logged_in \in BOOLEAN
        /\ wallet \in [NoteIds -> Nat]
    BY DEF DeliveryInv, NotesAreTyped
  <2>5. \A f \in Fetches : call[f].phase \in {"idle", "requested", "processing"}
    BY TypeFacts
  <2> QED BY <2>1, <2>2, <2>3, <2>4, <2>5 DEF TypeOK, Since
<1> QED BY <1>1, DeliveryInvHolds, PTL

(* Unless the page is closed, a note that arrived is evicted, in the       *)
(* queue, in the hands of a call or in the wallet: processNotes deletes it *)
(* only with its content in hand, whatever fails and overlaps.             *)
THEOREM NotesAreKept == Spec => []NoteIsSomewhere
<1>1. DeliveryInv => NoteIsSomewhere
  BY DEF DeliveryInv
<1> QED BY <1>1, DeliveryInvHolds, PTL

(* Without a failed request and without calls that overlap, no note is     *)
(* added to the wallet twice (fetchNotes).                                 *)
THEOREM NotesAreAddedOnce == Spec => []AddedOnce
<1>1. DeliveryInv => AddedOnce
  <2> SUFFICES ASSUME DeliveryInv, failures = 0, ~overlapped, NEW id \in NoteIds
               PROVE  wallet[id] <= 1
    BY DEF AddedOnce
  <2>1. wallet[id] \in Nat
    BY DEF DeliveryInv, NotesAreTyped
  <2>2. wallet[id] > 0 => wallet[id] = 1
    BY DEF DeliveryInv, NotesMoveOnce
  <2> QED BY <2>1, <2>2
<1> QED BY <1>1, DeliveryInvHolds, PTL
=============================================================================
