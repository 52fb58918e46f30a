------------------------------ MODULE Transfer ------------------------------
(***************************************************************************)
(* A wallet that transfers (or withdraws) from several browser tabs, the   *)
(* finalize endpoint of the server, and the node.                          *)
(*                                                                         *)
(* Client: executeTransfer and executeWithdraw of TransferService.ts and   *)
(* the pending transfers of noteStorage.ts, both on a localStorage that    *)
(* the tabs share.  A tab selects from the notes it computed when its list *)
(* of stored notes last changed (the availableNotes of App.tsx); only a    *)
(* consolidation reads them afresh.  Server: finalize_transfer of api.rs,  *)
(* which sends the blob transaction and two proofs to the node one after   *)
(* the other.  Node (external): settles a transaction that has its proofs, *)
(* or drops it.                                                            *)
(*                                                                         *)
(* Which notes cover an amount is left open: a transfer takes one or two   *)
(* notes and may leave a change note (NoteSelection has the amounts).  A   *)
(* root is the number of settlements it was read after.                    *)
(***************************************************************************)
EXTENDS Integers, FiniteSets

CONSTANTS
  Tabs,            \* browser tabs of the wallet
  Coins,           \* the notes it owns at first
  MaxRoots,        \* MAX_ROOTS of the state contract
  PendingTimeout,  \* PENDING_TRANSFER_TIMEOUT_MS
  MaxTime, MaxTxs, MaxFaults, MaxOthers   \* bounds

ASSUME TransferAssumption ==
  /\ Coins \cap (1..MaxTxs) = {} /\ 0 \notin Coins
  /\ MaxRoots \in Nat \ {0} /\ PendingTimeout \in Nat \ {0}
  /\ MaxTime \in Nat /\ MaxTxs \in Nat /\ MaxFaults \in Nat /\ MaxOthers \in Nat

VARIABLES
  now,       \* time, in some unit
  stored,    \* storedNotes: the notes in localStorage
  pending,   \* pendingTransfers: entries [psis, at] in localStorage
  view,      \* per tab: the spendable notes it last computed
  job,       \* per tab: the transfer under way, 0 for none, else its number
  tx,        \* per transfer: its inputs, whether it has change, root, start
  request,   \* per transfer: where finalize_transfer is
  submitted, \* per transfer: what the node has received
  status,    \* per transfer: what the node made of it
  spent,     \* notes nullified on chain
  existing,  \* notes created on chain
  height,    \* settlements so far
  faults, others, txs, \* counters of the bounds
  broken,    \* history: transfers whose client gave up before the answer
  overlaps   \* history: [fresh, expired] of the first start that shared a note with a job

client == <<stored, pending, view, job, tx, txs, overlaps>>
node   == <<status, spent, existing, height, others>>
vars   == <<now, client, request, submitted, node, faults, broken>>

(* The change note of a transfer is named by the transfer; so is the note  *)
(* that a consolidation merges its inputs into.                            *)
TxIds == 1..MaxTxs
Notes == Coins \cup TxIds
Parts == {"blob", "utxo", "smt"}

TypeOK ==
  /\ stored \subseteq Notes /\ spent \subseteq existing /\ existing \subseteq Notes
  /\ \A p \in pending : p.psis \subseteq Notes /\ p.at \in 0..MaxTime
  /\ view \in [Tabs -> SUBSET Notes]
  /\ job \in [Tabs -> TxIds \cup {0}] /\ txs \in 0..MaxTxs
  /\ request \in [TxIds -> {"none", "open", "done", "failed"}]
  /\ submitted \in [TxIds -> SUBSET Parts]
  /\ status \in [TxIds -> {"unknown", "sequenced", "success", "failed", "dropped"}]
  /\ \A t \in TxIds : submitted[t] # {} => "blob" \in submitted[t] /\ status[t] # "unknown"

(* Roots of a transfer that has read none, or one that lacks its notes.    *)
Unread == -1
NoPath == -2

NoTx == [inputs |-> {}, change |-> FALSE, root |-> 0, start |-> 0]

Init ==
  /\ now = 0 /\ stored = Coins /\ pending = {}
  /\ view = [tab \in Tabs |-> Coins]
  /\ job = [tab \in Tabs |-> 0] /\ txs = 0
  /\ tx = [t \in TxIds |-> NoTx]
  /\ request = [t \in TxIds |-> "none"]
  /\ submitted = [t \in TxIds |-> {}]
  /\ status = [t \in TxIds |-> "unknown"]
  /\ spent = {} /\ existing = Coins /\ height = 0
  /\ faults = 0 /\ others = 0
  /\ broken = {} /\ overlaps = {}

----------------------------------------------------------------------------
(* readPendingTransfers: the entries that have not expired. *)
Active == {p \in pending : now - p.at < PendingTimeout}

(* Mutant: pending notes are not left out. *)
Spendable_slip == stored

(* getSpendableNotes: the stored notes that no active entry names. *)
Spendable == stored \ UNION {p.psis : p \in Active}

(* clearPendingNotes drops every entry that shares a note with psis. *)
Cleared(psis) == {p \in Active : p.psis \cap psis = {}}

Jobs == {job[tab] : tab \in Tabs} \ {0}

Change(t) == IF tx[t].change THEN {t} ELSE {}

(* Select the inputs and mark them pending.                                *)
(* fresh says whether the selection is made from a new reading (the rounds  *)
(* of a consolidation) or from the notes the tab had computed.              *)
Start(tab, inputs, change, fresh) ==
  LET t == txs + 1
      rivals == {r \in Jobs : tx[r].inputs \cap inputs # {}}
  IN /\ job[tab] = 0 /\ txs < MaxTxs
     /\ inputs # {} /\ Cardinality(inputs) <= 2
     /\ inputs \subseteq IF fresh THEN Spendable ELSE view[tab]
     /\ txs' = t
     /\ job' = [job EXCEPT ![tab] = t]
     /\ tx' = [tx EXCEPT ![t] = [inputs |-> inputs, change |-> change,
                                 root |-> Unread, start |-> now]]
     /\ pending' = Active \cup {[psis |-> inputs, at |-> now]}
     /\ overlaps' = IF rivals = {} \/ overlaps # {} THEN overlaps
                    ELSE {[fresh |-> fresh, expired |->
                           \E r \in rivals : now - tx[r].start >= PendingTimeout]}
     /\ UNCHANGED <<now, stored, view, request, submitted, node, faults, broken>>

(* The catch branch of executeTransfer: the inputs are no longer pending,  *)
(* nothing else is undone.                                                 *)
GiveUp(tab) ==
  /\ pending' = Cleared(tx[job[tab]].inputs)
  /\ job' = [job EXCEPT ![tab] = 0]
  /\ UNCHANGED <<stored, view, tx, txs, overlaps>>

(* The witness, hashBlob or one of the two local proofs fails; that of the *)
(* inclusion does when the notes are not in the tree that was read.        *)
ProofFails(tab) ==
  /\ job[tab] # 0 /\ request[job[tab]] = "none"
  /\ IF tx[job[tab]].root = NoPath THEN UNCHANGED faults
     ELSE faults < MaxFaults /\ faults' = faults + 1
  /\ GiveUp(tab)
  /\ UNCHANGED <<now, request, submitted, node, broken>>

(* getSmtWitness: the siblings and the current notes root.  The siblings   *)
(* of a note whose transfer has not settled yet are answered as well.      *)
ReadWitness(tab) ==
  /\ job[tab] # 0 /\ tx[job[tab]].root = Unread
  /\ tx' = [tx EXCEPT ![job[tab]].root =
              IF tx[job[tab]].inputs \subseteq existing THEN height ELSE NoPath]
  /\ UNCHANGED <<now, stored, pending, view, job, txs, overlaps, request, submitted, node,
                 faults, broken>>

CallFinalize(tab) ==
  /\ job[tab] # 0 /\ request[job[tab]] = "none" /\ tx[job[tab]].root \notin {Unread, NoPath}
  /\ request' = [request EXCEPT ![job[tab]] = "open"]
  /\ UNCHANGED <<now, client, submitted, node, faults, broken>>

(* Mutant: finalize_transfer answers before the last proof is sent. *)
NextPart_slip(t) ==
  IF submitted[t] = {} THEN "blob" ELSE IF submitted[t] = {"blob"} THEN "utxo" ELSE "done"

(* Mutant: the proof is sent before the transaction it is about. *)
NextPart_swapped(t) ==
  IF submitted[t] = {} THEN "utxo"
  ELSE IF submitted[t] = {"utxo"} THEN "blob"
  ELSE IF submitted[t] = {"blob", "utxo"} THEN "smt"
  ELSE "done"

(* What finalize_transfer sends next. *)
NextPart(t) ==
  IF submitted[t] = {} THEN "blob"
  ELSE IF submitted[t] = {"blob"} THEN "utxo"
  ELSE IF submitted[t] = {"blob", "utxo"} THEN "smt"
  ELSE "done"

Received(t, part) ==
  /\ submitted' = [submitted EXCEPT ![t] = @ \cup {part}]
  /\ status' = [status EXCEPT ![t] = IF part = "blob" THEN "sequenced" ELSE @]

(* One send of finalize_transfer, acknowledged by the node. *)
Send(t) ==
  /\ request[t] = "open" /\ NextPart(t) # "done"
  /\ Received(t, NextPart(t))
  /\ UNCHANGED <<now, client, request, spent, existing, height, others, faults, broken>>

(* A send, the decoding of a proof or the proving of the inclusion fails:  *)
(* the handler returns the error.  The node may have received the call.    *)
SendFails(t, received) ==
  /\ request[t] = "open" /\ NextPart(t) # "done" /\ faults < MaxFaults
  /\ faults' = faults + 1
  /\ request' = [request EXCEPT ![t] = "failed"]
  /\ IF received THEN Received(t, NextPart(t)) ELSE UNCHANGED <<submitted, status>>
  /\ UNCHANGED <<now, client, spent, existing, height, others, broken>>

Finish(t) ==
  /\ request[t] = "open" /\ NextPart(t) = "done"
  /\ request' = [request EXCEPT ![t] = "done"]
  /\ UNCHANGED <<now, client, submitted, node, faults, broken>>

(* Mutant: the change note is not stored. *)
Succeed_slip(tab) ==
  LET t == job[tab]
  IN /\ t # 0 /\ request[t] = "done"
     /\ stored' = stored \ tx[t].inputs
     /\ pending' = Cleared(tx[t].inputs)
     /\ job' = [job EXCEPT ![tab] = 0]
     /\ view' = [view EXCEPT ![tab] = stored' \ UNION {p.psis : p \in pending'}]
     /\ UNCHANGED <<now, tx, txs, overlaps, request, submitted, node, faults, broken>>

(* Steps 9 and the clearing of executeTransfer, on a success.  The other   *)
(* tabs hear of the new list through a storage event.                      *)
Succeed(tab) ==
  LET t == job[tab]
  IN /\ t # 0 /\ request[t] = "done"
     /\ stored' = (stored \ tx[t].inputs) \cup Change(t)
     /\ pending' = Cleared(tx[t].inputs)
     /\ job' = [job EXCEPT ![tab] = 0]
     /\ view' = [view EXCEPT ![tab] = stored' \ UNION {p.psis : p \in pending'}]
     /\ UNCHANGED <<now, tx, txs, overlaps, request, submitted, node, faults, broken>>

Fail(tab) ==
  /\ job[tab] # 0 /\ request[job[tab]] = "failed"
  /\ GiveUp(tab)
  /\ UNCHANGED <<now, request, submitted, node, faults, broken>>

(* The connection breaks before the answer: the client gives up, the       *)
(* handler goes on or is dropped with the connection.                      *)
LoseConnection(tab, dropped) ==
  LET t == job[tab]
  IN /\ t # 0 /\ request[t] # "none" /\ faults < MaxFaults
     /\ faults' = faults + 1
     /\ broken' = broken \cup {t}
     /\ request' = IF dropped THEN [request EXCEPT ![t] = "failed"] ELSE request
     /\ GiveUp(tab)
     /\ UNCHANGED <<now, submitted, node>>

(* The tab is closed: its entry stays pending until it expires. *)
CloseTab(tab, dropped) ==
  LET t == job[tab]
  IN /\ t # 0 /\ faults < MaxFaults
     /\ faults' = faults + 1
     /\ broken' = broken \cup {t}
     /\ request' = IF dropped THEN [request EXCEPT ![t] = "failed"] ELSE request
     /\ job' = [job EXCEPT ![tab] = 0]
     /\ view' = [view EXCEPT ![tab] = {}]
     /\ UNCHANGED <<now, stored, pending, tx, txs, overlaps, submitted, node>>

(* A storage event (another tab changed the stored notes) or a page load.  *)
Refresh(tab) ==
  /\ view' = [view EXCEPT ![tab] = Spendable]
  /\ UNCHANGED <<now, stored, pending, job, tx, txs, overlaps, request, submitted, node,
                 faults, broken>>

----------------------------------------------------------------------------
(* The node settles a transaction that has both proofs.  The state proof   *)
(* succeeds if the inputs are unspent and the root, which holds them, is   *)
(* in the window of the contract.                                          *)
Settle(t) ==
  LET valid == /\ tx[t].inputs \cap spent = {}
               /\ height - tx[t].root < MaxRoots
  IN /\ status[t] = "sequenced" /\ submitted[t] = Parts
     /\ status' = [status EXCEPT ![t] = IF valid THEN "success" ELSE "failed"]
     /\ spent' = IF valid THEN spent \cup tx[t].inputs ELSE spent
     /\ existing' = IF valid THEN existing \cup Change(t) ELSE existing
     /\ height' = IF valid THEN height + 1 ELSE height
     /\ UNCHANGED <<now, client, request, submitted, others, faults, broken>>

(* A sequenced transaction that is not settled in time is dropped. *)
Drop(t) ==
  /\ status[t] = "sequenced"
  /\ status' = [status EXCEPT ![t] = "dropped"]
  /\ UNCHANGED <<now, client, request, submitted, spent, existing, height, others, faults,
                 broken>>

OtherSettles ==
  /\ others < MaxOthers
  /\ others' = others + 1 /\ height' = height + 1
  /\ UNCHANGED <<now, client, request, submitted, status, spent, existing, faults, broken>>

Tick ==
  /\ now < MaxTime
  /\ now' = now + 1
  /\ UNCHANGED <<client, request, submitted, node, faults, broken>>

Next ==
  \/ \E tab \in Tabs :
       \/ \E inputs \in SUBSET Notes, change, fresh \in BOOLEAN :
            Start(tab, inputs, change, fresh)
       \/ ReadWitness(tab) \/ ProofFails(tab) \/ CallFinalize(tab)
       \/ Succeed(tab) \/ Fail(tab) \/ Refresh(tab)
       \/ \E dropped \in BOOLEAN : LoseConnection(tab, dropped) \/ CloseTab(tab, dropped)
  \/ \E t \in TxIds :
       \/ Send(t) \/ Finish(t) \/ Settle(t) \/ Drop(t)
       \/ \E received \in BOOLEAN : SendFails(t, received)
  \/ OtherSettles
  \/ Tick

Spec == Init /\ [][Next]_vars

----------------------------------------------------------------------------
(* The only ways in which a note that is unspent on chain can be missing   *)
(* from the wallet: it is the change of a transfer whose client gave up on *)
(* the answer or was told of an error, although the node went on with it;  *)
(* or the wallet took it for spent when finalize_transfer succeeded, and   *)
(* the node has not settled that transfer, or has refused or dropped it.   *)
LossHasACause ==
  \A n \in existing \ spent :
    \/ n \in stored \cup Jobs
    \/ n \in TxIds /\ (n \in broken \/ request[n] = "failed")
    \/ \E t \in TxIds : n \in tx[t].inputs /\ request[t] = "done" /\ status[t] # "success"

(* A change note is stored only when the node has the transaction and both *)
(* its proofs: no error or lost connection on the way is taken for a       *)
(* success.                                                                *)
StoredChangeIsSubmitted ==
  \A t \in TxIds : t \in stored => submitted[t] = Parts /\ t \notin broken

(* The first time two transfers under way share a note, the later one was  *)
(* selected from a stale list, or the earlier one outlived its entry:      *)
(* fresh selections within the timeout never collide.                      *)
FreshSelectionsAreDisjoint ==
  \A o \in overlaps : ~o.fresh \/ o.expired

(* noteStorage.ts, "Mark notes as pending to prevent double-spend during   *)
(* transfer": two transfers under way do not spend the same note.          *)
PendingPreventsDoubleSpend == overlaps = {}
----------------------------------------------------------------------------
(* What makes them true.  Every transfer that was started belongs to at    *)
(* most one tab; its steps follow each other, a request is made only with  *)
(* a root that holds the notes.                                            *)
TransfersAreWellFormed ==
  /\ tx \in [TxIds -> [inputs : SUBSET Notes, change : BOOLEAN,
                        root : Nat \cup {Unread, NoPath}, start : 0..MaxTime]]
  /\ height \in Nat /\ now \in 0..MaxTime
  /\ \A tab, other \in Tabs : job[tab] # 0 /\ job[tab] = job[other] => tab = other
  /\ \A tab \in Tabs : job[tab] <= txs
  /\ \A t \in TxIds : t > txs => request[t] = "none"

SendsAreInOrder ==
  \A t \in TxIds :
    /\ submitted[t] \in {{}, {"blob"}, {"blob", "utxo"}, Parts}
    /\ request[t] = "none" => submitted[t] = {}
    /\ request[t] \in {"open", "done"} \/ submitted[t] # {} => tx[t].root \in Nat
    /\ tx[t].root \in Nat => tx[t].inputs \subseteq existing
    /\ request[t] = "done" => submitted[t] = Parts
    /\ t \in existing => tx[t].change /\ submitted[t] = Parts
    /\ status[t] = "success" => tx[t].inputs \subseteq spent /\ submitted[t] = Parts

(* A client that gave up has given up: only what succeeded is stored. *)
EndsAreFinal ==
  /\ \A t \in broken : t \in 1..txs /\ t \notin Jobs
  /\ \A t \in TxIds : t \in stored => request[t] = "done" /\ t \notin Jobs /\ t \notin broken

(* The wallet has the note, or spent it in a transfer that it was told had *)
(* been sent.                                                              *)
SpentBy(n, t) ==
  t \in TxIds /\ n \in tx[t].inputs /\ request[t] = "done" /\ t \notin Jobs /\ t \notin broken

Accounted(n) == n \in stored \/ \E t \in TxIds : SpentBy(n, t)

NotesAreAccounted ==
  /\ \A tab \in Tabs : \A n \in view[tab] : Accounted(n)
  /\ \A t \in Jobs : \A n \in tx[t].inputs : Accounted(n)
  /\ \A t \in TxIds :
       \/ request[t] \in {"none", "failed"} \/ t \in Jobs \/ t \in broken
       \/ request[t] = "done" /\ (tx[t].change => Accounted(t))
  /\ \A n \in existing \ spent :
       Accounted(n) \/ n \in Jobs \/ (n \in TxIds /\ (n \in broken \/ request[n] = "failed"))

(* Until two transfers have shared a note, the entry of each stays pending *)
(* for as long as it lasts.                                                *)
EntriesAreKept ==
  overlaps = {} =>
    /\ \A t, r \in Jobs : t # r => tx[t].inputs \cap tx[r].inputs = {}
    /\ \A t \in Jobs : now - tx[t].start < PendingTimeout =>
         \E p \in pending : p.psis = tx[t].inputs /\ p.at = tx[t].start

TransferInv ==
  /\ TypeOK
  /\ TransfersAreWellFormed
  /\ SendsAreInOrder
  /\ EndsAreFinal
  /\ NotesAreAccounted
  /\ EntriesAreKept
  /\ FreshSelectionsAreDisjoint
============================================================================
