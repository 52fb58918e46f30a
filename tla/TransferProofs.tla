--------------------------- MODULE TransferProofs ---------------------------
(***************************************************************************)
(* Proofs about Transfer, for any number of tabs, notes, transfers and     *)
(* faults, any window and any timeout; and about NoteSelection, for any    *)
(* wallet whose values are exact.                                          *)
(***************************************************************************)
EXTENDS Transfer, NoteSelection, SequenceTheorems, TLAPS

LEMMA JobFacts ==
  ASSUME TransferInv
  PROVE  /\ txs \in 0..MaxTxs /\ txs \in Nat /\ MaxTxs \in Nat /\ 0 \notin TxIds
         /\ \A t \in Jobs : t \in TxIds /\ t \in 1..txs
         /\ \A tab \in Tabs : job[tab] # 0 => job[tab] \in Jobs /\ job[tab] \in TxIds
<1>1. txs \in 0..MaxTxs /\ txs \in Nat /\ MaxTxs \in Nat /\ 0 \notin TxIds
  BY TransferAssumption DEF TransferInv, TypeOK, TxIds
<1>2. \A tab \in Tabs : job[tab] \in TxIds \cup {0} /\ job[tab] <= txs
  BY DEF TransferInv, TypeOK, TransfersAreWellFormed
<1> QED BY <1>1, <1>2 DEF Jobs, TxIds

(* A job that ends leaves the others under way. *)
LEMMA JobEnds ==
  ASSUME TransferInv, NEW tab \in Tabs, job[tab] # 0, job' = [job EXCEPT ![tab] = 0]
  PROVE  /\ Jobs' = Jobs \ {job[tab]}
         /\ job' \in [Tabs -> TxIds \cup {0}]
         /\ \A a, b \in Tabs : job'[a] # 0 /\ job'[a] = job'[b] => a = b
         /\ \A a \in Tabs : job'[a] <= txs
<1>1. job \in [Tabs -> TxIds \cup {0}]
  BY DEF TransferInv, TypeOK
<1>2. job'[tab] = 0 /\ \A a \in Tabs : a # tab => job'[a] = job[a]
  BY <1>1
<1>3. /\ \A a, b \in Tabs : job[a] # 0 /\ job[a] = job[b] => a = b
      /\ \A a \in Tabs : job[a] <= txs
  BY DEF TransferInv, TransfersAreWellFormed
<1>4. Jobs' = Jobs \ {job[tab]}
  <2>1. \A t : t \in Jobs' <=> t # 0 /\ \E a \in Tabs : job'[a] = t
    BY DEF Jobs
  <2>2. \A t : t \in Jobs <=> t # 0 /\ \E a \in Tabs : job[a] = t
    BY DEF Jobs
  <2> QED BY <1>2, <1>3, <2>1, <2>2
<1>5. 0 <= txs
  BY JobFacts
<1> QED BY <1>1, <1>2, <1>3, <1>4, <1>5

(* Entries of transfers that share no note with psis outlive its clearing. *)
LEMMA ClearedKeeps ==
  ASSUME NEW psis, NEW p \in pending, now - p.at < PendingTimeout, p.psis \cap psis = {}
  PROVE  p \in Cleared(psis)
BY DEF Cleared, Active

----------------------------------------------------------------------------
(* A step of the request or of the node for one transfer: nothing that was *)
(* done is undone.                                                         *)
LEMMA RequestStepKeepsInv ==
  ASSUME TransferInv, NEW t \in TxIds,
         UNCHANGED <<now, stored, pending, view, job, tx, txs, overlaps, spent, existing, broken>>,
         height' \in Nat,
         request' \in [TxIds -> {"none", "open", "done", "failed"}],
         submitted' \in [TxIds -> SUBSET Parts],
         status' \in [TxIds -> {"unknown", "sequenced", "success", "failed", "dropped"}],
         \A r \in TxIds : r # t => /\ request'[r] = request[r] /\ submitted'[r] = submitted[r]
                                   /\ status'[r] = status[r],
         request[t] \in {"done", "failed"} => request'[t] = request[t],
         request'[t] = request[t] \/ t \in Jobs \/ request[t] = "open",
         request'[t] = "none" => request[t] = "none" /\ submitted'[t] = {},
         request'[t] \in {"open", "done"} => request[t] \in {"open", "done"} \/ tx[t].root \in Nat,
         submitted'[t] = submitted[t] \/ request[t] = "open",
         request'[t] = "done" => submitted'[t] = Parts,
         submitted[t] = Parts => submitted'[t] = Parts,
         submitted'[t] \in {{}, {"blob"}, {"blob", "utxo"}, Parts},
         submitted'[t] # {} => status'[t] # "unknown",
         status'[t] = "success" => status[t] = "success"
  PROVE  TransferInv'
<1> USE DEF TransferInv
<1>1. Jobs' = Jobs
  BY DEF Jobs
<1>2. TypeOK'
  <2>1. \A r \in TxIds : submitted'[r] # {} => "blob" \in submitted'[r] /\ status'[r] # "unknown"
    BY DEF TypeOK, Parts
  <2> QED BY <2>1 DEF TypeOK
<1>3. TransfersAreWellFormed'
  <2>1. \A r \in TxIds : r > txs => request'[r] = "none"
    <3>1. t > txs => request[t] = "none" /\ t \notin Jobs
      BY JobFacts DEF TransfersAreWellFormed, TxIds
    <3> QED BY <3>1 DEF TransfersAreWellFormed
  <2> QED BY <2>1 DEF TransfersAreWellFormed
<1>4. SendsAreInOrder'
  <2>1. \A r \in TxIds :
          /\ submitted'[r] \in {{}, {"blob"}, {"blob", "utxo"}, Parts}
          /\ request'[r] = "none" => submitted'[r] = {}
          /\ request'[r] \in {"open", "done"} \/ submitted'[r] # {} => tx[r].root \in Nat
          /\ tx[r].root \in Nat => tx[r].inputs \subseteq existing
          /\ request'[r] = "done" => submitted'[r] = Parts
          /\ r \in existing => tx[r].change /\ submitted'[r] = Parts
          /\ status'[r] = "success" => tx[r].inputs \subseteq spent /\ submitted'[r] = Parts
    BY DEF SendsAreInOrder
  <2> QED BY <2>1 DEF SendsAreInOrder, Parts
<1>5. EndsAreFinal'
  BY <1>1 DEF EndsAreFinal
<1>6. \A n, r : SpentBy(n, r) => SpentBy(n, r)'
  BY <1>1 DEF SpentBy
<1>7. \A n : Accounted(n) => Accounted(n)'
  BY <1>6 DEF Accounted
<1>8. NotesAreAccounted'
  <2>1. \A tab \in Tabs : \A n \in view'[tab] : Accounted(n)'
    BY <1>7 DEF NotesAreAccounted
  <2>2. \A r \in Jobs' : \A n \in tx'[r].inputs : Accounted(n)'
    BY <1>1, <1>7 DEF NotesAreAccounted
  <2>3. ASSUME NEW r \in TxIds
        PROVE  \/ request'[r] \in {"none", "failed"} \/ r \in Jobs' \/ r \in broken'
               \/ request'[r] = "done" /\ (tx'[r].change => Accounted(r)')
    <3>1. \/ request[r] \in {"none", "failed"} \/ r \in Jobs \/ r \in broken
          \/ request[r] = "done" /\ (tx[r].change => Accounted(r))
      BY DEF NotesAreAccounted
    <3> QED BY <1>1, <1>7, <3>1
  <2>4. \A n \in existing' \ spent' :
          Accounted(n)' \/ n \in Jobs' \/ (n \in TxIds /\ (n \in broken' \/ request'[n] = "failed"))
    <3>1. \A n \in TxIds : request[n] = "failed" => request'[n] = "failed"
      OBVIOUS
    <3> QED BY <1>1, <1>7, <3>1 DEF NotesAreAccounted
  <2> QED BY <2>1, <2>2, <2>3, <2>4 DEF NotesAreAccounted
<1>9. EntriesAreKept' /\ FreshSelectionsAreDisjoint'
  BY <1>1 DEF EntriesAreKept, FreshSelectionsAreDisjoint
<1> QED BY <1>2, <1>3, <1>4, <1>5, <1>8, <1>9

LEMMA CallFinalizeKeepsInv ==
  ASSUME TransferInv, NEW tab \in Tabs, CallFinalize(tab)
  PROVE  TransferInv'
<1> DEFINE t == job[tab]
<1>1. /\ t # 0 /\ request[t] = "none" /\ request' = [request EXCEPT ![t] = "open"]
      /\ tx[t].root \notin {Unread, NoPath}
      /\ UNCHANGED <<now, client, submitted, node, faults, broken>>
  BY DEF CallFinalize
<1>2. t \in TxIds /\ t \in Jobs
  BY <1>1, JobFacts
<1>3. /\ UNCHANGED <<now, stored, pending, view, job, tx, txs, overlaps, spent, existing, broken>>
      /\ UNCHANGED <<height, submitted, status>>
  BY <1>1 DEF client, node
<1>4. /\ request \in [TxIds -> {"none", "open", "done", "failed"}]
      /\ submitted \in [TxIds -> SUBSET Parts] /\ height \in Nat
      /\ status \in [TxIds -> {"unknown", "sequenced", "success", "failed", "dropped"}]
      /\ submitted[t] \in {{}, {"blob"}, {"blob", "utxo"}, Parts}
      /\ submitted[t] # {} => status[t] # "unknown"
      /\ tx[t].root \in Nat
  BY <1>1, <1>2 DEF TransferInv, TypeOK, TransfersAreWellFormed, SendsAreInOrder
<1> HIDE DEF t
<1>5. request'[t] = "open" /\ request' \in [TxIds -> {"none", "open", "done", "failed"}]
      /\ \A r \in TxIds : r # t => request'[r] = request[r]
  BY <1>1, <1>2, <1>4
<1> QED BY <1>1, <1>2, <1>3, <1>4, <1>5, RequestStepKeepsInv

(* What the node has received, after the next part of it. *)
LEMMA ReceivedFacts ==
  ASSUME TransferInv, NEW t \in TxIds, NextPart(t) # "done", Received(t, NextPart(t))
  PROVE  /\ submitted' \in [TxIds -> SUBSET Parts]
         /\ status' \in [TxIds -> {"unknown", "sequenced", "success", "failed", "dropped"}]
         /\ \A r \in TxIds : r # t => submitted'[r] = submitted[r] /\ status'[r] = status[r]
         /\ submitted'[t] \in {{}, {"blob"}, {"blob", "utxo"}, Parts} /\ submitted'[t] # {}
         /\ submitted[t] # Parts
         /\ status'[t] # "unknown" /\ (status'[t] = "success" => status[t] = "success")
<1>1. /\ submitted \in [TxIds -> SUBSET Parts]
      /\ status \in [TxIds -> {"unknown", "sequenced", "success", "failed", "dropped"}]
      /\ submitted[t] \in {{}, {"blob"}, {"blob", "utxo"}, Parts}
      /\ submitted[t] # {} => status[t] # "unknown"
  BY DEF TransferInv, TypeOK, SendsAreInOrder
<1>2. /\ submitted' = [submitted EXCEPT ![t] = @ \cup {NextPart(t)}]
      /\ status' = [status EXCEPT ![t] = IF NextPart(t) = "blob" THEN "sequenced" ELSE @]
  BY DEF Received
<1>3. /\ submitted[t] # Parts
      /\ submitted[t] = {} => NextPart(t) = "blob"
      /\ submitted[t] = {"blob"} => NextPart(t) = "utxo"
      /\ submitted[t] = {"blob", "utxo"} => NextPart(t) = "smt"
    BY <1>1 DEF NextPart, Parts
<1>4. NextPart(t) \in Parts /\ submitted[t] \cup {NextPart(t)} \in {{"blob"}, {"blob", "utxo"}, Parts}
  BY <1>1, <1>3 DEF Parts
<1> QED BY <1>1, <1>2, <1>3, <1>4

LEMMA SendKeepsInv ==
  ASSUME TransferInv, NEW t \in TxIds, Send(t)
  PROVE  TransferInv'
<1>1. /\ request[t] = "open" /\ NextPart(t) # "done" /\ Received(t, NextPart(t))
      /\ UNCHANGED <<now, stored, pending, view, job, tx, txs, overlaps, spent, existing, broken>>
      /\ UNCHANGED <<request, height>>
  BY DEF Send, client
<1>2. request \in [TxIds -> {"none", "open", "done", "failed"}] /\ height \in Nat
  BY DEF TransferInv, TypeOK, TransfersAreWellFormed
<1> QED BY <1>1, <1>2, ReceivedFacts, RequestStepKeepsInv

LEMMA SendFailsKeepsInv ==
  ASSUME TransferInv, NEW t \in TxIds, NEW received, SendFails(t, received)
  PROVE  TransferInv'
<1>1. /\ request[t] = "open" /\ NextPart(t) # "done"
      /\ request' = [request EXCEPT ![t] = "failed"]
      /\ Received(t, NextPart(t)) \/ UNCHANGED <<submitted, status>>
      /\ UNCHANGED <<now, stored, pending, view, job, tx, txs, overlaps, spent, existing, broken>>
      /\ UNCHANGED height
  BY DEF SendFails, client
<1>2. /\ request \in [TxIds -> {"none", "open", "done", "failed"}]
      /\ submitted \in [TxIds -> SUBSET Parts] /\ height \in Nat
      /\ status \in [TxIds -> {"unknown", "sequenced", "success", "failed", "dropped"}]
      /\ submitted[t] \in {{}, {"blob"}, {"blob", "utxo"}, Parts}
      /\ submitted[t] # {} => status[t] # "unknown"
  BY DEF TransferInv, TypeOK, TransfersAreWellFormed, SendsAreInOrder
<1>3. /\ request' \in [TxIds -> {"none", "open", "done", "failed"}] /\ request'[t] = "failed"
      /\ \A r \in TxIds : r # t => request'[r] = request[r]
  BY <1>1, <1>2
<1>4. CASE Received(t, NextPart(t))
  BY <1>1, <1>2, <1>3, <1>4, ReceivedFacts, RequestStepKeepsInv
<1>5. CASE UNCHANGED <<submitted, status>>
  BY <1>1, <1>2, <1>3, <1>5, RequestStepKeepsInv
<1> QED BY <1>1, <1>4, <1>5

LEMMA FinishKeepsInv ==
  ASSUME TransferInv, NEW t \in TxIds, Finish(t)
  PROVE  TransferInv'
<1>1. /\ request[t] = "open" /\ NextPart(t) = "done"
      /\ request' = [request EXCEPT ![t] = "done"]
      /\ UNCHANGED <<now, stored, pending, view, job, tx, txs, overlaps, spent, existing, broken>>
      /\ UNCHANGED <<submitted, status, height>>
  BY DEF Finish, client, node
<1>2. /\ request \in [TxIds -> {"none", "open", "done", "failed"}]
      /\ submitted \in [TxIds -> SUBSET Parts] /\ height \in Nat
      /\ status \in [TxIds -> {"unknown", "sequenced", "success", "failed", "dropped"}]
      /\ submitted[t] \in {{}, {"blob"}, {"blob", "utxo"}, Parts}
      /\ submitted[t] # {} => status[t] # "unknown"
  BY DEF TransferInv, TypeOK, TransfersAreWellFormed, SendsAreInOrder
<1>3. submitted[t] = Parts
  BY <1>1, <1>2 DEF NextPart
<1>4. /\ request' \in [TxIds -> {"none", "open", "done", "failed"}] /\ request'[t] = "done"
      /\ \A r \in TxIds : r # t => request'[r] = request[r]
  BY <1>1, <1>2
<1> QED BY <1>1, <1>2, <1>3, <1>4, RequestStepKeepsInv

LEMMA DropKeepsInv ==
  ASSUME TransferInv, NEW t \in TxIds, Drop(t)
  PROVE  TransferInv'
<1>1. /\ status' = [status EXCEPT ![t] = "dropped"]
      /\ UNCHANGED <<now, stored, pending, view, job, tx, txs, overlaps, spent, existing, broken>>
      /\ UNCHANGED <<request, submitted, height>>
  BY DEF Drop, client
<1>2. /\ request \in [TxIds -> {"none", "open", "done", "failed"}]
      /\ submitted \in [TxIds -> SUBSET Parts] /\ height \in Nat
      /\ status \in [TxIds -> {"unknown", "sequenced", "success", "failed", "dropped"}]
      /\ submitted[t] \in {{}, {"blob"}, {"blob", "utxo"}, Parts}
      /\ request[t] = "none" => submitted[t] = {}
      /\ request[t] = "done" => submitted[t] = Parts
  BY DEF TransferInv, TypeOK, TransfersAreWellFormed, SendsAreInOrder
<1>3. /\ status' \in [TxIds -> {"unknown", "sequenced", "success", "failed", "dropped"}]
      /\ status'[t] = "dropped" /\ \A r \in TxIds : r # t => status'[r] = status[r]
  BY <1>1, <1>2
<1> QED BY <1>1, <1>2, <1>3, RequestStepKeepsInv

LEMMA OtherSettlesKeepsInv ==
  ASSUME TransferInv, OtherSettles
  PROVE  TransferInv'
<1>1. height' = height + 1 /\ UNCHANGED <<now, client, request, submitted, status, spent, existing, broken>>
  BY DEF OtherSettles
<1>2. Jobs' = Jobs
  BY <1>1 DEF Jobs, client
<1>3. TypeOK' /\ TransfersAreWellFormed'
  BY <1>1 DEF TransferInv, TypeOK, TransfersAreWellFormed, client
<1>4. SendsAreInOrder' /\ EndsAreFinal' /\ EntriesAreKept' /\ FreshSelectionsAreDisjoint'
  BY <1>1, <1>2 DEF TransferInv, SendsAreInOrder, EndsAreFinal, EntriesAreKept,
                    FreshSelectionsAreDisjoint, client, Parts
<1>5. NotesAreAccounted'
  BY <1>1, <1>2 DEF TransferInv, NotesAreAccounted, Accounted, SpentBy, client
<1> QED BY <1>3, <1>4, <1>5 DEF TransferInv

(* A settlement spends the inputs and creates the change. *)
LEMMA SettleKeepsInv ==
  ASSUME TransferInv, NEW t \in TxIds, Settle(t)
  PROVE  TransferInv'
<1> USE DEF TransferInv
<1>0. submitted[t] = Parts /\ tx[t].inputs \subseteq existing
  BY DEF Settle, SendsAreInOrder, Parts
<1>1. /\ submitted[t] = Parts /\ status[t] = "sequenced"
      /\ UNCHANGED <<now, stored, pending, view, job, tx, txs, overlaps, broken, request, submitted>>
      /\ \/ /\ tx[t].inputs \subseteq existing
            /\ status' = [status EXCEPT ![t] = "success"]
            /\ spent' = spent \cup tx[t].inputs /\ existing' = existing \cup Change(t)
            /\ height' = height + 1
         \/ status' = [status EXCEPT ![t] = "failed"] /\ UNCHANGED <<spent, existing, height>>
  BY <1>0 DEF Settle, client
<1>2. Jobs' = Jobs
  BY <1>1 DEF Jobs
<1>3. /\ tx[t].inputs \subseteq Notes /\ height \in Nat
      /\ Change(t) \subseteq Notes /\ \A n \in Change(t) : n = t /\ tx[t].change
  BY DEF TransfersAreWellFormed, Change, Notes
<1>4. /\ \A r \in TxIds : r # t => status'[r] = status[r]
      /\ status' \in [TxIds -> {"unknown", "sequenced", "success", "failed", "dropped"}]
      /\ status'[t] \in {"success", "failed"}
      /\ status'[t] = "success" => tx[t].inputs \subseteq spent'
      /\ spent \subseteq spent' /\ existing \subseteq existing'
      /\ \A n \in existing' : n \in existing \/ (n = t /\ tx[t].change)
  BY <1>1, <1>3 DEF TypeOK
<1>5. TypeOK'
  <2>1. spent' \subseteq existing' /\ existing' \subseteq Notes
    BY <1>1, <1>3 DEF TypeOK
  <2>2. \A r \in TxIds : submitted[r] # {} => "blob" \in submitted[r] /\ status'[r] # "unknown"
    BY <1>4 DEF TypeOK
  <2> QED BY <1>1, <1>4, <2>1, <2>2 DEF TypeOK
<1>6. TransfersAreWellFormed'
  BY <1>1, <1>3 DEF TransfersAreWellFormed
<1>7. SendsAreInOrder'
  BY <1>1, <1>4 DEF SendsAreInOrder
<1>8. EndsAreFinal' /\ EntriesAreKept' /\ FreshSelectionsAreDisjoint'
  BY <1>1, <1>2 DEF EndsAreFinal, EntriesAreKept, FreshSelectionsAreDisjoint
<1>9. \A n : Accounted(n) <=> Accounted(n)'
  BY <1>1, <1>2 DEF Accounted, SpentBy
<1>10. tx[t].change => Accounted(t) \/ t \in Jobs \/ t \in broken \/ request[t] = "failed"
  <2>1. request[t] # "none"
    BY <1>1 DEF SendsAreInOrder, Parts
  <2> QED BY <2>1 DEF NotesAreAccounted
<1>11. NotesAreAccounted'
  BY <1>1, <1>2, <1>4, <1>9, <1>10 DEF NotesAreAccounted
<1> QED BY <1>5, <1>6, <1>7, <1>8, <1>11

LEMMA TickKeepsInv ==
  ASSUME TransferInv, Tick
  PROVE  TransferInv'
<1> USE DEF TransferInv
<1>1. now < MaxTime /\ now' = now + 1 /\ UNCHANGED <<client, request, submitted, node, broken>>
  BY DEF Tick
<1>2. Jobs' = Jobs
  BY <1>1 DEF Jobs, client
<1>3. now \in 0..MaxTime /\ now' \in 0..MaxTime /\ PendingTimeout \in Nat /\ MaxTime \in Nat
  BY <1>1, TransferAssumption DEF TransfersAreWellFormed
<1>4. TypeOK' /\ TransfersAreWellFormed'
  BY <1>1, <1>3 DEF TypeOK, TransfersAreWellFormed, client, node
<1>5. SendsAreInOrder' /\ EndsAreFinal' /\ FreshSelectionsAreDisjoint'
  BY <1>1, <1>2 DEF SendsAreInOrder, EndsAreFinal, FreshSelectionsAreDisjoint, client, node, Parts
<1>6. NotesAreAccounted'
  BY <1>1, <1>2 DEF NotesAreAccounted, Accounted, SpentBy, client, node
<1>7. EntriesAreKept'
  <2>1. \A t \in Jobs : tx[t].start \in 0..MaxTime
    BY JobFacts DEF TransfersAreWellFormed
  <2>2. \A t \in Jobs : now' - tx[t].start < PendingTimeout => now - tx[t].start < PendingTimeout
    BY <1>1, <1>3, <2>1
  <2> QED BY <1>1, <1>2, <2>2 DEF EntriesAreKept, client
<1> QED BY <1>4, <1>5, <1>6, <1>7

(* A tab reads the stored notes again. *)
LEMMA RefreshKeepsInv ==
  ASSUME TransferInv, NEW tab \in Tabs, Refresh(tab)
  PROVE  TransferInv'
<1> USE DEF TransferInv
<1>1. /\ view' = [view EXCEPT ![tab] = Spendable]
      /\ UNCHANGED <<now, stored, pending, job, tx, txs, overlaps, request, submitted, node, broken>>
  BY DEF Refresh
<1>2. Jobs' = Jobs
  BY <1>1 DEF Jobs
<1>3. Spendable \subseteq stored
  BY DEF Spendable
<1>4. TypeOK' /\ TransfersAreWellFormed'
  <2>1. view' \in [Tabs -> SUBSET Notes]
    BY <1>1, <1>3 DEF TypeOK
  <2> QED BY <1>1, <2>1 DEF TypeOK, TransfersAreWellFormed, node
<1>5. SendsAreInOrder' /\ EndsAreFinal' /\ EntriesAreKept' /\ FreshSelectionsAreDisjoint'
  BY <1>1, <1>2 DEF SendsAreInOrder, EndsAreFinal, EntriesAreKept, FreshSelectionsAreDisjoint, node, Parts
<1>6. \A n : Accounted(n) <=> Accounted(n)'
  BY <1>1, <1>2 DEF Accounted, SpentBy
<1>7. NotesAreAccounted'
  <2>1. \A a \in Tabs : \A n \in view'[a] : n \in view[a] \/ n \in stored
    BY <1>1, <1>3 DEF TypeOK
  <2>2. \A n \in stored : Accounted(n)
    BY DEF Accounted
  <2> QED BY <1>1, <1>2, <1>6, <2>1, <2>2 DEF NotesAreAccounted, node
<1> QED BY <1>4, <1>5, <1>7

LEMMA ReadWitnessKeepsInv ==
  ASSUME TransferInv, NEW tab \in Tabs, ReadWitness(tab)
  PROVE  TransferInv'
<1> USE DEF TransferInv
<1>0. PICK t : t = job[tab]
  OBVIOUS
<1>1. /\ t # 0 /\ tx' = [tx EXCEPT ![t].root = IF tx[t].inputs \subseteq existing THEN height ELSE NoPath]
      /\ UNCHANGED <<now, stored, pending, view, job, txs, overlaps, request, submitted, node, broken>>
  BY <1>0 DEF ReadWitness
<1>2. t \in TxIds
  BY <1>0, <1>1, JobFacts
<1>3. Jobs' = Jobs
  BY <1>1 DEF Jobs
<1>4. /\ tx' \in [TxIds -> [inputs : SUBSET Notes, change : BOOLEAN, root : Nat \cup {Unread, NoPath},
                         start : 0..MaxTime]]
      /\ \A r \in TxIds : /\ tx'[r].inputs = tx[r].inputs /\ tx'[r].change = tx[r].change
                          /\ tx'[r].start = tx[r].start
  BY <1>1, <1>2 DEF TransfersAreWellFormed
<1>5. /\ tx[t].root \notin Nat
      /\ tx'[t].root \in Nat => tx[t].inputs \subseteq existing
      /\ \A r \in TxIds : r # t => tx'[r].root = tx[r].root
  BY <1>0, <1>1, <1>2 DEF TransfersAreWellFormed, ReadWitness, Unread, NoPath
<1>10. TypeOK' /\ TransfersAreWellFormed'
  BY <1>1, <1>4 DEF TypeOK, TransfersAreWellFormed, node
<1>6. SendsAreInOrder' /\ EndsAreFinal'
  <2>1. \A r \in TxIds :
          /\ request[r] \in {"open", "done"} \/ submitted[r] # {} => tx'[r].root \in Nat
          /\ tx'[r].root \in Nat => tx'[r].inputs \subseteq existing
    <3>1. request[t] \notin {"open", "done"} /\ submitted[t] = {}
      BY <1>2, <1>5 DEF SendsAreInOrder
    <3> QED BY <1>4, <1>5, <3>1 DEF SendsAreInOrder
  <2>2. SendsAreInOrder'
    BY <1>1, <1>3, <2>1 DEF SendsAreInOrder, node, Parts
  <2>3. EndsAreFinal'
    BY <1>1, <1>3, <1>4 DEF EndsAreFinal, node, Parts
  <2> QED BY <2>2, <2>3
<1>7. EntriesAreKept' /\ FreshSelectionsAreDisjoint'
  <2>1. \A r \in Jobs : tx'[r].inputs = tx[r].inputs /\ tx'[r].start = tx[r].start
    BY <1>4, JobFacts
  <2>2. UNCHANGED <<overlaps, now, pending>>
    BY <1>1
  <2>3. EntriesAreKept'
    BY <1>3, <2>1, <2>2 DEF EntriesAreKept
  <2>4. FreshSelectionsAreDisjoint'
    BY <2>2 DEF FreshSelectionsAreDisjoint
  <2> QED BY <2>3, <2>4
<1>8. \A n : Accounted(n) <=> Accounted(n)'
  BY <1>1, <1>3, <1>4 DEF Accounted, SpentBy
<1>9. NotesAreAccounted'
  <2>1. \A r \in Jobs' : \A n \in tx'[r].inputs : Accounted(n)'
    BY <1>3, <1>4, <1>8, JobFacts DEF NotesAreAccounted
  <2> QED BY <1>1, <1>3, <1>4, <1>8, <2>1 DEF NotesAreAccounted, node
<1> QED BY <1>6, <1>7, <1>9, <1>10

----------------------------------------------------------------------------
(* A transfer ends without success: it is known to have failed, its client *)
(* has given up, or nothing of it was ever sent.                           *)
LEMMA UnhappyEndKeepsInv ==
  ASSUME TransferInv, NEW tab \in Tabs, NEW gone \in SUBSET {job[tab]}, job[tab] # 0,
         job' = [job EXCEPT ![tab] = 0],
         broken' = broken \cup gone,
         pending' \in {pending, Cleared(tx[job[tab]].inputs)},
         view' \in {view, [view EXCEPT ![tab] = {}]},
         request' \in {request, [request EXCEPT ![job[tab]] = "failed"]},
         gone = {} => request' = request /\ request[job[tab]] \in {"none", "failed"},
         UNCHANGED <<now, stored, tx, txs, overlaps, submitted, node>>
  PROVE  TransferInv'
<1> USE DEF TransferInv
<1> DEFINE t == job[tab]
<1>1. t \in TxIds /\ t \in Jobs /\ t \in 1..txs
  BY JobFacts
<1>2. /\ Jobs' = Jobs \ {t} /\ job' \in [Tabs -> TxIds \cup {0}]
      /\ \A a, b \in Tabs : job'[a] # 0 /\ job'[a] = job'[b] => a = b
      /\ \A a \in Tabs : job'[a] <= txs
  BY JobEnds
<1>3. /\ request' \in [TxIds -> {"none", "open", "done", "failed"}]
      /\ \A r \in TxIds : r # t => request'[r] = request[r]
      /\ request'[t] \in {request[t], "failed"}
  BY <1>1 DEF TypeOK
<1>4. /\ view' \in [Tabs -> SUBSET Notes]
      /\ \A a \in Tabs : view'[a] \subseteq view[a]
  BY DEF TypeOK
<1>5. pending' \subseteq pending
  BY DEF Cleared, Active
<1> HIDE DEF t
<1>6. TypeOK'
  <2>1. \A p \in pending' : p.psis \subseteq Notes /\ p.at \in 0..MaxTime
    BY <1>5 DEF TypeOK
  <2> QED BY <1>2, <1>3, <1>4, <2>1 DEF TypeOK, node
<1>7. TransfersAreWellFormed'
  <2>1. \A r \in TxIds : r > txs => request'[r] = "none"
    BY <1>1, <1>3, JobFacts DEF TransfersAreWellFormed
  <2> QED BY <1>2, <2>1 DEF TransfersAreWellFormed, node
<1>8. SendsAreInOrder'
  <2>1. \A r \in TxIds : request'[r] = request[r] \/ request'[r] = "failed"
    BY <1>3
  <2> QED BY <2>1 DEF SendsAreInOrder, node, Parts
<1>9. broken' = broken \cup gone /\ gone \subseteq {t}
  BY DEF t
<1>10. EndsAreFinal'
  <2>1. \A r \in broken' : r \in 1..txs' /\ r \notin Jobs'
    BY <1>1, <1>2, <1>9 DEF EndsAreFinal
  <2>2. \A r \in TxIds : r \in stored =>
          r # t /\ request'[r] = "done" /\ r \notin Jobs' /\ r \notin broken'
    BY <1>1, <1>2, <1>3, <1>9 DEF EndsAreFinal
  <2> QED BY <2>1, <2>2 DEF EndsAreFinal
<1>11. \A n, r : SpentBy(n, r) => SpentBy(n, r)'
  BY <1>1, <1>2, <1>3, <1>9 DEF SpentBy
<1>12. \A n : Accounted(n) => Accounted(n)'
  BY <1>11 DEF Accounted
<1>13. t \in broken' \/ request'[t] \in {"none", "failed"}
  BY <1>9 DEF t
<1>14. NotesAreAccounted'
  <2>1. \A a \in Tabs : \A n \in view'[a] : Accounted(n)'
    BY <1>4, <1>12 DEF NotesAreAccounted
  <2>2. \A r \in Jobs' : \A n \in tx'[r].inputs : Accounted(n)'
    BY <1>2, <1>12 DEF NotesAreAccounted
  <2>3. ASSUME NEW r \in TxIds
        PROVE  \/ request'[r] \in {"none", "failed"} \/ r \in Jobs' \/ r \in broken'
               \/ request'[r] = "done" /\ (tx'[r].change => Accounted(r)')
    <3>1. CASE r = t
      BY <3>1, <1>13
    <3>2. CASE r # t
      <4>1. \/ request[r] \in {"none", "failed"} \/ r \in Jobs \/ r \in broken
            \/ request[r] = "done" /\ (tx[r].change => Accounted(r))
        BY DEF NotesAreAccounted
      <4> QED BY <3>2, <4>1, <1>2, <1>3, <1>9, <1>12
    <3> QED BY <3>1, <3>2
  <2>4. ASSUME NEW n \in existing' \ spent'
        PROVE  Accounted(n)' \/ n \in Jobs' \/ (n \in TxIds /\ (n \in broken' \/ request'[n] = "failed"))
    <3>1. n \in existing \ spent
      BY DEF node
    <3>2. CASE n = t
      <4>1. request[t] # "none"
        BY <1>1, <3>1, <3>2 DEF SendsAreInOrder, Parts
      <4>2. request'[t] # "none"
        BY <4>1, <1>3
      <4> QED BY <1>1, <1>13, <3>2, <4>2
    <3>3. CASE n # t
      BY <1>2, <1>3, <1>9, <1>12, <3>1, <3>3 DEF NotesAreAccounted
    <3> QED BY <3>2, <3>3
  <2> QED BY <2>1, <2>2, <2>3, <2>4 DEF NotesAreAccounted
<1>15. EntriesAreKept'
  <2> SUFFICES ASSUME overlaps = {}
               PROVE  /\ \A a, r \in Jobs' : a # r => tx[a].inputs \cap tx[r].inputs = {}
                      /\ \A r \in Jobs' : now - tx[r].start < PendingTimeout =>
                           \E p \in pending' : p.psis = tx[r].inputs /\ p.at = tx[r].start
    BY DEF EntriesAreKept
  <2>1. \A a, r \in Jobs : a # r => tx[a].inputs \cap tx[r].inputs = {}
    BY DEF EntriesAreKept
  <2>2. ASSUME NEW r \in Jobs', now - tx[r].start < PendingTimeout
        PROVE  \E p \in pending' : p.psis = tx[r].inputs /\ p.at = tx[r].start
    <3>1. PICK p \in pending : p.psis = tx[r].inputs /\ p.at = tx[r].start
      BY <1>2, <2>2 DEF EntriesAreKept
    <3>2. tx[r].inputs \cap tx[t].inputs = {}
      BY <1>1, <1>2, <2>1
    <3>3. p \in Cleared(tx[t].inputs)
      BY <2>2, <3>1, <3>2, ClearedKeeps
    <3> QED BY <3>1, <3>3 DEF t
  <2> QED BY <1>2, <2>1, <2>2
<1>16. FreshSelectionsAreDisjoint'
  BY DEF FreshSelectionsAreDisjoint
<1> QED BY <1>6, <1>7, <1>8, <1>10, <1>14, <1>15, <1>16

LEMMA GivingUpKeepsInv ==
  ASSUME TransferInv, NEW tab \in Tabs,
         \/ ProofFails(tab) \/ Fail(tab)
         \/ \E dropped \in BOOLEAN : LoseConnection(tab, dropped) \/ CloseTab(tab, dropped)
  PROVE  TransferInv'
<1>1. CASE ProofFails(tab) \/ Fail(tab)
  <2>1. /\ job[tab] # 0 /\ request[job[tab]] \in {"none", "failed"}
        /\ pending' = Cleared(tx[job[tab]].inputs) /\ job' = [job EXCEPT ![tab] = 0]
        /\ UNCHANGED <<now, stored, view, tx, txs, overlaps, request, submitted, node, broken>>
    BY <1>1 DEF ProofFails, Fail, GiveUp
  <2>2. broken' = broken \cup {}
    BY <2>1
  <2> QED BY <2>1, <2>2, UnhappyEndKeepsInv
<1>2. ASSUME NEW dropped \in BOOLEAN, LoseConnection(tab, dropped) \/ CloseTab(tab, dropped)
      PROVE  TransferInv'
  <2>1. /\ job[tab] # 0 /\ broken' = broken \cup {job[tab]} /\ job' = [job EXCEPT ![tab] = 0]
        /\ pending' \in {pending, Cleared(tx[job[tab]].inputs)}
        /\ view' \in {view, [view EXCEPT ![tab] = {}]}
        /\ request' \in {request, [request EXCEPT ![job[tab]] = "failed"]}
        /\ UNCHANGED <<now, stored, tx, txs, overlaps, submitted, node>>
    BY <1>2 DEF LoseConnection, CloseTab, GiveUp
  <2> QED BY <2>1, UnhappyEndKeepsInv
<1> QED BY <1>1, <1>2

(* finalize_transfer has answered: the inputs go, the change comes. *)
LEMMA SucceedKeepsInv ==
  ASSUME TransferInv, NEW tab \in Tabs, Succeed(tab)
  PROVE  TransferInv'
<1> USE DEF TransferInv
<1> DEFINE open == stored' \ UNION {p.psis : p \in pending'}
<1>0. PICK t : t = job[tab]
  OBVIOUS
<1>1. /\ t # 0 /\ request[t] = "done"
      /\ stored' = (stored \ tx[t].inputs) \cup Change(t)
      /\ pending' = Cleared(tx[t].inputs) /\ job' = [job EXCEPT ![tab] = 0]
      /\ view' = [view EXCEPT ![tab] = open]
      /\ UNCHANGED <<now, tx, txs, overlaps, request, submitted, node, broken>>
  BY <1>0 DEF Succeed
<1>2. /\ Jobs' = Jobs \ {t} /\ job' \in [Tabs -> TxIds \cup {0}]
      /\ \A a, b \in Tabs : job'[a] # 0 /\ job'[a] = job'[b] => a = b
      /\ \A a \in Tabs : job'[a] <= txs
  BY <1>0, <1>1, JobEnds
<1>3. t \in TxIds /\ t \in Jobs /\ t \in 1..txs /\ submitted[t] = Parts /\ t \notin broken
  BY <1>0, <1>1, JobFacts DEF SendsAreInOrder, EndsAreFinal
<1>4. Change(t) \subseteq {t} /\ Change(t) \subseteq Notes /\ (tx[t].change => t \in Change(t))
  BY <1>3 DEF Change, Notes
<1>5. pending' \subseteq pending /\ open \subseteq stored'
  BY <1>1 DEF Cleared, Active
<1> HIDE DEF open
<1>6. view' \in [Tabs -> SUBSET Notes] /\ \A a \in Tabs : \A n \in view'[a] : n \in view[a] \/ n \in stored'
  BY <1>1, <1>4, <1>5 DEF TypeOK
<1>7. TypeOK'
  <2>1. stored' \subseteq Notes
    BY <1>1, <1>4 DEF TypeOK
  <2>2. \A p \in pending' : p.psis \subseteq Notes /\ p.at \in 0..MaxTime
    BY <1>5 DEF TypeOK
  <2> QED BY <1>1, <1>2, <1>6, <2>1, <2>2 DEF TypeOK, node
<1>8. TransfersAreWellFormed' /\ SendsAreInOrder'
  BY <1>1, <1>2 DEF TransfersAreWellFormed, SendsAreInOrder, node, Parts
<1>9. EndsAreFinal'
  <2>1. \A r \in TxIds : r \in stored' => r = t \/ r \in stored
    BY <1>1, <1>4
  <2>2. \A r \in TxIds : r \in stored' => request[r] = "done" /\ r \notin Jobs' /\ r \notin broken
    BY <1>1, <1>2, <1>3, <2>1 DEF EndsAreFinal
  <2> QED BY <1>1, <1>2, <2>2 DEF EndsAreFinal
<1>10. \A n : Accounted(n) => Accounted(n)'
  <2>1. \A n, r : SpentBy(n, r) => SpentBy(n, r)'
    BY <1>1, <1>2 DEF SpentBy
  <2>2. \A n \in tx[t].inputs : SpentBy(n, t)'
    BY <1>1, <1>2, <1>3 DEF SpentBy
  <2>3. \A n \in stored : n \in stored' \/ n \in tx[t].inputs
    BY <1>1
  <2> QED BY <1>3, <2>1, <2>2, <2>3 DEF Accounted
<1>11. \A n \in stored' : Accounted(n)'
  BY DEF Accounted
<1>12. tx[t].change => Accounted(t)'
  BY <1>1, <1>4, <1>11
<1>13. NotesAreAccounted'
  <2>1. \A a \in Tabs : \A n \in view'[a] : Accounted(n)'
    BY <1>6, <1>10, <1>11 DEF NotesAreAccounted
  <2>2. \A r \in Jobs' : \A n \in tx'[r].inputs : Accounted(n)'
    BY <1>1, <1>2, <1>10 DEF NotesAreAccounted
  <2>3. ASSUME NEW r \in TxIds
        PROVE  \/ request'[r] \in {"none", "failed"} \/ r \in Jobs' \/ r \in broken'
               \/ request'[r] = "done" /\ (tx'[r].change => Accounted(r)')
    <3>1. \/ request[r] \in {"none", "failed"} \/ r \in Jobs \/ r \in broken
          \/ request[r] = "done" /\ (tx[r].change => Accounted(r))
      BY DEF NotesAreAccounted
    <3> QED BY <1>1, <1>2, <1>10, <1>12, <3>1
  <2>4. ASSUME NEW n \in existing' \ spent'
        PROVE  Accounted(n)' \/ n \in Jobs' \/ (n \in TxIds /\ (n \in broken' \/ request'[n] = "failed"))
    <3>1. n \in existing \ spent
      BY <1>1 DEF node
    <3>2. CASE n = t
      <4>1. tx[t].change
        BY <1>3, <3>1, <3>2 DEF SendsAreInOrder
      <4> QED BY <1>12, <3>2, <4>1
    <3>3. CASE n # t
      BY <1>1, <1>2, <1>10, <3>1, <3>3 DEF NotesAreAccounted
    <3> QED BY <3>2, <3>3
  <2> QED BY <2>1, <2>2, <2>3, <2>4 DEF NotesAreAccounted
<1>14. EntriesAreKept'
  <2> SUFFICES ASSUME overlaps = {}
               PROVE  /\ \A a, r \in Jobs' : a # r => tx[a].inputs \cap tx[r].inputs = {}
                      /\ \A r \in Jobs' : now - tx[r].start < PendingTimeout =>
                           \E p \in pending' : p.psis = tx[r].inputs /\ p.at = tx[r].start
    BY <1>1 DEF EntriesAreKept
  <2>1. \A a, r \in Jobs : a # r => tx[a].inputs \cap tx[r].inputs = {}
    BY DEF EntriesAreKept
  <2>2. ASSUME NEW r \in Jobs', now - tx[r].start < PendingTimeout
        PROVE  \E p \in pending' : p.psis = tx[r].inputs /\ p.at = tx[r].start
    <3>1. PICK p \in pending : p.psis = tx[r].inputs /\ p.at = tx[r].start
      BY <1>2, <2>2 DEF EntriesAreKept
    <3>2. tx[r].inputs \cap tx[t].inputs = {}
      BY <1>2, <1>3, <2>1
    <3>3. p \in Cleared(tx[t].inputs)
      BY <2>2, <3>1, <3>2, ClearedKeeps
    <3> QED BY <1>1, <3>1, <3>3
  <2> QED BY <1>2, <2>1, <2>2
<1>15. FreshSelectionsAreDisjoint'
  BY <1>1 DEF FreshSelectionsAreDisjoint
<1> QED BY <1>7, <1>8, <1>9, <1>13, <1>14, <1>15

(* A transfer starts: fresh notes are not those of an entry that lasts. *)
LEMMA StartKeepsInv ==
  ASSUME TransferInv, NEW tab \in Tabs, NEW inputs \in SUBSET Notes,
         NEW change \in BOOLEAN, NEW fresh \in BOOLEAN, Start(tab, inputs, change, fresh)
  PROVE  TransferInv'
<1> USE DEF TransferInv
<1> DEFINE t == txs + 1
           rivals == {r \in Jobs : tx[r].inputs \cap inputs # {}}
           new == [inputs |-> inputs, change |-> change, root |-> Unread, start |-> now]
           entry == [psis |-> inputs, at |-> now]
<1>1. /\ job[tab] = 0 /\ txs < MaxTxs
      /\ inputs \subseteq IF fresh THEN Spendable ELSE view[tab]
      /\ txs' = t /\ job' = [job EXCEPT ![tab] = t] /\ tx' = [tx EXCEPT ![t] = new]
      /\ pending' = Active \cup {entry}
      /\ overlaps' = IF rivals = {} \/ overlaps # {} THEN overlaps
                     ELSE {[fresh |-> fresh, expired |->
                            \E r \in rivals : now - tx[r].start >= PendingTimeout]}
      /\ UNCHANGED <<now, stored, view, request, submitted, node, broken>>
  BY DEF Start
<1>2. /\ t \in TxIds /\ t \in Nat /\ txs \in Nat /\ MaxTxs \in Nat /\ t \in 0..MaxTxs
      /\ request[t] = "none" /\ submitted[t] = {} /\ t > txs
  <2>1. txs \in Nat /\ MaxTxs \in Nat /\ txs < MaxTxs
    BY <1>1, JobFacts
  <2>2. t \in Nat /\ t \in 1..MaxTxs /\ t \in 0..MaxTxs /\ t > txs
    BY ONLY <2>1
  <2>3. t \in TxIds
    BY ONLY <2>2 DEF TxIds
  <2>4. request[t] = "none" /\ submitted[t] = {}
    BY <2>2, <2>3 DEF TransfersAreWellFormed, SendsAreInOrder
  <2> QED BY ONLY <2>1, <2>2, <2>3, <2>4
<1>3. t \notin Jobs /\ t \notin broken /\ t \notin stored /\ t \notin existing /\ status[t] # "success"
  <2>1. t \notin 1..txs
    BY <1>2
  <2>2. {} # Parts
    BY DEF Parts
  <2> HIDE DEF t
  <2> QED BY <1>2, <2>1, <2>2, JobFacts DEF SendsAreInOrder, EndsAreFinal
<1>4. new \in [inputs : SUBSET Notes, change : BOOLEAN, root : Nat \cup {Unread, NoPath}, start : 0..MaxTime]
  BY DEF TransfersAreWellFormed
<1>5. /\ tx' \in [TxIds -> [inputs : SUBSET Notes, change : BOOLEAN, root : Nat \cup {Unread, NoPath}, start : 0..MaxTime]]
      /\ tx'[t] = new /\ \A r \in TxIds : r # t => tx'[r] = tx[r]
  BY <1>1, <1>2, <1>4 DEF TransfersAreWellFormed
<1>6. /\ new.inputs = inputs /\ new.change = change /\ new.start = now
      /\ entry.psis = inputs /\ entry.at = now /\ new.root \notin Nat
  BY DEF Unread
<1> HIDE DEF t, new, entry
<1>7. /\ job' \in [Tabs -> TxIds \cup {0}] /\ job'[tab] = t
      /\ \A a \in Tabs : a # tab => job'[a] = job[a]
  BY <1>1, <1>2 DEF TypeOK
<1>8. Jobs' = Jobs \cup {t}
  <2>1. t # 0
    BY <1>2, JobFacts
  <2>2. \A r : r \in Jobs' <=> r # 0 /\ \E a \in Tabs : job'[a] = r
    BY DEF Jobs
  <2>3. \A r : r \in Jobs <=> r # 0 /\ \E a \in Tabs : job[a] = r
    BY DEF Jobs
  <2> QED BY <1>1, <1>7, <2>1, <2>2, <2>3
<1>9. TypeOK'
  <2>1. \A p \in pending' : p.psis \subseteq Notes /\ p.at \in 0..MaxTime
    BY <1>1, <1>6 DEF TypeOK, TransfersAreWellFormed, Active
  <2> QED BY <1>1, <1>2, <1>7, <2>1 DEF TypeOK, node
<1>10. TransfersAreWellFormed'
  <2>1. \A a \in Tabs : job[a] # t
    BY <1>2, <1>3, JobFacts
  <2>2. \A a, b \in Tabs : job'[a] # 0 /\ job'[a] = job'[b] => a = b
    BY <1>7, <2>1 DEF TransfersAreWellFormed
  <2>3. \A a \in Tabs : job'[a] <= t
    <3>1. \A a \in Tabs : job[a] \in Nat /\ job[a] <= txs
      BY DEF TransfersAreWellFormed, TypeOK, TxIds
    <3> QED BY <1>2, <1>7, <3>1 DEF t
  <2>4. \A r \in TxIds : r > t => request[r] = "none"
    BY <1>2 DEF TransfersAreWellFormed, t, TxIds
  <2> QED BY <1>1, <1>5, <2>2, <2>3, <2>4 DEF TransfersAreWellFormed, node
<1>11. SendsAreInOrder'
  <2>1. \A r \in TxIds :
          /\ request[r] \in {"open", "done"} \/ submitted[r] # {} => tx'[r].root \in Nat
          /\ tx'[r].root \in Nat => tx'[r].inputs \subseteq existing
          /\ r \in existing => tx'[r].change /\ submitted[r] = Parts
          /\ status[r] = "success" => tx'[r].inputs \subseteq spent /\ submitted[r] = Parts
    BY <1>2, <1>3, <1>5, <1>6 DEF SendsAreInOrder
  <2> QED BY <1>1, <2>1 DEF SendsAreInOrder, node, Parts
<1>12. EndsAreFinal'
  <2>1. \A r \in broken : r \in 1..t /\ r \notin Jobs'
    BY <1>2, <1>3, <1>8 DEF EndsAreFinal, t
  <2> QED BY <1>1, <1>3, <1>8, <2>1 DEF EndsAreFinal
<1>13. \A n : Accounted(n) => Accounted(n)'
  <2>1. \A n, r : SpentBy(n, r) => SpentBy(n, r)'
    BY <1>1, <1>2, <1>5, <1>8 DEF SpentBy
  <2> QED BY <1>1, <2>1 DEF Accounted
<1>14. \A n \in inputs : Accounted(n)
  <2>1. \A n \in inputs : n \in stored \/ n \in view[tab]
    BY <1>1 DEF Spendable
  <2> QED BY <2>1 DEF NotesAreAccounted, Accounted
<1>15. NotesAreAccounted'
  <2>1. \A a \in Tabs : \A n \in view'[a] : Accounted(n)'
    BY <1>1, <1>13 DEF NotesAreAccounted
  <2>2. \A r \in Jobs' : \A n \in tx'[r].inputs : Accounted(n)'
    <3>1. \A r \in Jobs : r # t /\ r \in TxIds
      BY <1>3, JobFacts
    <3> QED BY <1>5, <1>6, <1>8, <1>13, <1>14, <3>1 DEF NotesAreAccounted
  <2>3. ASSUME NEW r \in TxIds
        PROVE  \/ request'[r] \in {"none", "failed"} \/ r \in Jobs' \/ r \in broken'
               \/ request'[r] = "done" /\ (tx'[r].change => Accounted(r)')
    <3>1. \/ request[r] \in {"none", "failed"} \/ r \in Jobs \/ r \in broken
          \/ request[r] = "done" /\ (tx[r].change => Accounted(r))
      BY DEF NotesAreAccounted
    <3> QED BY <1>1, <1>2, <1>5, <1>8, <1>13, <3>1
  <2>4. \A n \in existing' \ spent' :
          Accounted(n)' \/ n \in Jobs' \/ (n \in TxIds /\ (n \in broken' \/ request'[n] = "failed"))
    BY <1>1, <1>8, <1>13 DEF NotesAreAccounted, node
  <2> QED BY <2>1, <2>2, <2>3, <2>4 DEF NotesAreAccounted
<1>16. EntriesAreKept'
  <2> SUFFICES ASSUME overlaps' = {}
               PROVE  /\ \A a, r \in Jobs' : a # r => tx'[a].inputs \cap tx'[r].inputs = {}
                      /\ \A r \in Jobs' : now - tx'[r].start < PendingTimeout =>
                           \E p \in pending' : p.psis = tx'[r].inputs /\ p.at = tx'[r].start
    BY <1>1 DEF EntriesAreKept
  <2>1. overlaps = {} /\ \A r \in Jobs : tx[r].inputs \cap inputs = {}
    BY <1>1
  <2>2. \A r \in Jobs : r # t /\ tx'[r] = tx[r]
    BY <1>3, <1>5, JobFacts
  <2>3. \A a, r \in Jobs' : a # r => tx'[a].inputs \cap tx'[r].inputs = {}
    BY <1>5, <1>6, <1>8, <2>1, <2>2 DEF EntriesAreKept
  <2>4. ASSUME NEW r \in Jobs', now - tx'[r].start < PendingTimeout
        PROVE  \E p \in pending' : p.psis = tx'[r].inputs /\ p.at = tx'[r].start
    <3>1. CASE r = t
      BY <1>1, <1>5, <1>6, <3>1
    <3>2. CASE r # t
      <4>1. r \in Jobs /\ tx'[r] = tx[r]
        BY <1>8, <2>2, <3>2
      <4>2. PICK p \in pending : p.psis = tx[r].inputs /\ p.at = tx[r].start
        BY <2>1, <2>4, <4>1 DEF EntriesAreKept
      <4>3. p \in Active
        BY <2>4, <4>1, <4>2 DEF Active
      <4> QED BY <1>1, <4>1, <4>2, <4>3
    <3> QED BY <3>1, <3>2
  <2> QED BY <2>3, <2>4
<1>17. FreshSelectionsAreDisjoint'
  <2>1. CASE overlaps' = overlaps
    BY <2>1 DEF FreshSelectionsAreDisjoint
  <2>2. CASE overlaps' # overlaps
    <3>1. PICK r \in Jobs : tx[r].inputs \cap inputs # {}
      BY <1>1, <2>2
    <3>2. overlaps = {}
      BY <1>1, <2>2
    <3>3. ASSUME fresh PROVE now - tx[r].start >= PendingTimeout
      <4> SUFFICES ASSUME ~(now - tx[r].start >= PendingTimeout) PROVE FALSE
        OBVIOUS
      <4>1. now \in Int /\ tx[r].start \in Int /\ PendingTimeout \in Int
        BY JobFacts, TransferAssumption DEF TransfersAreWellFormed
      <4>2. now - tx[r].start < PendingTimeout
        BY <4>1
      <4>3. PICK p \in pending : p.psis = tx[r].inputs /\ p.at = tx[r].start
        BY <3>2, <4>2 DEF EntriesAreKept
      <4>4. p \in Active
        BY <4>2, <4>3 DEF Active
      <4> QED BY <1>1, <3>1, <3>3, <4>3, <4>4 DEF Spendable
    <3>4. \A o \in overlaps' : o.fresh = fresh /\
            (o.expired <=> \E q \in rivals : now - tx[q].start >= PendingTimeout)
      BY <1>1, <2>2
    <3> QED BY <3>1, <3>3, <3>4 DEF FreshSelectionsAreDisjoint
  <2> QED BY <2>1, <2>2
<1> QED BY <1>9, <1>10, <1>11, <1>12, <1>15, <1>16, <1>17

----------------------------------------------------------------------------
LEMMA InitialTransferInv ==
  Init => TransferInv
<1> SUFFICES ASSUME Init PROVE TransferInv
  OBVIOUS
<1>1. Jobs = {} /\ 0 \in 0..MaxTime /\ 0 \in 0..MaxTxs /\ {} # Parts
  BY TransferAssumption DEF Init, Jobs, Parts
<1>2. TypeOK
  BY <1>1 DEF Init, TypeOK, Notes
<1>3. TransfersAreWellFormed
  <2>1. NoTx \in [inputs : SUBSET Notes, change : BOOLEAN, root : Nat \cup {Unread, NoPath}, start : 0..MaxTime]
    BY <1>1 DEF NoTx
  <2> QED BY <1>1, <2>1 DEF Init, TransfersAreWellFormed
<1>4. SendsAreInOrder
  BY TransferAssumption DEF Init, SendsAreInOrder, NoTx, TxIds, Parts
<1>5. EndsAreFinal
  BY TransferAssumption DEF Init, EndsAreFinal, TxIds
<1>6. NotesAreAccounted
  <2>1. \A n \in Coins : Accounted(n)
    BY DEF Init, Accounted
  <2> QED BY <1>1, <2>1 DEF Init, NotesAreAccounted
<1>7. EntriesAreKept /\ FreshSelectionsAreDisjoint
  BY <1>1 DEF Init, EntriesAreKept, FreshSelectionsAreDisjoint
<1> QED BY <1>2, <1>3, <1>4, <1>5, <1>6, <1>7 DEF TransferInv

LEMMA StutteringKeepsTransferInv ==
  ASSUME TransferInv, UNCHANGED vars
  PROVE  TransferInv'
<1>1. /\ UNCHANGED <<now, stored, pending, view, job, tx, txs, overlaps>>
      /\ UNCHANGED <<request, submitted, status, spent, existing, height, broken>>
  BY DEF vars, client, node
<1>2. Jobs' = Jobs
  BY <1>1 DEF Jobs
<1>3. TypeOK' /\ TransfersAreWellFormed'
  BY <1>1 DEF TransferInv, TypeOK, TransfersAreWellFormed
<1>4. SendsAreInOrder' /\ EndsAreFinal' /\ EntriesAreKept' /\ FreshSelectionsAreDisjoint'
  BY <1>1, <1>2 DEF TransferInv, SendsAreInOrder, EndsAreFinal, EntriesAreKept,
                    FreshSelectionsAreDisjoint, Parts
<1>5. NotesAreAccounted'
  <2>1. \A n : Accounted(n)' <=> Accounted(n)
    BY <1>1, <1>2 DEF Accounted, SpentBy
  <2> QED BY <1>1, <1>2, <2>1 DEF TransferInv, NotesAreAccounted
<1> QED BY <1>3, <1>4, <1>5 DEF TransferInv

(* The strengthening that the theorems below follow from: requests of      *)
(* finalize_transfer send their parts in order, a client that gave up      *)
(* stores nothing, and every note is in the wallet or was spent in a       *)
(* transfer it believes to have been sent.                                 *)
THEOREM TransferInvHolds == Spec => []TransferInv
<1>1. TransferInv /\ [Next]_vars => TransferInv'
  <2> SUFFICES ASSUME TransferInv, [Next]_vars PROVE TransferInv'
    OBVIOUS
  <2>1. CASE UNCHANGED vars
    BY <2>1, StutteringKeepsTransferInv
  <2>2. ASSUME NEW tab \in Tabs, NEW inputs \in SUBSET Notes, NEW change \in BOOLEAN,
               NEW fresh \in BOOLEAN, Start(tab, inputs, change, fresh)
        PROVE  TransferInv'
    BY <2>2, StartKeepsInv
  <2>3. ASSUME NEW tab \in Tabs, ReadWitness(tab) PROVE TransferInv'
    BY <2>3, ReadWitnessKeepsInv
  <2>4. ASSUME NEW tab \in Tabs, CallFinalize(tab) PROVE TransferInv'
    BY <2>4, CallFinalizeKeepsInv
  <2>5. ASSUME NEW tab \in Tabs, Succeed(tab) PROVE TransferInv'
    BY <2>5, SucceedKeepsInv
  <2>6. ASSUME NEW tab \in Tabs, Refresh(tab) PROVE TransferInv'
    BY <2>6, RefreshKeepsInv
  <2>7. ASSUME NEW tab \in Tabs,
               \/ ProofFails(tab) \/ Fail(tab)
               \/ \E dropped \in BOOLEAN : LoseConnection(tab, dropped) \/ CloseTab(tab, dropped)
        PROVE  TransferInv'
    BY <2>7, GivingUpKeepsInv
  <2>8. ASSUME NEW t \in TxIds, Send(t) \/ Finish(t) \/ Settle(t) \/ Drop(t)
        PROVE  TransferInv'
    BY <2>8, SendKeepsInv, FinishKeepsInv, SettleKeepsInv, DropKeepsInv
  <2>9. ASSUME NEW t \in TxIds, NEW received \in BOOLEAN, SendFails(t, received)
        PROVE  TransferInv'
    BY <2>9, SendFailsKeepsInv
  <2>10. CASE OtherSettles
    BY <2>10, OtherSettlesKeepsInv
  <2>11. CASE Tick
    BY <2>11, TickKeepsInv
  <2> QED BY <2>1, <2>2, <2>3, <2>4, <2>5, <2>6, <2>7, <2>8, <2>9, <2>10, <2>11 DEF Next
<1> QED BY InitialTransferInv, <1>1, PTL DEF Spec

(* Storage, requests and submissions of the wallet stay well-formed: the   *)
(* node never holds a proof of a transaction it has not sequenced.         *)
THEOREM TransferTypeCorrect == Spec => []TypeOK
<1>1. TransferInv => TypeOK
  BY DEF TransferInv
<1> QED BY <1>1, TransferInvHolds, PTL

(* getSpendableNotes and markNotesPending: two transfers whose notes were  *)
(* selected from a fresh reading, within the timeout of each other, never  *)
(* share a note, however many tabs there are.                              *)
THEOREM FreshSelectionsDoNotCollide == Spec => []FreshSelectionsAreDisjoint
<1>1. TransferInv => FreshSelectionsAreDisjoint
  BY DEF TransferInv
<1> QED BY <1>1, TransferInvHolds, PTL

(* Steps 8 and 9 of executeTransfer: a change note is in the wallet only   *)
(* if finalize_transfer sent the transaction and both proofs, and its      *)
(* client heard of it.                                                     *)
THEOREM StoredChangeWasSubmitted == Spec => []StoredChangeIsSubmitted
<1>1. TransferInv => StoredChangeIsSubmitted
  BY DEF TransferInv, StoredChangeIsSubmitted, EndsAreFinal, SendsAreInOrder
<1> QED BY <1>1, TransferInvHolds, PTL

(* The wallet loses sight of an unspent note only with an answer it did    *)
(* not wait for or that was an error, or with a transfer that it was told  *)
(* had been sent and that the node did not settle.                         *)
THEOREM LossesHaveACause == Spec => []LossHasACause
<1>1. TransferInv => LossHasACause
  <2> SUFFICES ASSUME TransferInv, NEW n \in existing \ spent
               PROVE  \/ n \in stored \cup Jobs
                      \/ n \in TxIds /\ (n \in broken \/ request[n] = "failed")
                      \/ \E t \in TxIds : /\ n \in tx[t].inputs /\ request[t] = "done"
                                          /\ status[t] # "success"
    BY DEF LossHasACause
  <2>1. \A t \in TxIds : status[t] = "success" => tx[t].inputs \subseteq spent
    BY DEF TransferInv, SendsAreInOrder
  <2>2. Accounted(n) \/ n \in Jobs \/ (n \in TxIds /\ (n \in broken \/ request[n] = "failed"))
    BY DEF TransferInv, NotesAreAccounted
  <2> QED BY <2>1, <2>2 DEF Accounted, SpentBy
<1> QED BY <1>1, TransferInvHolds, PTL

----------------------------------------------------------------------------
(* What a transfer spends, and what is proved of it.  Numbers up to        *)
(* 2 ^ Precision are exact.                                                *)
Q == INSTANCE NoteQueueProofs WITH Tags <- {}, MaxNotes <- 1, Limit <- 1

(* Bit is a loop that doubles. *)
LEMMA BitIsPositive ==
  ASSUME NEW n \in Nat
  PROVE  Bit(n) \in Nat \ {0}
<1> DEFINE Doubling(g, k) == IF k = 0 THEN 1 ELSE 2 * g[k - 1]
           f == CHOOSE g : g = [k \in 0..n |-> Doubling(g, k)]
<1>1. \E g : g = [k \in 0..n |-> Doubling(g, k)]
  <2> DEFINE Doubles(g, m) == g[0] = 1 /\ \A i \in 1..m : g[i] = 2 * g[i - 1]
             P == {m \in 0..n : \E g \in [0..n -> Nat] : Doubles(g, m)}
  <2>1. 0 \in P
    <3> DEFINE ones == [k \in 0..n |-> 1]
    <3>1. ones \in [0..n -> Nat] /\ ones[0] = 1
      OBVIOUS
    <3> HIDE DEF ones
    <3>2. Doubles(ones, 0)
      BY <3>1
    <3> QED BY <3>1, <3>2
  <2>2. ASSUME NEW m \in 1..n, m - 1 \in P PROVE m \in P
    <3>1. PICK g \in [0..n -> Nat] : Doubles(g, m - 1)
      BY <2>2
    <3> DEFINE h == [g EXCEPT ![m] = 2 * g[m - 1]]
    <3>2. m \in 0..n /\ m - 1 \in 0..n /\ m # 0 /\ m # m - 1 /\ g[m - 1] \in Nat
      OBVIOUS
    <3>3. h \in [0..n -> Nat] /\ h[m] = 2 * g[m - 1] /\ \A i \in 0..n : i # m => h[i] = g[i]
      BY <3>2
    <3> HIDE DEF h
    <3>4. ASSUME NEW i \in 1..m PROVE h[i] = 2 * h[i - 1]
      <4>1. i \in 0..n /\ i - 1 \in 0..n /\ i - 1 # m
        OBVIOUS
      <4>2. CASE i = m
        BY <3>3, <4>1, <4>2
      <4>3. CASE i # m
        <5>1. i \in 1..(m - 1)
          BY <4>3
        <5> QED BY <3>1, <3>3, <4>1, <4>3, <5>1
      <4> QED BY <4>2, <4>3
    <3>5. Doubles(h, m)
      BY <3>1, <3>2, <3>3, <3>4
    <3> QED BY <3>2, <3>3, <3>5
  <2>3. n \in P
    <3> HIDE DEF P
    <3>1. 0..n \subseteq P
      BY <2>1, <2>2, Q!IntervalInduction
    <3> QED BY <3>1
  <2>4. PICK g \in [0..n -> Nat] : Doubles(g, n)
    BY <2>3
  <2>5. g = [k \in 0..n |-> Doubling(g, k)]
    <3>1. \A k \in 0..n : k = 0 \/ k \in 1..n
      OBVIOUS
    <3> QED BY <2>4, <3>1
  <2> QED BY <2>5
<1>2. f = [k \in 0..n |-> Doubling(f, k)]
  <2> HIDE DEF Doubling
  <2> QED BY <1>1
<1>3. Bit(n) = f[n]
  BY DEF Bit
<1> HIDE DEF f
<1> DEFINE P == {k \in 0..n : f[k] \in Nat \ {0}}
<1>4. 0 \in P
  BY <1>2
<1>5. ASSUME NEW k \in 1..n, k - 1 \in P PROVE k \in P
  BY <1>2, <1>5
<1>6. 0..n \subseteq P
  <2> HIDE DEF P
  <2> QED BY <1>4, <1>5, Q!IntervalInduction
<1> QED BY <1>3, <1>6

LEMMA BitZero == Bit(0) = 1
<1> DEFINE Doubling(g, k) == IF k = 0 THEN 1 ELSE 2 * g[k - 1]
           f == CHOOSE g : g = [k \in 0..0 |-> Doubling(g, k)]
           one == [k \in {0} |-> 1]
<1>1. 0..0 = {0}
  OBVIOUS
<1>2. one = [k \in 0..0 |-> Doubling(one, k)]
  BY <1>1
<1>3. f = [k \in 0..0 |-> Doubling(f, k)]
  <2> HIDE DEF one, Doubling
  <2> QED BY <1>2
<1>4. Bit(0) = f[0]
  BY DEF Bit
<1> HIDE DEF f
<1> QED BY <1>1, <1>3, <1>4

(* A number of few bits is itself (parseNoteValue, and the sums). *)
LEMMA ExactNumber ==
  ASSUME NEW n \in Nat, n < Bit(Precision)
  PROVE  number(n) = n
<1> DEFINE fits(e)  == n < Bit(Precision + e)
           exponent == CHOOSE e \in 0..n : fits(e) /\ \A d \in 0..(e - 1) : ~fits(d)
           unit     == Bit(exponent)
<1>1. fits(0)
  BY PrecisionAssumption
<1> HIDE DEF fits
<1>2. \A e \in 0..n : e # 0 => 0 \in 0..(e - 1)
  OBVIOUS
<1>3. 0 \in 0..n /\ \A d \in 0..(0 - 1) : ~fits(d)
  OBVIOUS
<1>4. exponent = 0
  BY <1>1, <1>2, <1>3
<1>5. unit = 1
  BY <1>4, BitZero
<1>6. number(n) = unit * (IF 2 * (n % unit) > unit \/ (2 * (n % unit) = unit /\ (n \div unit) % 2 = 1)
                          THEN n \div unit + 1 ELSE n \div unit)
  BY DEF number, fits
<1> HIDE DEF unit
<1>7. n \div 1 = n /\ n % 1 = 0
  OBVIOUS
<1> QED BY <1>5, <1>6, <1>7

(* Some input of a set comes first in the ascending order. *)
LEMMA FirstInput ==
  ASSUME NEW inputs, NEW S \in SUBSET Nat, S # {}, \A k \in S : value_at(inputs, k) \in Nat
  PROVE  \E k \in S : \A l \in S : ~ascending(inputs, l, k)
<1> DEFINE v(k) == value_at(inputs, k)
           T    == {v(k) : k \in S}
<1>1. \A l, k : ascending(inputs, l, k) <=> v(l) < v(k) \/ (v(l) = v(k) /\ l < k)
  BY DEF ascending
<1> HIDE DEF v
<1>2. \A k \in S : v(k) \in Nat
  BY DEF v
<1>3. PICK m \in T : \A n \in T : m <= n
  <2>1. T \in SUBSET Nat /\ T # {}
    BY <1>2
  <2> HIDE DEF T
  <2> QED BY <2>1, Q!LeastNatural
<1> DEFINE U == {k \in S : v(k) = m}
<1>4. PICK k \in U : \A l \in U : k <= l
  <2>1. U \in SUBSET Nat /\ U # {}
    BY <1>3
  <2> HIDE DEF U
  <2> QED BY <2>1, Q!LeastNatural
<1>5. ASSUME NEW l \in S PROVE ~ascending(inputs, l, k)
  <2>1. v(k) = m /\ m <= v(l) /\ m \in Nat /\ v(l) \in Nat
    BY <1>2, <1>3
  <2>2. v(l) = m => k <= l
    BY <1>4
  <2>3. ~(v(l) < v(k)) /\ ~(v(l) = v(k) /\ l < k)
    BY <2>1, <2>2
  <2> QED BY <1>1, <2>3
<1> QED BY <1>5

(* The same of pairs, which are ordered by their first input. *)
LEMMA FirstPair ==
  ASSUME NEW inputs, NEW S \in SUBSET Nat, \A k \in S : value_at(inputs, k) \in Nat,
         NEW P \in SUBSET (S \X S), P # {}
  PROVE  \E p \in P : \A q \in P : ~(\/ ascending(inputs, q[1], p[1])
                                     \/ q[1] = p[1] /\ ascending(inputs, q[2], p[2]))
<1> DEFINE A == {p[1] : p \in P}
<1>1. PICK a \in A : \A b \in A : ~ascending(inputs, b, a)
  <2>1. A \in SUBSET Nat /\ A # {} /\ \A k \in A : value_at(inputs, k) \in Nat
    OBVIOUS
  <2> HIDE DEF A
  <2> QED BY <2>1, FirstInput
<1> DEFINE B == {p[2] : p \in {p \in P : p[1] = a}}
<1>2. PICK b \in B : \A c \in B : ~ascending(inputs, c, b)
  <2>1. B \in SUBSET Nat /\ B # {} /\ \A k \in B : value_at(inputs, k) \in Nat
    BY <1>1
  <2> HIDE DEF B
  <2> QED BY <2>1, FirstInput
<1>3. PICK p \in P : p[1] = a /\ p[2] = b
  BY <1>2
<1>4. ASSUME NEW q \in P
      PROVE  ~ascending(inputs, q[1], a) /\ (q[1] = a => ~ascending(inputs, q[2], b))
  BY <1>1, <1>2
<1> QED BY <1>3, <1>4

(* Inputs of which every value, and the sum of every two, is exact. *)
Worth(inputs, k) == inputs[k].note.value

AreExact(inputs) ==
  /\ DOMAIN inputs \subseteq Nat
  /\ \A k \in DOMAIN inputs : Worth(inputs, k) \in Nat /\ Worth(inputs, k) < Bit(Precision)
  /\ \A j, k \in DOMAIN inputs :
       j # k => Worth(inputs, j) + Worth(inputs, k) < Bit(Precision)

(* A selection of one input: the least that is enough, with padding. *)
SelectsOne(s, inputs, amount) ==
  \E a \in DOMAIN inputs :
    /\ 0 < Worth(inputs, a) /\ amount <= Worth(inputs, a)
    /\ \A k \in DOMAIN inputs :
         0 < Worth(inputs, k) /\ amount <= Worth(inputs, k) => Worth(inputs, a) <= Worth(inputs, k)
    /\ s = [selectedInputs |-> <<inputs[a], createPaddingInputNote>>,
            changeAmount |-> Worth(inputs, a) - amount, totalInput |-> Worth(inputs, a)]

(* Of two: different ones that are enough, where no single one is. *)
SelectsTwo(s, inputs, amount) ==
  \E a, b \in DOMAIN inputs :
    /\ a # b /\ 0 < Worth(inputs, a) /\ 0 < Worth(inputs, b)
    /\ amount <= Worth(inputs, a) + Worth(inputs, b)
    /\ \A k \in DOMAIN inputs : 0 < Worth(inputs, k) => Worth(inputs, k) < amount
    /\ s = [selectedInputs |-> <<inputs[a], inputs[b]>>,
            changeAmount |-> (Worth(inputs, a) + Worth(inputs, b)) - amount,
            totalInput |-> Worth(inputs, a) + Worth(inputs, b)]

(* What is selected is in the wallet, in two different places, and adds up *)
(* to the amount and the change; it is a single note when one is enough,   *)
(* then the least such (selectNotesForTransfer).                           *)
THEOREM SelectionAddsUp ==
  ASSUME NEW inputs, AreExact(inputs), NEW amount \in Nat,
         selectNotesForTransfer(inputs, amount) # <<>>
  PROVE  \E s : /\ selectNotesForTransfer(inputs, amount) = <<s>>
                /\ SelectsOne(s, inputs, amount) \/ SelectsTwo(s, inputs, amount)
<1> DEFINE D       == DOMAIN inputs
           w(k)    == Worth(inputs, k)
           worthy  == {k \in D : value_at(inputs, k) > 0}
           singles == {k \in worthy : value_at(inputs, k) >= amount}
           pairs   == {p \in worthy \X worthy :
                         /\ ascending(inputs, p[1], p[2])
                         /\ number(value_at(inputs, p[1]) + value_at(inputs, p[2])) >= amount}
           before(q, p) == \/ ascending(inputs, q[1], p[1])
                           \/ q[1] = p[1] /\ ascending(inputs, q[2], p[2])
           single  == CHOOSE k \in singles : \A l \in singles : ~ascending(inputs, l, k)
           pair    == CHOOSE p \in pairs : \A q \in pairs : ~before(q, p)
           one     == selection_of(inputs[single], createPaddingInputNote, amount)
           two     == selection_of(inputs[pair[1]], inputs[pair[2]], amount)
<1>1. /\ D \subseteq Nat /\ Bit(Precision) \in Nat /\ 0 < Bit(Precision)
      /\ \A k \in D : w(k) \in Nat /\ w(k) < Bit(Precision)
      /\ \A j, k \in D : j # k => w(j) + w(k) < Bit(Precision)
  BY PrecisionAssumption, BitIsPositive DEF AreExact
<1>2. \A k \in D : value_at(inputs, k) = w(k) /\ parseNoteValue(inputs[k].note) = w(k)
  BY <1>1, ExactNumber DEF value_at, parseNoteValue, Worth
<1>3. parseNoteValue(createPaddingInputNote.note) = 0
  <2>1. createPaddingInputNote.note.value = 0
    BY DEF createPaddingInputNote, createPaddingNote, padding_note
  <2> QED BY <1>1, <2>1, ExactNumber DEF parseNoteValue
<1>4. selectNotesForTransfer(inputs, amount) =
        IF number_total(valued(inputs)) < amount THEN <<>>
        ELSE IF singles # {} THEN <<one>> ELSE IF pairs # {} THEN <<two>> ELSE <<>>
  BY DEF selectNotesForTransfer
<1>5. \A a, b : selection_of(a, b, amount) =
        [selectedInputs |-> <<a, b>>,
         changeAmount |-> number(number(parseNoteValue(a.note) + parseNoteValue(b.note)) - amount),
         totalInput |-> number(parseNoteValue(a.note) + parseNoteValue(b.note))]
  BY DEF selection_of
<1> HIDE DEF w, D
<1>6. CASE singles # {}
  <2>1. single \in singles /\ \A l \in singles : ~ascending(inputs, l, single)
    <3>1. singles \in SUBSET Nat /\ \A k \in singles : value_at(inputs, k) \in Nat
      BY <1>1, <1>2
    <3> HIDE DEF singles
    <3> QED BY <1>6, <3>1, FirstInput
  <2> DEFINE a == single
  <2> HIDE DEF single
  <2>2. a \in D /\ w(a) \in Nat /\ 0 < w(a) /\ amount <= w(a)
    BY <1>1, <1>2, <2>1
  <2>3. ASSUME NEW k \in D, 0 < w(k), amount <= w(k)
        PROVE  w(a) <= w(k)
    <3>1. k \in singles /\ w(k) \in Nat
      BY <1>1, <1>2, <2>3
    <3>2. ~(w(k) < w(a))
      BY <1>2, <2>1, <2>2, <3>1 DEF ascending
    <3> QED BY <2>2, <3>1, <3>2
  <2>4. w(a) + 0 = w(a) /\ w(a) - amount \in Nat /\ w(a) - amount < Bit(Precision)
    BY <1>1, <2>2
  <2>5. number(w(a)) = w(a) /\ number(w(a) - amount) = w(a) - amount
    BY <1>1, <2>2, <2>4, ExactNumber
  <2>6. parseNoteValue(inputs[a].note) = w(a)
    BY <1>2, <2>2
  <2>7. one = [selectedInputs |-> <<inputs[a], createPaddingInputNote>>,
               changeAmount |-> w(a) - amount, totalInput |-> w(a)]
    BY <1>3, <1>5, <2>4, <2>5, <2>6
  <2>8. SelectsOne(one, inputs, amount)
    BY <2>2, <2>3, <2>7 DEF SelectsOne, w, D
  <2> HIDE DEF one, singles
  <2> QED BY <1>4, <1>6, <2>8
<1>7. CASE singles = {} /\ pairs # {}
  <2>1. pair \in pairs
    <3>1. worthy \in SUBSET Nat /\ pairs \in SUBSET (worthy \X worthy)
      BY <1>1
    <3>2. \A k \in worthy : value_at(inputs, k) \in Nat
      BY <1>1, <1>2
    <3>3. \E p \in pairs : \A q \in pairs : ~before(q, p)
      <4> HIDE DEF worthy, pairs
      <4> QED BY <1>7, <3>1, <3>2, FirstPair
    <3> HIDE DEF pairs, before
    <3> QED BY <3>3
  <2> DEFINE a == pair[1]
             b == pair[2]
  <2>2. /\ a \in D /\ b \in D /\ 0 < value_at(inputs, a) /\ 0 < value_at(inputs, b)
        /\ ascending(inputs, a, b)
        /\ number(value_at(inputs, a) + value_at(inputs, b)) >= amount
    <3> HIDE DEF pair
    <3> QED BY <2>1
  <2> HIDE DEF a, b
  <2>3. /\ value_at(inputs, a) = w(a) /\ value_at(inputs, b) = w(b)
        /\ w(a) \in Nat /\ w(b) \in Nat
    BY <1>1, <1>2, <2>2
  <2>4. a # b
    <3>1. a \in Int /\ b \in Int
      BY <1>1, <2>2
    <3> QED BY <2>2, <2>3, <3>1 DEF ascending
  <2>5. w(a) + w(b) \in Nat /\ w(a) + w(b) < Bit(Precision)
    BY <1>1, <2>2, <2>3, <2>4
  <2>6. number(w(a) + w(b)) = w(a) + w(b)
    BY <2>5, ExactNumber
  <2>7. amount <= w(a) + w(b) /\ 0 < w(a) /\ 0 < w(b)
    BY <2>2, <2>3, <2>6
  <2>8. ASSUME NEW k \in D, 0 < w(k) PROVE w(k) < amount
    <3>1. k \notin singles
      BY <1>7
    <3> QED BY <1>1, <1>2, <2>8, <3>1
  <2>9. number((w(a) + w(b)) - amount) = (w(a) + w(b)) - amount
    <3> DEFINE total == w(a) + w(b)
    <3>1. total \in Nat /\ total < Bit(Precision) /\ amount <= total /\ Bit(Precision) \in Nat
      BY <1>1, <2>5, <2>7
    <3> HIDE DEF total
    <3>2. total - amount \in Nat /\ total - amount < Bit(Precision)
      BY <3>1
    <3>3. number(total - amount) = total - amount
      BY <3>2, ExactNumber
    <3> QED BY <3>3 DEF total
  <2>10. parseNoteValue(inputs[a].note) = w(a) /\ parseNoteValue(inputs[b].note) = w(b)
    BY <1>2, <2>2
  <2>11. two = [selectedInputs |-> <<inputs[a], inputs[b]>>,
                changeAmount |-> (w(a) + w(b)) - amount, totalInput |-> w(a) + w(b)]
    <3>1. two = selection_of(inputs[a], inputs[b], amount)
      BY DEF a, b
    <3>2. selection_of(inputs[a], inputs[b], amount) =
            [selectedInputs |-> <<inputs[a], inputs[b]>>,
             changeAmount |-> number(number(w(a) + w(b)) - amount), totalInput |-> number(w(a) + w(b))]
      BY <1>5, <2>10
    <3> HIDE DEF two
    <3> QED BY <2>6, <2>9, <3>1, <3>2
  <2>12. SelectsTwo(two, inputs, amount)
    BY <2>2, <2>4, <2>7, <2>8, <2>11 DEF SelectsTwo, w, D
  <2> HIDE DEF two, singles, pairs
  <2> QED BY <1>4, <1>7, <2>12
<1> HIDE DEF singles, pairs
<1> QED BY <1>4, <1>6, <1>7

(* A note of the token t, or of none and without value. *)
IsOfToken(n, t) == n.contract \in {0, t} /\ (n.contract = 0 => n.value = 0)

IsOwned(i) == i.note.value # 0 => i.note.address = get_address(i.secret_key)

(* Two sequences of two. *)
LEMMA TwoAndTwo ==
  ASSUME NEW a, NEW b, NEW c, NEW d
  PROVE  /\ <<a, b>> \o <<c, d>> = <<a, b, c, d>>
         /\ SubSeq(<<a, b, c, d>>, 3, 4) = <<c, d>>
<1> DEFINE S == {a, b, c, d}
           s == <<a, b>>
           t == <<c, d>>
           r == <<a, b, c, d>>
<1>1. s \in Seq(S) /\ t \in Seq(S) /\ r \in Seq(S)
  OBVIOUS
<1>2. /\ Len(s) = 2 /\ Len(t) = 2 /\ Len(r) = 4
      /\ s[1] = a /\ s[2] = b /\ t[1] = c /\ t[2] = d
      /\ r[1] = a /\ r[2] = b /\ r[3] = c /\ r[4] = d
  OBVIOUS
<1>3. \A i \in 1..4 : i = 1 \/ i = 2 \/ i = 3 \/ i = 4
  OBVIOUS
<1> HIDE DEF S, s, t, r
<1>4. s \o t = r
  <2>1. /\ s \o t \in Seq(S) /\ Len(s \o t) = 4
        /\ \A i \in 1..4 : (s \o t)[i] = IF i <= 2 THEN s[i] ELSE t[i - 2]
    <3>1. /\ s \o t \in Seq(S) /\ Len(s \o t) = Len(s) + Len(t)
          /\ \A i \in 1..(Len(s) + Len(t)) :
               (s \o t)[i] = IF i <= Len(s) THEN s[i] ELSE t[i - Len(s)]
      BY <1>1, ConcatProperties
    <3>2. Len(s) + Len(t) = 4 /\ Len(s) = 2
      BY <1>2
    <3> QED BY <3>1, <3>2
  <2>2. \A i \in 1..4 : (s \o t)[i] = r[i]
    BY <1>2, <1>3, <2>1
  <2> QED BY <1>1, <1>2, <2>1, <2>2, SeqEqual
<1>5. SubSeq(r, 3, 4) = t
  <2>1. \A i \in 3..4 : r[i] \in S
    <3>1. \A i \in 3..4 : i = 3 \/ i = 4
      OBVIOUS
    <3> QED BY <1>2, <3>1 DEF S
  <2>2. /\ SubSeq(r, 3, 4) \in Seq(S) /\ Len(SubSeq(r, 3, 4)) = 2
        /\ \A i \in 1..2 : SubSeq(r, 3, 4)[i] = r[3 + i - 1]
    BY <2>1, SubSeqProperties
  <2>3. \A i \in 1..2 : SubSeq(r, 3, 4)[i] = t[i]
    <3>1. \A i \in 1..2 : i = 1 \/ i = 2
      OBVIOUS
    <3> QED BY <1>2, <2>2, <3>1
  <2> QED BY <1>1, <1>2, <2>2, <2>3, SeqEqual
<1> QED BY <1>4, <1>5 DEF s, t, r

(* What the wallet gives the prover fits the circuit, when the notes are   *)
(* of one token and the inputs its own, and the amounts balance.           *)
LEMMA ProverAccepts ==
  ASSUME NEW inputs, NEW outputs, NEW n \in {3, 4}, NEW pmessage4, NEW messages, NEW t,
         t # 0,
         \A i \in 1..2 : IsOfToken(inputs[i].note, t) /\ IsOwned(inputs[i]),
         \A i \in 1..2 : IsOfToken(outputs[i], t) /\ outputs[i].value < Limit,
         messages[3] < Limit,
         balance_ok([i \in 1..2 |-> prover_input(inputs[i])], [i \in 1..2 |-> prover_note(outputs[i])],
                    pmessage4, [i \in 1..2 |-> computeCommitment(inputs[i].note)]
                                 \o [i \in 1..2 |-> computeCommitment(outputs[i])], messages)
  PROVE  proves(proof_inputs(inputs, outputs, n, pmessage4, messages))
<1> DEFINE ins  == [i \in 1..2 |-> prover_input(inputs[i])]
           outs == [i \in 1..2 |-> prover_note(outputs[i])]
           c    == [i \in 1..2 |-> computeCommitment(inputs[i].note)]
                     \o [i \in 1..2 |-> computeCommitment(outputs[i])]
           nullifiers == [i \in 1..2 |-> compute_nullifier(ins[i].note.psi, ins[i].secret_key)]
           p    == proof_inputs(inputs, outputs, n, pmessage4, messages)
<1> DEFINE i1 == computeCommitment(inputs[1].note)
           i2 == computeCommitment(inputs[2].note)
           o1 == computeCommitment(outputs[1])
           o2 == computeCommitment(outputs[2])
<1>1. c = <<i1, i2, o1, o2>>
  <2> DEFINE front == [i \in 1..2 |-> computeCommitment(inputs[i].note)]
             back  == [i \in 1..2 |-> computeCommitment(outputs[i])]
  <2>1. front = <<i1, i2>>
    OBVIOUS
  <2>2. back = <<o1, o2>>
    OBVIOUS
  <2>3. c = front \o back
    OBVIOUS
  <2> HIDE DEF front, back, c, i1, i2, o1, o2
  <2>4. <<i1, i2>> \o <<o1, o2>> = <<i1, i2, o1, o2>>
    BY TwoAndTwo, Zenon
  <2> QED BY <2>1, <2>2, <2>3, <2>4
<1>2. \A i \in 1..2 :
        /\ ins[i] = [note |-> prover_note(inputs[i].note), secret_key |-> inputs[i].secret_key]
        /\ outs[i] = prover_note(outputs[i])
  BY DEF prover_input
<1>3. \A m : IsOfToken(m, t) =>
        check_commitment(prover_note(m), computeCommitment(m)) /\ prover_note(m).kind \in {0, t}
  BY DEF IsOfToken, check_commitment, note_commitment_ok, get_note_commitment, computeCommitment,
         prover_note
<1>4. \A m : prover_note(m).value = m.value /\ prover_note(m).psi = m.psi
             /\ prover_note(m).address = m.address
  BY DEF prover_note
<1> HIDE DEF c, ins, outs
<1>5. commitments_ok(ins, outs, c)
  BY <1>1, <1>2, <1>3 DEF commitments_ok
<1>6. sizes_ok(outs, messages)
  BY <1>2, <1>4 DEF sizes_ok
<1>7. kinds_ok(ins, outs)
  <2> DEFINE four == <<ins[1].note, ins[2].note, outs[1], outs[2]>>
  <2>1. \A i \in DOMAIN four : four[i].kind \in {0, t}
    <3>1. /\ ins[1].note.kind \in {0, t} /\ ins[2].note.kind \in {0, t}
          /\ outs[1].kind \in {0, t} /\ outs[2].kind \in {0, t}
      BY <1>2, <1>3
    <3>2. DOMAIN four = 1..4
      OBVIOUS
    <3>3. /\ four[1] = ins[1].note /\ four[2] = ins[2].note
          /\ four[3] = outs[1] /\ four[4] = outs[2]
      OBVIOUS
    <3> HIDE DEF four
    <3>4. \A i \in 1..4 : i = 1 \/ i = 2 \/ i = 3 \/ i = 4
      OBVIOUS
    <3> QED BY <3>1, <3>2, <3>3, <3>4
  <2> HIDE DEF four
  <2>2. ~is_multiple_kinds(four)
    BY <2>1 DEF is_multiple_kinds
  <2> QED BY <2>2 DEF kinds_ok, four
<1>8. check_input_note_ownership(ins[1]) /\ check_input_note_ownership(ins[2])
  BY <1>2, <1>4 DEF check_input_note_ownership, IsOwned
<1>9. utxo_main(ins, outs, pmessage4, c, messages)
  BY <1>5, <1>6, <1>7, <1>8 DEF utxo_main, c, ins, outs
<1>10. buildRawBlobData(outputs, inputs) = build_blob_payload(c, nullifiers)
  <2> DEFINE n1 == computeNullifier(inputs[1].note.psi, inputs[1].secret_key)
             n2 == computeNullifier(inputs[2].note.psi, inputs[2].secret_key)
  <2>1. nullifiers = <<n1, n2>>
    <3>1. \A i \in 1..2 : compute_nullifier(ins[i].note.psi, ins[i].secret_key)
                            = computeNullifier(inputs[i].note.psi, inputs[i].secret_key)
      BY <1>2, <1>4 DEF compute_nullifier, computeNullifier
    <3> QED BY <3>1
  <2>2. buildRawBlobData(outputs, inputs) = <<o1, o2, n1, n2>>
    BY DEF buildRawBlobData
  <2> HIDE DEF nullifiers, n1, n2, o1, o2, i1, i2
  <2>3. /\ <<i1, i2>> \o <<o1, o2>> = <<i1, i2, o1, o2>>
        /\ SubSeq(<<i1, i2, o1, o2>>, 3, 4) = <<o1, o2>>
    BY TwoAndTwo
  <2>4. <<o1, o2>> \o <<n1, n2>> = <<o1, o2, n1, n2>>
    BY TwoAndTwo, Zenon
  <2>5. build_blob_payload(c, nullifiers) = SubSeq(c, 3, 4) \o nullifiers
    BY DEF build_blob_payload
  <2> QED BY <1>1, <2>1, <2>2, <2>3, <2>4, <2>5
<1>11. /\ p.frame.name_len = 9 /\ p.frame.tx_blob_count = n
       /\ p.frame.blob = buildRawBlobData(outputs, inputs)
       /\ p.ins = ins /\ p.outs = outs /\ p.pmessage4 = pmessage4 /\ p.messages = messages
       /\ p.commitments = c
  BY DEF proof_inputs, ins, outs, c
<1> HIDE DEF p
<1>12. proves(p)
  <2> HIDE DEF nullifiers
  <2>1. p.frame.blob = build_blob_payload(p.commitments, nullifiers)
    BY <1>10, <1>11
  <2>2. nullifiers = [i \in 1..2 |-> compute_nullifier(p.ins[i].note.psi, p.ins[i].secret_key)]
    BY <1>11 DEF nullifiers
  <2> QED BY <1>9, <1>11, <2>1, <2>2 DEF proves, hyli_utxo_main
<1> QED BY <1>12 DEF p

(* Inputs of one token, each with the key of its address. *)
AreOfToken(inputs, t) ==
  \A k \in DOMAIN inputs :
    /\ inputs[k].note.contract = t
    /\ inputs[k].note.address = get_address(inputs[k].secret_key)

(* What a selection puts in: two inputs of one token, the first not a      *)
(* padding, whose values are the amount and the change, all of them exact. *)
LEMMA SelectionFacts ==
  ASSUME NEW inputs, AreExact(inputs), NEW t, t # 0, AreOfToken(inputs, t), NEW amount \in Nat,
         NEW s, SelectsOne(s, inputs, amount) \/ SelectsTwo(s, inputs, amount)
  PROVE  LET v1 == s.selectedInputs[1].note.value
             v2 == s.selectedInputs[2].note.value
         IN  /\ s.selectedInputs[1].note.contract = t
             /\ \A i \in 1..2 : IsOfToken(s.selectedInputs[i].note, t) /\ IsOwned(s.selectedInputs[i])
             /\ v1 \in Nat /\ v2 \in Nat /\ s.changeAmount \in Nat
             /\ v1 + v2 = amount + s.changeAmount /\ v1 + v2 < Bit(Precision)
<1> DEFINE in1 == s.selectedInputs[1]
           in2 == s.selectedInputs[2]
<1>1. \A i \in 1..2 : i = 1 \/ i = 2
  OBVIOUS
<1>2. Bit(Precision) \in Nat
  BY PrecisionAssumption, BitIsPositive
<1>3. /\ createPaddingInputNote.note.contract = 0 /\ createPaddingInputNote.note.value = 0
  BY DEF createPaddingInputNote, createPaddingNote, padding_note
<1>4. \A k \in DOMAIN inputs : /\ inputs[k].note.contract = t
                               /\ IsOfToken(inputs[k].note, t) /\ IsOwned(inputs[k])
                               /\ Worth(inputs, k) = inputs[k].note.value
                               /\ Worth(inputs, k) \in Nat /\ Worth(inputs, k) < Bit(Precision)
  BY DEF AreOfToken, AreExact, IsOfToken, IsOwned, Worth
<1>5. IsOfToken(createPaddingInputNote.note, t) /\ IsOwned(createPaddingInputNote)
  BY <1>3 DEF IsOfToken, IsOwned
<1>6. CASE SelectsOne(s, inputs, amount)
  <2>1. PICK a \in DOMAIN inputs :
          /\ amount <= Worth(inputs, a)
          /\ s = [selectedInputs |-> <<inputs[a], createPaddingInputNote>>,
                  changeAmount |-> Worth(inputs, a) - amount, totalInput |-> Worth(inputs, a)]
    BY <1>6 DEF SelectsOne
  <2>2. /\ in1 = inputs[a] /\ in2 = createPaddingInputNote
        /\ s.changeAmount = Worth(inputs, a) - amount
    BY <2>1
  <2> HIDE DEF in1, in2
  <2>3. /\ in1.note.value = Worth(inputs, a) /\ in2.note.value = 0
        /\ Worth(inputs, a) \in Nat /\ Worth(inputs, a) < Bit(Precision)
    BY <1>3, <1>4, <2>2
  <2>4. /\ s.changeAmount \in Nat
        /\ in1.note.value + in2.note.value = amount + s.changeAmount
        /\ in1.note.value + in2.note.value < Bit(Precision)
    BY <1>2, <2>1, <2>2, <2>3
  <2>5. in1.note.contract = t /\ IsOfToken(in1.note, t) /\ IsOwned(in1)
        /\ IsOfToken(in2.note, t) /\ IsOwned(in2)
    BY <1>4, <1>5, <2>2
  <2>6. in1.note.value \in Nat /\ in2.note.value \in Nat
    BY <2>3
  <2> QED BY <1>1, <2>4, <2>5, <2>6 DEF in1, in2
<1>7. CASE SelectsTwo(s, inputs, amount)
  <2>1. PICK a, b \in DOMAIN inputs :
          /\ a # b /\ amount <= Worth(inputs, a) + Worth(inputs, b)
          /\ s = [selectedInputs |-> <<inputs[a], inputs[b]>>,
                  changeAmount |-> (Worth(inputs, a) + Worth(inputs, b)) - amount,
                  totalInput |-> Worth(inputs, a) + Worth(inputs, b)]
    BY <1>7 DEF SelectsTwo
  <2>2. /\ in1 = inputs[a] /\ in2 = inputs[b]
        /\ s.changeAmount = (Worth(inputs, a) + Worth(inputs, b)) - amount
    BY <2>1
  <2> HIDE DEF in1, in2
  <2>3. /\ in1.note.value = Worth(inputs, a) /\ in2.note.value = Worth(inputs, b)
        /\ Worth(inputs, a) \in Nat /\ Worth(inputs, b) \in Nat
    BY <1>4, <2>2
  <2>4. Worth(inputs, a) + Worth(inputs, b) < Bit(Precision)
    BY <2>1 DEF AreExact
  <2>5. /\ s.changeAmount \in Nat
        /\ in1.note.value + in2.note.value = amount + s.changeAmount
        /\ in1.note.value + in2.note.value < Bit(Precision)
    BY <1>2, <2>1, <2>2, <2>3, <2>4
  <2>6. in1.note.contract = t /\ IsOfToken(in1.note, t) /\ IsOwned(in1)
        /\ IsOfToken(in2.note, t) /\ IsOwned(in2)
    BY <1>4, <2>2
  <2>7. in1.note.value \in Nat /\ in2.note.value \in Nat
    BY <2>3
  <2> QED BY <1>1, <2>5, <2>6, <2>7 DEF in1, in2
<1> QED BY <1>6, <1>7

(* The change is a note of the token, or a padding when there is none.     *)
LEMMA ChangeNote ==
  ASSUME NEW s, NEW own, NEW psi, NEW t, t # 0, s.selectedInputs[1].note.contract = t,
         s.changeAmount \in Nat
  PROVE  IsOfToken(change_note(s, own, psi), t) /\ change_note(s, own, psi).value = s.changeAmount
<1>1. CASE s.changeAmount > 0
  BY <1>1 DEF change_note, createOutputNote, IsOfToken
<1>2. CASE s.changeAmount = 0
  BY <1>2 DEF change_note, createPaddingNote, padding_note, IsOfToken
<1> QED BY <1>1, <1>2

(* Every selection can be sent: of exact values of one token, to anybody   *)
(* and in any amount it covers, what the wallet gives the prover satisfies *)
(* the circuit, for a transfer (a round of a consolidation too) and for a  *)
(* withdrawal (executeTransfer, executeWithdraw, hyli_utxo_main).          *)
THEOREM SelectedTransfersAreProved ==
  ASSUME NEW inputs, AreExact(inputs), NEW t, t # 0, AreOfToken(inputs, t), NEW amount \in Nat,
         Bit(Precision) <= Limit, NEW recipient, NEW own, NEW psis, NEW burn,
         selectNotesForTransfer(inputs, amount) # <<>>
  PROVE  /\ proves(executeTransfer(selectNotesForTransfer(inputs, amount)[1],
                                   recipient, amount, own, psis))
         /\ proves(executeWithdraw(selectNotesForTransfer(inputs, amount)[1],
                                   burn, amount, own, psis[2]))
<1>1. PICK s : /\ selectNotesForTransfer(inputs, amount) = <<s>>
               /\ SelectsOne(s, inputs, amount) \/ SelectsTwo(s, inputs, amount)
  BY SelectionAddsUp
<1>2. selectNotesForTransfer(inputs, amount)[1] = s
  BY <1>1
<1> DEFINE both   == s.selectedInputs
           v1     == both[1].note.value
           v2     == both[2].note.value
           rest   == s.changeAmount
           change == change_note(s, own, psis[2])
<1>3. /\ both[1].note.contract = t
      /\ \A i \in 1..2 : IsOfToken(both[i].note, t) /\ IsOwned(both[i])
      /\ v1 \in Nat /\ v2 \in Nat /\ rest \in Nat
      /\ v1 + v2 = amount + rest /\ v1 + v2 < Bit(Precision)
  BY <1>1, SelectionFacts
<1>4. IsOfToken(change, t) /\ change.value = rest
  BY <1>3, ChangeNote
<1>5. Bit(Precision) \in Nat /\ 0 < Bit(Precision) /\ Limit \in Nat
  BY PrecisionAssumption, BitIsPositive, LimitAssumption
<1>6. amount < Limit /\ rest < Limit /\ 0 < Limit
  <2> HIDE DEF v1, v2, rest
  <2>1. amount <= v1 + v2 /\ rest <= v1 + v2
    BY <1>3
  <2>2. v1 + v2 \in Nat
    BY <1>3
  <2> QED BY <1>3, <1>5, <2>1, <2>2
<1>7. \A i \in 1..2 : i = 1 \/ i = 2
  OBVIOUS
<1>8. \A notes : /\ [i \in 1..2 |-> prover_note(notes[i])][1].value = notes[1].value
                 /\ [i \in 1..2 |-> prover_note(notes[i])][2].value = notes[2].value
  BY DEF prover_note
<1> DEFINE ins      == [i \in 1..2 |-> prover_input(both[i])]
           outs(ns) == [i \in 1..2 |-> prover_note(ns[i])]
<1>9. circuit_in(ins) = plus(v1, v2)
  <2>1. ins[1] = prover_input(both[1]) /\ ins[2] = prover_input(both[2])
    OBVIOUS
  <2> HIDE DEF ins, both
  <2> QED BY <2>1 DEF circuit_in, prover_input, prover_note
<1>10. \A ns : circuit_out(outs(ns)) = plus(ns[1].value, ns[2].value)
  BY <1>8 DEF circuit_out
<1>11. ins[1].note.kind = t
  <2>1. ins[1] = prover_input(both[1])
    OBVIOUS
  <2> HIDE DEF ins, both
  <2> QED BY <1>3, <2>1 DEF prover_input, prover_note
<1> HIDE DEF ins, outs, change, both
<1>12. proves(executeTransfer(s, recipient, amount, own, psis))
  <2> DEFINE note == createOutputNote(recipient, amount, t, psis[1])
             ns   == <<note, change>>
             c    == [i \in 1..2 |-> computeCommitment(both[i].note)]
                        \o [i \in 1..2 |-> computeCommitment(ns[i])]
             m    == <<1, 0, 0, 0, 0>>
  <2>1. IsOfToken(note, t) /\ note.value = amount
    BY DEF createOutputNote, IsOfToken
  <2>2. executeTransfer(s, recipient, amount, own, psis) = proof_inputs(both, ns, 3, 0, m)
    BY <1>3 DEF executeTransfer, change, both
  <2>3. ns[1] = note /\ ns[2] = change /\ m[1] = 1 /\ m[3] = 0
    OBVIOUS
  <2> HIDE DEF note, ns, c, m
  <2>4. circuit_out(outs(ns)) = plus(amount, rest)
    BY <1>4, <1>10, <2>1, <2>3
  <2>5. plus(v1, v2) = plus(amount, rest)
    BY <1>3 DEF plus
  <2>6. balance_ok(ins, outs(ns), 0, c, m)
    BY <1>9, <2>3, <2>4, <2>5 DEF balance_ok, send_ok
  <2>7. \A i \in 1..2 : IsOfToken(ns[i], t) /\ ns[i].value < Limit
    BY <1>4, <1>6, <1>7, <2>1, <2>3
  <2>8. m[3] < Limit
    BY <1>6, <2>3
  <2>9. proves(proof_inputs(both, ns, 3, 0, m))
    BY <1>3, <2>6, <2>7, <2>8, ProverAccepts DEF ins, outs, c
  <2> QED BY <2>2, <2>9
<1>13. proves(executeWithdraw(s, burn, amount, own, psis[2]))
  <2> DEFINE ns == <<createPaddingNote, change>>
             c  == [i \in 1..2 |-> computeCommitment(both[i].note)]
                      \o [i \in 1..2 |-> computeCommitment(ns[i])]
             first == computeCommitment(both[1].note)
             m  == <<3, t, amount, first, burn>>
  <2>1. IsOfToken(createPaddingNote, t) /\ createPaddingNote.value = 0
    BY DEF createPaddingNote, padding_note, IsOfToken
  <2>2. executeWithdraw(s, burn, amount, own, psis[2]) = proof_inputs(both, ns, 4, burn, m)
    BY <1>3 DEF executeWithdraw, change, both
  <2>3. /\ ns[1] = createPaddingNote /\ ns[2] = change
        /\ m[1] = 3 /\ m[2] = t /\ m[3] = amount /\ m[4] = first /\ m[5] = burn
    OBVIOUS
  <2>4. c[1] = first
    OBVIOUS
  <2> HIDE DEF ns, c, m, first
  <2>5. circuit_out(outs(ns)) = plus(0, rest)
    BY <1>4, <1>10, <2>1, <2>3
  <2>6. plus(v1, v2) = plus(plus(0, rest), amount)
    <3>1. /\ Modulus \in Nat /\ 3 * Limit <= Modulus
      BY LimitAssumption, ModulusAssumption
    <3>2. 0 + rest = rest /\ rest % Modulus = rest
      <4>1. rest \in 0..(Modulus - 1) /\ Modulus \in Nat \ {0}
        BY <1>3, <1>5, <1>6, <3>1
      <4> HIDE DEF rest
      <4> QED BY <4>1
    <3>3. plus(0, rest) = rest
      BY <3>2 DEF plus
    <3>4. rest + amount = v1 + v2
      BY <1>3
    <3> QED BY <3>3, <3>4 DEF plus
  <2>7. balance_ok(ins, outs(ns), burn, c, m)
    BY <1>9, <1>11, <2>3, <2>4, <2>5, <2>6 DEF balance_ok, burn_ok
  <2>8. \A i \in 1..2 : IsOfToken(ns[i], t) /\ ns[i].value < Limit
    BY <1>4, <1>6, <1>7, <2>1, <2>3
  <2>9. m[3] < Limit
    BY <1>6, <2>3
  <2>10. proves(proof_inputs(both, ns, 4, burn, m))
    BY <1>3, <2>7, <2>8, <2>9, ProverAccepts DEF ins, outs, c
  <2> QED BY <2>2, <2>10
<1> QED BY <1>2, <1>12, <1>13
============================================================================
