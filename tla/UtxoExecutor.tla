---------------------------- MODULE UtxoExecutor ----------------------------
(***************************************************************************)
(* HyliUtxoStateExecutor as the contract handler of the settled state      *)
(* (server/src/hyli_utxo_state_client.rs): the contract state indexer      *)
(* calls handle_transaction_success for every settled blob of the          *)
(* hyli-utxo-state contract, and serves the resulting tree to clients.     *)
(* Deliveries are not filtered here: a blob may repeat keys, and a         *)
(* delivery may be a repetition of an earlier one, because the contract    *)
(* listener replays the settled transactions from the start.               *)
(***************************************************************************)
EXTENDS UtxoOps

CONSTANTS
  Blobs,        \* the hyli_utxo blobs that may be delivered
  MaxAccepted   \* bound on the deliveries that are applied

ASSUME BlobsAssumption == Blobs \subseteq UtxoBlob

ASSUME MaxAcceptedAssumption == MaxAccepted \in Nat

VARIABLES
  state,   \* the HyliUtxoState of the executor
  event,   \* the notes root the last delivery broadcast; none on Ok(None)
  log      \* history: the deliveries applied so far, with the root after each

vars == <<state, event, log>>

Accepted == [blob : Blobs, root : SUBSET Note]

TypeOK ==
  /\ state \in HyliUtxoState
  /\ event \subseteq SUBSET Note
  /\ log \in Seq(Accepted)

(* construct_state: a registration starts from HyliUtxoState::default(). *)
Init ==
  /\ state = DefaultState
  /\ event = {}
  /\ log = <<>>

(***************************************************************************)
(* handle_transaction_success on a structured hyli-utxo-state blob whose   *)
(* transaction carries a well-formed hyli_utxo blob.  When handle fails    *)
(* the error is logged and dropped: what apply_commitments had changed     *)
(* before the error remains in the executor's state.                       *)
(***************************************************************************)
HandleAction(blob) ==
  LET r == apply_commitments(state, blob)
  IN /\ r.ok => Len(log) < MaxAccepted
     /\ state' = r.state
     /\ event' = IF r.ok THEN {r.state.notes} ELSE {}
     /\ log' = IF r.ok
               THEN Append(log, [blob |-> blob, root |-> r.state.notes])
               ELSE log

(* The blob of the registration itself: ignored, but an event goes out. *)
HandlePlaceholder ==
  /\ event' = {state.notes}
  /\ UNCHANGED <<state, log>>

(* No structured action and no RegisterContractAction in blob 0, no        *)
(* hyli_utxo blob, or one that is not 128 bytes long: logged and dropped.  *)
HandleMalformed ==
  /\ event' = {}
  /\ UNCHANGED <<state, log>>

Next ==
  \/ \E blob \in Blobs : HandleAction(blob)
  \/ HandlePlaceholder
  \/ HandleMalformed

Spec == Init /\ [][Next]_vars

----------------------------------------------------------------------------
(* A nullifier is consumed at most once: no real nullifier is listed by    *)
(* two applied deliveries, nor twice by one (record_nullified's check      *)
(* against the tree while it inserts).                                     *)
NullifiedOnce ==
  \A i, j \in 1..Len(log) :
    \A p, q \in Slots :
      /\ log[i].blob.nullified[p] = log[j].blob.nullified[q]
      /\ log[i].blob.nullified[p] \in Note
      => i = j /\ p = q

(* A commitment enters the notes tree through at most one delivery (the    *)
(* existence check of record_created).                                     *)
CreatedOnce ==
  \A i, j \in 1..Len(log) :
    \A p, q \in Slots :
      /\ log[i].blob.created[p] = log[j].blob.created[q]
      /\ log[i].blob.created[p] \in Note
      => i = j /\ p = q

(* The window a client's inclusion proof is checked against holds exactly  *)
(* the roots after the last MaxRoots applied deliveries, newest first: a   *)
(* failed delivery neither adds a root nor pushes an old one out           *)
(* (update_roots is the last step of apply_commitments).                   *)
WindowIsRecentHistory ==
  LET Depth == IF Len(log) < MaxRoots THEN Len(log) ELSE MaxRoots
  IN /\ Len(state.roots) = Depth
     /\ \A i \in 1..Depth : state.roots[i] = log[Len(log) + 1 - i].root

(* Every root of the window is the root of an earlier, smaller tree, so an *)
(* inclusion proved against a recent root is still true of the tree the    *)
(* executor serves, whatever was delivered, refused or half applied since. *)
WindowRootsAreGrowing ==
  /\ \A i, j \in 1..Len(state.roots) : i <= j => state.roots[j] \subseteq state.roots[i]
  /\ \A i \in 1..Len(state.roots) : state.roots[i] \subseteq state.notes

(* Nothing an applied delivery recorded is ever lost: its nullifiers stay  *)
(* in the nullified tree and its commitments in every later root, however  *)
(* many deliveries were refused half way since (record_nullified and       *)
(* record_created return early without undoing).                           *)
LogIsRecorded ==
  /\ \A i, j \in 1..Len(log) : i <= j => log[i].root \subseteq log[j].root
  /\ \A i \in 1..Len(log) :
       /\ log[i].root \subseteq state.notes
       /\ RealNullifiers(log[i].blob) \subseteq state.nullified
       /\ RealCommitments(log[i].blob) \subseteq log[i].root

(* The inductive invariant behind the properties above: uniqueness needs   *)
(* LogIsRecorded (a key of the log is refused because it is in a tree).    *)
IndInv ==
  /\ TypeOK
  /\ NullifiedOnce
  /\ CreatedOnce
  /\ WindowIsRecentHistory
  /\ LogIsRecorded

(* A repeated delivery (the listener replays settled transactions) of a    *)
(* blob with a real nullifier or a real commitment changes nothing but the *)
(* event: the duplicate is refused before its first insertion.             *)
ReplayIsHarmless ==
  [][\A i \in 1..Len(log) :
       /\ HandleAction(log[i].blob)
       /\ RealNullifiers(log[i].blob) \cup RealCommitments(log[i].blob) # {}
       => UNCHANGED <<state, log>> /\ event' = {}]_vars

----------------------------------------------------------------------------
(* The executor keeps the book of Ledger: what it has applied.  A refused  *)
(* delivery is no transaction of the book, half applied or not.            *)
Settled(entry) == [created |-> RealCommitments(entry.blob), spent |-> RealNullifiers(entry.blob)]

Book == [i \in 1..Len(log) |-> Settled(log[i])]

L == INSTANCE Ledger WITH book <- Book

(* Whatever is delivered, repeated or refused half way, the executor goes  *)
(* from one legal book to the next: handle_transaction_success implements  *)
(* Ledger.                                                                 *)
ImplementsLedger == L!Spec
============================================================================
