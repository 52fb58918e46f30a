------------------------------- MODULE Faucet -------------------------------
(***************************************************************************)
(* The path of a new note through the server: the faucet, deposit and      *)
(* two-step transfer handlers of the REST API (api.rs), the FaucetApp      *)
(* module (app.rs), the two Noir provers (noir_prover.rs,                  *)
(* smt_incl_prover.rs) and the state indexer that tells the FaucetApp the  *)
(* notes root.  The modules run concurrently and talk over the message     *)
(* bus, one queue per message type.                                        *)
(***************************************************************************)
EXTENDS Node

CONSTANTS
  Kind,       \* "mint", "deposit" or "client", per transaction
  Spends,     \* the note a client transaction spends, or None
  MaxFaults   \* bound on the failures of sends, provers and the process

ASSUME KindAssumption ==
  /\ Kind \in [Tx -> {"mint", "deposit", "client"}]
  /\ Spends \in [Tx -> Tx \cup {None}]
  /\ \A t \in Tx : Kind[t] # "client" => Spends[t] = None

ASSUME MaxFaultsAssumption == MaxFaults \in Nat

VARIABLES
  told,      \* the notes the API answered with
  signed,    \* the deposits that came with the two blobs of a wallet
  inbox,     \* FaucetApp's two command queues
  app,       \* FaucetApp: its loop runs, the transaction it sends, its root
  jobs,      \* the proof jobs of the two provers, queued or running
  replayed,  \* the settled transactions the indexer has been given
  client,    \* the clients of the two-step endpoints
  faults     \* history: the failures so far

faucetVars == <<told, signed, inbox, app, jobs, replayed, client, faults>>

Channel == {"mint", "deposit"}
ChannelOf(t) == IF Kind[t] = "mint" THEN "mint" ELSE "deposit"

FaucetTypeOK ==
  /\ told \subseteq Tx /\ signed \subseteq told
  /\ inbox \in [Channel -> Seq(Tx)]
  /\ app \in [alive : BOOLEAN, sending : Tx \cup {None}, base : Nat]
  /\ jobs \subseteq (Tx \X Noir)
  /\ replayed \in 0..Len(settled)
  /\ client \in [Tx -> {"idle", "blob_sent", "utxo_sent", "done", "gone"}]
  /\ faults \in 0..MaxFaults

(* FaucetApp::build: the root is ZERO, that of the empty tree. *)
FreshApp == [alive |-> TRUE, sending |-> None, base |-> 0]

EmptyInbox == [c \in Channel |-> <<>>]

FaucetInit ==
  /\ told = {} /\ signed = {}
  /\ inbox = EmptyInbox
  /\ app = FreshApp
  /\ jobs = {}
  /\ replayed = 0
  /\ client = [t \in Tx |-> "idle"]
  /\ faults = 0

Fault == faults < MaxFaults /\ faults' = faults + 1

----------------------------------------------------------------------------
(* What is sent.                                                           *)
Padding == <<Zero, Zero>>

(* The state, hyli_utxo and smt inclusion blobs, then those of the wallet  *)
(* (two, when it signs) and of the token.                                  *)
BlobCount(t) ==
  3 + (IF t \in signed THEN 2 ELSE 0) + (IF Kind[t] = "deposit" THEN 1 ELSE 0)

(* build_transaction: a mint of the note and a padding note, on two        *)
(* padding inputs, with the app's notes root.                              *)
build_transaction(t, base) ==
  [blob |-> [created |-> <<t, Zero>>, nullified |-> <<PaddingNullifier, PaddingNullifier>>],
   root |-> RootAt(base), base |-> base, blob_count |-> BlobCount(t)]

(* build_blob_transaction on a client's blob data. *)
build_blob_transaction(t, base) ==
  [blob |-> [created   |-> <<t, Zero>>,
             nullified |-> <<IF Spends[t] = None THEN PaddingNullifier ELSE Spends[t],
                             PaddingNullifier>>],
   root |-> RootAt(base), base |-> base, blob_count |-> BlobCount(t)]

(* The hyli_utxo circuit asserts 3 or 4 blobs; the inclusion circuit does  *)
(* not look at their number, and takes padding inputs at any root.         *)
Provable(t, c) == c = "utxo" => txs[t].blob_count \in {3, 4}

----------------------------------------------------------------------------
(* POST /api/faucet, /api/deposit with a valid request: the command goes   *)
(* on the bus, the note goes to the caller.  Nothing is on the chain yet.  *)
Answer(t, with_wallet) ==
  /\ Kind[t] # "client" /\ t \notin told
  /\ with_wallet => Kind[t] = "deposit"
  /\ told' = told \cup {t}
  /\ signed' = IF with_wallet THEN signed \cup {t} ELSE signed
  /\ inbox' = IF app.alive
              THEN [inbox EXCEPT ![ChannelOf(t)] = Append(@, t)]
              ELSE inbox
  /\ UNCHANGED <<app, jobs, replayed, client, faults, nodeVars>>

(* FaucetApp's loop takes a command and waits for the node's answer. *)
TakeCommand(c) ==
  /\ app.alive /\ app.sending = None /\ inbox[c] # <<>>
  /\ app' = [app EXCEPT !.sending = Head(inbox[c])]
  /\ inbox' = [inbox EXCEPT ![c] = Tail(@)]
  /\ UNCHANGED <<told, signed, jobs, replayed, client, faults, nodeVars>>

(* Mutant: only the utxo proof is asked for. *)
SendTx_slip ==
  /\ app.alive /\ app.sending # None
  /\ Receives(app.sending, build_transaction(app.sending, app.base))
  /\ jobs' = jobs \cup {<<app.sending, "utxo">>}
  /\ app' = [app EXCEPT !.sending = None]
  /\ UNCHANGED <<told, signed, inbox, replayed, client, faults>>

(* process_request, process_deposit_request: the transaction is accepted   *)
(* and both proof jobs are queued.                                         *)
SendTx ==
  /\ app.alive /\ app.sending # None
  /\ Receives(app.sending, build_transaction(app.sending, app.base))
  /\ jobs' = jobs \cup {<<app.sending, c>> : c \in Noir}
  /\ app' = [app EXCEPT !.sending = None]
  /\ UNCHANGED <<told, signed, inbox, replayed, client, faults>>

(* send_tx_blob returns an error, whether or not the node has the          *)
(* transaction: the `?` ends the module's loop, no job is queued, and the  *)
(* commands behind it stay on the bus.                                     *)
SendTxFails ==
  /\ app.alive /\ app.sending # None
  /\ Fault
  /\ app' = [app EXCEPT !.alive = FALSE, !.sending = None]
  /\ inbox' = EmptyInbox
  /\ \/ Receives(app.sending, build_transaction(app.sending, app.base))
     \/ UNCHANGED nodeVars
  /\ UNCHANGED <<told, signed, jobs, replayed, client>>

(* The listener gives the indexer the next settled transaction, from the   *)
(* first one on after a restart; the indexer's event is on the bus.        *)
IndexNext ==
  /\ replayed < Len(settled)
  /\ replayed' = replayed + 1
  /\ UNCHANGED <<told, signed, inbox, app, jobs, client, faults, nodeVars>>

(* FaucetApp takes the next event of the indexer, between two commands. *)
TakeEvent ==
  /\ app.alive /\ app.sending = None /\ app.base < replayed
  /\ app' = [app EXCEPT !.base = @ + 1]
  /\ UNCHANGED <<told, signed, inbox, jobs, replayed, client, faults, nodeVars>>

----------------------------------------------------------------------------
(* execute_proof_job of a prover: the proof is generated and sent. *)
Prove(t, c) ==
  /\ <<t, c>> \in jobs /\ Provable(t, c)
  /\ jobs' = jobs \ {<<t, c>>}
  /\ ReceivesProof(t, c)
  /\ UNCHANGED <<told, signed, inbox, app, replayed, client, faults>>

(* The job fails for good: the circuit refuses it, or the prover or the    *)
(* node fails once.  handle_task_completion logs it; there is no retry.    *)
ProveFails(t, c) ==
  /\ <<t, c>> \in jobs
  /\ jobs' = jobs \ {<<t, c>>}
  /\ IF Provable(t, c) THEN Fault ELSE UNCHANGED faults
  /\ UNCHANGED <<told, signed, inbox, app, replayed, client, nodeVars>>

----------------------------------------------------------------------------
(* POST /api/blob/create: the note a client spends is in the tree it was   *)
(* served, whose root it names.                                            *)
CreateBlob(t) ==
  /\ Kind[t] = "client" /\ client[t] = "idle"
  /\ Spends[t] \in RootAt(replayed) \cup {None}
  /\ Receives(t, build_blob_transaction(t, replayed))
  /\ client' = [client EXCEPT ![t] = "blob_sent"]
  /\ UNCHANGED <<told, signed, inbox, app, jobs, replayed, faults>>

(* POST /api/proof/submit: the utxo proof is sent, and only when the node  *)
(* took it the inclusion proof.                                            *)
SubmitUtxoProof(t) ==
  /\ client[t] = "blob_sent"
  /\ client' = [client EXCEPT ![t] = "utxo_sent"]
  /\ ReceivesProof(t, "utxo")
  /\ UNCHANGED <<told, signed, inbox, app, jobs, replayed, faults>>

SubmitInclProof(t) ==
  /\ client[t] = "utxo_sent"
  /\ client' = [client EXCEPT ![t] = "done"]
  /\ ReceivesProof(t, "incl")
  /\ UNCHANGED <<told, signed, inbox, app, jobs, replayed, faults>>

(* The node does not take the proof, or the client is gone. *)
SubmitFails(t) ==
  /\ client[t] \in {"blob_sent", "utxo_sent"}
  /\ Fault
  /\ client' = [client EXCEPT ![t] = "gone"]
  /\ UNCHANGED <<told, signed, inbox, app, jobs, replayed, nodeVars>>

FaucetNext ==
  \/ \E t \in Tx, with_wallet \in BOOLEAN : Answer(t, with_wallet)
  \/ \E c \in Channel : TakeCommand(c)
  \/ SendTx \/ SendTxFails
  \/ IndexNext \/ TakeEvent
  \/ \E t \in Tx, c \in Noir : Prove(t, c) \/ ProveFails(t, c)
  \/ \E t \in Tx : CreateBlob(t) \/ SubmitUtxoProof(t) \/ SubmitInclProof(t) \/ SubmitFails(t)
============================================================================
