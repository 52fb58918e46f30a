-------------------------------- MODULE Node --------------------------------
(***************************************************************************)
(* The Hyli node as the server uses it (client_sdk's NodeApiClient): the   *)
(* registered contracts, the blob transactions that wait for their proofs, *)
(* and the settled state of the hyli-utxo-state contract.  The node is not *)
(* under src/; what runs inside it for the contract is (ZkVm, UtxoOps).    *)
(*                                                                         *)
(* Transactions of one contract settle in the order they were sent.  One   *)
(* that has its proofs is settled or refused by the contract; one that has *)
(* not is dropped when its time is over.                                   *)
(***************************************************************************)
EXTENDS ZkVm

CONSTANTS
  Tx,        \* the blob transactions, each named by the note it creates
  ProgramId, \* the program ids a contract may be registered with
  LocalId,   \* the program ids of this build (one name for the three)
  Contested, \* the contract names others register too
  None       \* nothing registered, nothing sent

ASSUME TxAssumption == Tx \subseteq Note

ASSUME ProgramIdAssumption == LocalId \in ProgramId /\ None \notin ProgramId \cup Tx

ASSUME ContestedAssumption == Contested \subseteq {"utxo", "incl", "state"}

(* The contracts of main's init list, in its order. *)
Contracts == <<"utxo", "incl", "state">>
Contract  == {Contracts[i] : i \in DOMAIN Contracts}

(* The contracts whose proof the server or a client sends by itself; the   *)
(* proof of the state contract comes from the server's auto prover.        *)
Noir == {"utxo", "incl"}

VARIABLES
  registered,     \* the program id of each contract on the chain, or None
  registrations,  \* the contracts whose registration was sent, undecided
  pool,           \* the blob transactions that are not settled, in order
  txs,            \* what each transaction sent so far holds
  status,         \* "new", "pending", "settled", "refused" or "timed_out"
  proofs,         \* the Noir proofs accepted for each transaction
  ledger,         \* the settled HyliUtxoState
  settled         \* the transactions applied to it, in order

nodeVars == <<registered, registrations, pool, txs, status, proofs, ledger, settled>>

(* base counts the settled transactions behind the root the smt inclusion  *)
(* blob names (history: the blob itself holds the root only).              *)
TxContent == [blob : UtxoBlob, root : SUBSET Note, base : Nat, blob_count : 3..6]

NodeTypeOK ==
  /\ registered \in [Contract -> ProgramId \cup {None}]
  /\ registrations \subseteq Contract
  /\ pool \in Seq(Tx)
  /\ \A t \in Tx : txs[t] = None \/ txs[t] \in TxContent
  /\ status \in [Tx -> {"new", "pending", "settled", "refused", "timed_out"}]
  /\ proofs \in [Tx -> SUBSET Noir]
  /\ ledger \in HyliUtxoState
  /\ settled \in Seq(Tx)

NodeInit ==
  /\ registered = [c \in Contract |-> None]
  /\ registrations = {}
  /\ pool = <<>>
  /\ txs = [t \in Tx |-> None]
  /\ status = [t \in Tx |-> "new"]
  /\ proofs = [t \in Tx |-> {}]
  /\ ledger = DefaultState
  /\ settled = <<>>

(* The notes root after the first k settled transactions. *)
RootAt(k) == UNION {RealCommitments(txs[settled[i]].blob) : i \in 1..k}

----------------------------------------------------------------------------
(* A registration takes effect, unless the name was taken meanwhile. *)
RegistrationSettles(c) ==
  /\ c \in registrations
  /\ registrations' = registrations \ {c}
  /\ registered' = [registered EXCEPT ![c] = IF @ = None THEN LocalId ELSE @]
  /\ UNCHANGED <<pool, txs, status, proofs, ledger, settled>>

(* Somebody else (another deployment of this server) registers the name. *)
OtherRegisters(c, id) ==
  /\ c \in Contested /\ registered[c] = None
  /\ registered' = [registered EXCEPT ![c] = id]
  /\ UNCHANGED <<registrations, pool, txs, status, proofs, ledger, settled>>

(* send_tx_blob reaches the node. *)
Receives(t, content) ==
  /\ status[t] = "new"
  /\ pool' = Append(pool, t)
  /\ txs' = [txs EXCEPT ![t] = content]
  /\ status' = [status EXCEPT ![t] = "pending"]
  /\ UNCHANGED <<registered, registrations, proofs, ledger, settled>>

(* send_tx_proof reaches the node: a proof counts for a waiting            *)
(* transaction when its program id is the registered one.                  *)
ReceivesProof(t, c) ==
  /\ proofs' = IF status[t] = "pending" /\ registered[c] = LocalId
               THEN [proofs EXCEPT ![t] = @ \cup {c}]
               ELSE proofs
  /\ UNCHANGED <<registered, registrations, pool, txs, status, ledger, settled>>

----------------------------------------------------------------------------
(* The hyli-utxo-state contract run on a transaction, on a witness of the  *)
(* settled state (what the auto prover proves).                            *)
Execution(t) ==
  LET b == txs[t].blob
  IN execute(to_zkvm_state(ledger, b.created, b.nullified),
             [blob |-> b, smt_nullifiers |-> b.nullified,
              notes_root |-> txs[t].root, callees |-> <<"smt_incl">>])

IsNext(t) == pool # <<>> /\ Head(pool) = t

AllProved(t) == proofs[t] = Noir /\ registered["state"] = LocalId

Settle(t) ==
  /\ IsNext(t) /\ AllProved(t)
  /\ pool' = Tail(pool)
  /\ IF Execution(t).ok
     THEN /\ status' = [status EXCEPT ![t] = "settled"]
          /\ ledger' = apply_commitments(ledger, txs[t].blob).state
          /\ settled' = Append(settled, t)
     ELSE /\ status' = [status EXCEPT ![t] = "refused"]
          /\ UNCHANGED <<ledger, settled>>
  /\ UNCHANGED <<registered, registrations, txs, proofs>>

TimeOut(t) ==
  /\ IsNext(t)
  /\ pool' = Tail(pool)
  /\ status' = [status EXCEPT ![t] = "timed_out"]
  /\ UNCHANGED <<registered, registrations, txs, proofs, ledger, settled>>
============================================================================
