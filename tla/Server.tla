------------------------------- MODULE Server -------------------------------
(***************************************************************************)
(* One server process and the node: Startup until the modules run, Faucet  *)
(* while they do, the node's own steps at any time.  The process may end   *)
(* at any time; everything it keeps in memory is then lost, what reached   *)
(* the node or a wallet is not.                                            *)
(***************************************************************************)
EXTENDS Startup, Faucet

vars == <<nodeVars, startupVars, faucetVars>>

Serving == phase = "serving"

TypeOK == NodeTypeOK /\ StartupTypeOK /\ FaucetTypeOK

Init == NodeInit /\ StartupInit /\ FaucetInit

(* The process ends while it serves: the queues, the jobs, the app's root  *)
(* and the indexer's position are gone.                                    *)
Crash ==
  /\ Serving /\ Fault
  /\ ProcessEnds
  /\ inbox' = EmptyInbox /\ app' = FreshApp /\ jobs' = {} /\ replayed' = 0
  /\ client' = [t \in Tx |-> IF client[t] \in {"blob_sent", "utxo_sent"} THEN "gone" ELSE client[t]]
  /\ UNCHANGED <<told, signed, nodeVars>>

(* Nothing of the server will bring the proofs a transaction lacks. *)
Hopeless(t) ==
  /\ ~AllProved(t)
  /\ \A c \in Noir \ proofs[t] : ~(<<t, c>> \in jobs /\ Provable(t, c))

(* The node drops a transaction whose time is over; that it does so while  *)
(* the server still works on its proofs counts as a fault.  A client has   *)
(* no duty to send the proofs of its own transaction in time.              *)
Expire(t) ==
  /\ TimeOut(t)
  /\ IF Hopeless(t) THEN UNCHANGED faults ELSE Fault
  /\ UNCHANGED <<startupVars, told, signed, inbox, app, jobs, replayed, client>>

(* The auto prover proves the state contract for the settled state. *)
AutoProve(t) ==
  /\ Serving /\ Settle(t)
  /\ UNCHANGED <<startupVars, faucetVars>>

Next ==
  \/ StartupNext /\ UNCHANGED faucetVars
  \/ Serving /\ FaucetNext /\ UNCHANGED startupVars
  \/ \E t \in Tx : AutoProve(t) \/ Expire(t)
  \/ /\ \/ \E c \in Contract : RegistrationSettles(c)
        \/ \E c \in Contract, id \in ProgramId : OtherRegisters(c, id)
     /\ UNCHANGED <<startupVars, faucetVars>>
  \/ Crash

Spec == Init /\ [][Next]_vars

(* The module loops and prover tasks run on, the auto prover and the       *)
(* listener work, and the node drops what cannot be proved.  Nothing says  *)
(* a process that ended is started again, or that a client goes on.        *)
Work(A) == Serving /\ A /\ UNCHANGED startupVars

Fairness ==
  /\ \A c \in Channel : WF_vars(Work(TakeCommand(c)))
  /\ WF_vars(Work(SendTx))
  /\ \A t \in Tx, c \in Noir : WF_vars(Work(Prove(t, c) \/ ProveFails(t, c)))
  /\ \A t \in Tx : /\ WF_vars(AutoProve(t))
                   /\ WF_vars(Hopeless(t) /\ Expire(t))

FairSpec == Spec /\ Fairness

----------------------------------------------------------------------------
(* A fully proved mint, deposit or transfer is refused only when MaxRoots  *)
(* transactions settled after the root it names, or when the note it       *)
(* spends is spent: a FaucetApp that has not heard of the last             *)
(* settlements, or not of any since its start, is served by the window     *)
(* (update_roots) and by its zero padding.                                 *)
SpentByAnother(t) ==
  \E u \in Tx \ {t} : status[u] = "settled" /\ Spends[u] = Spends[t] /\ Spends[t] # None

RefusedOnlyWhenStale ==
  [][\A t \in Tx : status[t] = "pending" /\ status'[t] = "refused"
       => Len(settled) - txs[t].base >= MaxRoots \/ SpentByAnother(t)]_vars

(* What the API told a wallet becomes true: a note it answered with ends   *)
(* in the settled tree, unless something failed on the way, the deposit    *)
(* has more blobs than the circuit takes, the contracts on the chain are   *)
(* not those of this build, or the root it names had left the window.      *)
ToldNotesSettle ==
  \A t \in {t \in Tx : Kind[t] # "client"} :
    t \in told ~> \/ status[t] \in {"settled", "refused"}
                  \/ t \in signed
                  \/ \E c \in Contract : registered[c] # LocalId
                  \/ faults > 0

----------------------------------------------------------------------------
(* What makes them true.                                                   *)

(* A transaction that reached the node names its own note, the note its    *)
(* client spends if any, and the root after the settlements its sender had *)
(* heard of.                                                               *)
NamesInputs(t) ==
  \/ txs[t].blob.nullified = <<PaddingNullifier, PaddingNullifier>>
  \/ Spends[t] \in Tx /\ txs[t].blob.nullified = <<Spends[t], PaddingNullifier>>

Built(t) ==
  /\ txs[t] \in TxContent
  /\ txs[t].blob.created = <<t, Zero>>
  /\ NamesInputs(t)
  /\ txs[t].base <= Len(settled)
  /\ txs[t].root = RootAt(txs[t].base)

SentIsBuilt ==
  /\ txs \in [Tx -> TxContent \cup {None}]
  /\ \A t \in Tx : status[t] # "new" => Built(t)

(* The pool holds the pending transactions, each of them once.             *)
PoolIsPending ==
  /\ \A i \in DOMAIN pool : status[pool[i]] = "pending"
  /\ \A i, j \in DOMAIN pool : pool[i] = pool[j] => i = j

(* The ledger is what the settled transactions made of it; its window has  *)
(* the roots after the last MaxRoots of them, the newest first.            *)
Spent == UNION {RealNullifiers(txs[settled[i]].blob) : i \in 1..Len(settled)}

LedgerFollows ==
  /\ \A i \in DOMAIN settled : status[settled[i]] = "settled"
  /\ ledger.notes = RootAt(Len(settled))
  /\ ledger.nullified = Spent
  /\ Len(ledger.roots) = IF Len(settled) < MaxRoots THEN Len(settled) ELSE MaxRoots
  /\ \A i \in DOMAIN ledger.roots : ledger.roots[i] = RootAt(Len(settled) + 1 - i)

(* FaucetApp knows of no more settlements than the indexer.                *)
AppIsBehind == app.base <= replayed

ServerInv == TypeOK /\ SentIsBuilt /\ PoolIsPending /\ LedgerFollows /\ AppIsBehind

(* While the process is down, and once all contracts were passed, the list *)
(* of contracts is at its beginning.                                       *)
StartupInv ==
  /\ MismatchWasNotCompared
  /\ phase \in {"down", "build", "serving"} => at = 1

----------------------------------------------------------------------------
(* The settled transactions are a book of Ledger. *)
Entry(t) == [created |-> RealCommitments(txs[t].blob), spent |-> RealNullifiers(txs[t].blob)]

Book == [i \in 1..Len(settled) |-> Entry(settled[i])]

L == INSTANCE Ledger WITH book <- Book

(* Whatever the server, its clients and the chain do, what settles creates *)
(* and spends each note at most once, and nothing settled is undone.       *)
SettledIsLedger == L!Spec
============================================================================
