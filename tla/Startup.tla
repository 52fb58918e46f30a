------------------------------- MODULE Startup -------------------------------
(***************************************************************************)
(* The start of the server process (main.rs, init.rs): each contract is    *)
(* looked up on the node and registered when the look-up fails; then the   *)
(* modules are built, one after the other, and started.  An error of any   *)
(* of these steps ends the process, which may be started again.            *)
(***************************************************************************)
EXTENDS Node

CONSTANT MaxAttempts   \* the polls of wait_for_contract (60 in the code)

ASSUME MaxAttemptsAssumption == MaxAttempts \in Nat \ {0}

VARIABLES
  phase,     \* "down", "get", "register", "wait", "build" or "serving"
  at,        \* the contract of the init list being ensured
  attempts,  \* polls of the current wait_for_contract
  checked    \* history: the contracts whose program id this process compared

startupVars == <<phase, at, attempts, checked>>

StartupTypeOK ==
  /\ phase \in {"down", "get", "register", "wait", "build", "serving"}
  /\ at \in DOMAIN Contracts
  /\ attempts \in 0..(MaxAttempts - 1)
  /\ checked \subseteq Contract

Current == Contracts[at]

ProcessEnds ==
  /\ phase' = "down" /\ at' = 1 /\ attempts' = 0
  /\ checked' = {}

StartupInit ==
  /\ phase = "down" /\ at = 1 /\ attempts = 0
  /\ checked = {}

(* init_node: the next contract of the list, or on to the modules. *)
Ensured ==
  /\ attempts' = 0
  /\ IF at < Len(Contracts)
     THEN phase' = "get" /\ at' = at + 1
     ELSE phase' = "build" /\ at' = 1

Boot ==
  /\ phase = "down"
  /\ phase' = "get"
  /\ checked' = {}
  /\ UNCHANGED <<at, attempts, nodeVars>>

----------------------------------------------------------------------------
(* Mutant: the program id of an existing contract is not compared. *)
GetExisting_slip ==
  /\ phase = "get" /\ registered[Current] # None
  /\ Ensured /\ checked' = checked \cup {Current}
  /\ UNCHANGED nodeVars

(* ensure_contract_registered, Ok(existing): validated, or the end. *)
GetExisting ==
  /\ phase = "get" /\ registered[Current] # None
  /\ IF registered[Current] = LocalId
     THEN Ensured /\ checked' = checked \cup {Current}
     ELSE ProcessEnds
  /\ UNCHANGED nodeVars

(* ensure_contract_registered, Err(_): any error of the look-up leads to a *)
(* registration, whether the contract is absent or the node did not answer.*)
GetFails ==
  /\ phase = "get"
  /\ phase' = "register"
  /\ UNCHANGED <<at, attempts, checked, nodeVars>>

(* register_contract: the node takes the registration, or refuses it and   *)
(* the process ends.                                                       *)
Register ==
  /\ phase = "register"
  /\ phase' = "wait"
  /\ registrations' = registrations \cup {Current}
  /\ UNCHANGED <<at, attempts, checked>>
  /\ UNCHANGED <<registered, pool, txs, status, proofs, ledger, settled>>

RegisterFails ==
  /\ phase = "register"
  /\ ProcessEnds
  /\ UNCHANGED nodeVars

(* Mutant: one poll more than the limit. *)
PollFails_slip ==
  /\ phase = "wait"
  /\ IF attempts < MaxAttempts
     THEN attempts' = attempts + 1 /\ UNCHANGED <<phase, at, checked>>
     ELSE ProcessEnds
  /\ UNCHANGED nodeVars

(* wait_for_contract: any contract of that name ends the wait, its program *)
(* id is not looked at; the 60th failed poll ends the process.             *)
PollFindsContract ==
  /\ phase = "wait" /\ registered[Current] # None
  /\ Ensured
  /\ UNCHANGED <<checked, nodeVars>>

PollFails ==
  /\ phase = "wait"
  /\ IF attempts + 1 < MaxAttempts
     THEN attempts' = attempts + 1 /\ UNCHANGED <<phase, at, checked>>
     ELSE ProcessEnds
  /\ UNCHANGED nodeVars

(* main after init_node: proving key, registry upload, then the modules in *)
(* order (provers with their bb version check, faucet, stores, API,        *)
(* listener, indexer, auto prover, REST); an error ends the process.       *)
BuildModules ==
  /\ phase = "build"
  /\ phase' = "serving"
  /\ UNCHANGED <<at, attempts, checked, nodeVars>>

BuildFails ==
  /\ phase = "build"
  /\ ProcessEnds
  /\ UNCHANGED nodeVars

StartupNext ==
  \/ Boot
  \/ GetExisting \/ GetFails
  \/ Register \/ RegisterFails
  \/ PollFindsContract \/ PollFails
  \/ BuildModules \/ BuildFails

----------------------------------------------------------------------------
(* "If the contract already exists, the function validates that the        *)
(* on-chain program id matches the one provided locally" (init.rs:95): a   *)
(* server that got past a contract and runs against a foreign program id   *)
(* never compared it, because its look-up failed and the registration that *)
(* followed lost to one that was there or came first.                      *)
Passed == IF phase \in {"build", "serving"} THEN Contract
          ELSE {Contracts[i] : i \in 1..(at - 1)}

MismatchWasNotCompared ==
  /\ \A c \in Passed : registered[c] # None
  /\ \A c \in checked : registered[c] = LocalId
============================================================================
