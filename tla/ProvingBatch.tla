---------------------------- MODULE ProvingBatch ----------------------------
(***************************************************************************)
(* One proof request of the state contract, from the transactions it is    *)
(* made of to the outputs of the guest.                                    *)
(*                                                                         *)
(* The auto prover (external) calls the executor for each transaction in   *)
(* the order of the chain: build_commitment_metadata on the state before   *)
(* it, merge_commitment_metadata into the batch, then handle, which        *)
(* applies the transaction without checking the smt inclusion blob or the  *)
(* callees and always reports success unless it fails.  The guest          *)
(* (sdk::guest::execute, external) then runs the transactions on the       *)
(* merged batch: a success commits and advances to the next witness, a     *)
(* failure reverts and keeps the commitment.                               *)
(***************************************************************************)
EXTENDS ZkVm

CONSTANTS
  Calldatas,   \* the transactions that may be sequenced
  MaxTxs,      \* bound on the transactions of a behaviour
  MaxBatch     \* max_txs_per_proof

(* A blob names no note twice among its outputs or among its nullifiers:   *)
(* what the library of the trees makes of a repeated leaf is not modelled. *)
ASSUME CalldatasAssumption ==
  /\ Calldatas \subseteq Calldata
  /\ \A c \in Calldatas :
       /\ c.blob.created[1] = c.blob.created[2] => c.blob.created[1] = Zero
       /\ c.blob.nullified[1] = c.blob.nullified[2] =>
            c.blob.nullified[1] \in SkippedNullifiers
ASSUME BoundsAssumption == MaxTxs \in Nat /\ MaxBatch \in Nat \ {0}

VARIABLES
  phase,      \* "build" while transactions are added, then "prove", "done"
  executor,   \* the HyliUtxoState of the auto prover's executor
  txs,        \* transactions handled so far by the executor
  batch,      \* the merged HyliUtxoZkVmBatch, <<>> before the first one
  calldatas,  \* the transactions of the batch, in order
  claims,     \* what the executor said of each: success and commitments
  commitment_now, \* the guest's current state commitment
  outputs     \* the guest's outputs, one per transaction run so far

vars == <<phase, executor, txs, batch, calldatas, claims, commitment_now, outputs>>

ExecutorCommitment(s) ==
  [notes_root |-> Leaves(s.notes), nullified_notes_root |-> Leaves(s.nullified)]

Init ==
  /\ phase = "build"
  /\ executor = DefaultState
  /\ txs = 0
  /\ batch = <<>>
  /\ calldatas = <<>>
  /\ claims = <<>>
  /\ commitment_now = ExecutorCommitment(DefaultState)
  /\ outputs = <<>>

(***************************************************************************)
(* A transaction that has settled already: the executor catches up without *)
(* proving it.  Having settled, it passed the guest's checks.              *)
(***************************************************************************)
CatchUp(c) ==
  /\ phase = "build" /\ calldatas = <<>> /\ txs < MaxTxs
  /\ execute(to_zkvm_state(executor, c.blob.created, c.blob.nullified), c).ok
  /\ executor' = apply_commitments(executor, c.blob).state
  /\ txs' = txs + 1
  /\ UNCHANGED <<phase, batch, calldatas, claims, commitment_now, outputs>>

(* build_commitment_metadata, merge_commitment_metadata and handle.  When  *)
(* handle fails the prover goes back to the clone it took before.          *)
AddTransaction(c) ==
  LET witness == to_zkvm_state(executor, c.blob.created, c.blob.nullified)
      single  == from_state(witness)
      r       == apply_commitments(executor, c.blob)
      after   == IF r.ok THEN r.state ELSE executor
  IN /\ phase = "build" /\ txs < MaxTxs /\ Len(calldatas) < MaxBatch
     /\ batch' = IF batch = <<>> THEN single ELSE extend_with(batch, single)
     /\ calldatas' = Append(calldatas, c)
     /\ executor' = after
     /\ claims' = Append(claims, [ok      |-> r.ok,
                                  initial |-> ExecutorCommitment(executor),
                                  next    |-> ExecutorCommitment(after),
                                  roots   |-> {executor.notes} \cup
                                    {executor.roots[i] : i \in DOMAIN executor.roots}])
     /\ txs' = txs + 1
     /\ UNCHANGED <<phase, commitment_now, outputs>>

(* The guest starts: its first commitment is that of the first witness. *)
StartProof ==
  /\ phase = "build" /\ calldatas # <<>>
  /\ phase' = "prove"
  /\ commitment_now' = commit(batch.current)
  /\ UNCHANGED <<executor, txs, batch, calldatas, claims, outputs>>

Position == Len(outputs) + 1

(* One turn of the guest's loop. *)
GuestStep ==
  LET c    == calldatas[Position]
      r    == execute(batch.current, c)
      next == IF r.ok THEN commit(r.state) ELSE commitment_now
  IN /\ phase = "prove" /\ Position <= Len(calldatas)
     /\ batch' = IF r.ok THEN advance_step([batch EXCEPT !.current = r.state]) ELSE batch
     /\ commitment_now' = next
     /\ outputs' = Append(outputs,
                     [ok       |-> r.ok,
                      initial  |-> commitment_now,
                      next     |-> next,
                      created_keys   |-> WitnessKeys(batch.current.created_notes),
                      nullified_keys |-> WitnessKeys(batch.current.nullified_notes)])
     /\ UNCHANGED <<phase, executor, txs, calldatas, claims>>

(* The proof is submitted; the next batch starts where this one ended.     *)
(* What the prover does after a failed output is not modelled.             *)
FinishProof ==
  /\ phase = "prove" /\ Position > Len(calldatas)
  /\ phase' = IF \A i \in DOMAIN outputs : outputs[i].ok THEN "build" ELSE "done"
  /\ batch' = <<>> /\ calldatas' = <<>> /\ claims' = <<>> /\ outputs' = <<>>
  /\ UNCHANGED <<executor, txs, commitment_now>>

Next ==
  \/ \E c \in Calldatas : CatchUp(c) \/ AddTransaction(c)
  \/ StartProof
  \/ GuestStep
  \/ FinishProof

Spec == Init /\ [][Next]_vars

----------------------------------------------------------------------------
(* A leaf of a witness, a witness, the state of the guest.                 *)
LeafValue == [key : Note, value : CreatedKey]

Witness == [values : Seq(LeafValue), proof : SUBSET (Note \X Note)]

ZkVmState == [created_notes : Witness, nullified_notes : Witness,
              roots : SUBSET SUBSET Note]

Commitment == [notes_root : SUBSET (Note \X Note),
               nullified_notes_root : SUBSET (Note \X Note)]

(* The shape of the state. *)
TypeOK ==
  /\ phase \in {"build", "prove", "done"}
  /\ executor \in HyliUtxoState
  /\ txs \in 0..MaxTxs
  /\ batch # <<>> => batch \in [current : ZkVmState, remaining : Seq(ZkVmState)]
  /\ calldatas \in Seq(Calldatas) /\ Len(calldatas) <= MaxBatch
  /\ claims \in Seq([ok : BOOLEAN, initial : Commitment, next : Commitment,
                     roots : SUBSET SUBSET Note])
  /\ Len(claims) = Len(calldatas)
  /\ commitment_now \in Commitment
  /\ outputs \in Seq([ok : BOOLEAN, initial : Commitment, next : Commitment,
                      created_keys : Seq(Note), nullified_keys : Seq(Note)])
  /\ Len(outputs) <= Len(calldatas)

(* All guest outputs before position i are successes. *)
NoFailureBefore(i) == \A j \in 1..(i-1) : outputs[j].ok

(* Until a transaction fails, the witness the guest has in hand is the one *)
(* built for the transaction it is about to run, and there is one left for *)
(* each later transaction: merging and advancing are first in, first out.  *)
WitnessFollowsCalldata ==
  phase = "prove" /\ Position <= Len(calldatas) /\ NoFailureBefore(Position) =>
    LET c == calldatas[Position]
    IN /\ WitnessKeys(batch.current.created_notes) = filter_keys(c.blob.created, FALSE)
       /\ WitnessKeys(batch.current.nullified_notes) = filter_keys(c.blob.nullified, TRUE)
       /\ commit(batch.current) = claims[Position].initial
       /\ Len(batch.remaining) = Len(calldatas) - Position

(* Until a transaction fails, the guest and the executor agree: what the   *)
(* guest proves is what the executor predicted, from the same commitment   *)
(* to the same commitment, and it never proves a transaction (a double     *)
(* spend, a note created twice) that the executor refused.                 *)
GuestAgreesWithExecutor ==
  \A i \in DOMAIN outputs : outputs[i].ok /\ NoFailureBefore(i) =>
    /\ claims[i].ok
    /\ outputs[i].initial = claims[i].initial
    /\ outputs[i].next = claims[i].next

(* A transaction the executor applied, whose smt inclusion blob repeats    *)
(* its nullifiers and names the notes root at its place in the chain or    *)
(* one of the window, and whose callees are those of a transfer or a       *)
(* withdrawal, succeeds in the guest as long as no earlier one failed: the *)
(* current root is always in the guest's array, also when the window is    *)
(* empty (the zero padding) or full.                                       *)
HonestTransactionsSucceed ==
  \A i \in DOMAIN outputs :
    /\ NoFailureBefore(i)
    /\ claims[i].ok
    /\ NullifiersMatch(calldatas[i])
    /\ calldatas[i].callees \in {<<"smt_incl">>, <<"smt_incl", "token">>, <<"token", "smt_incl">>}
    /\ calldatas[i].notes_root \in claims[i].roots
    => outputs[i].ok

(* The comment on filter_keys: to_zkvm_state and apply_action use the same *)
(* keys, so the leaves an action writes are those of its own keys.         *)
AppliedToOwnWitness ==
  \A i \in DOMAIN outputs : outputs[i].ok =>
    /\ outputs[i].created_keys = filter_keys(calldatas[i].blob.created, FALSE)
    /\ outputs[i].nullified_keys = filter_keys(calldatas[i].blob.nullified, TRUE)
============================================================================
