---------------------------- MODULE ServerProofs ----------------------------
(***************************************************************************)
(* Proofs about Server, for any transactions, program ids and contested    *)
(* names, any window and any numbers of polls and failures.                *)
(*                                                                         *)
(* The steps that move transactions are few: one reaches the node, one     *)
(* settles or is refused, one times out.  The others leave what the node   *)
(* knows of transactions alone, whatever the process, its modules and the  *)
(* clients do (StepKinds).                                                 *)
(***************************************************************************)
EXTENDS Server, SequenceTheorems, FiniteSetTheorems, TLAPS

(* The list of contracts has three places. *)
LEMMA ContractFacts ==
  /\ Len(Contracts) = 3 /\ DOMAIN Contracts = 1..3
  /\ Contract = {Contracts[1], Contracts[2], Contracts[3]}
BY DEF Contracts, Contract

----------------------------------------------------------------------------
(* Start-up. *)

(* A contract that is registered stays so, whatever happens on the chain;  *)
(* one that has the program id of this build keeps it.                     *)
LEMMA RegisteredStays ==
  ASSUME TypeOK, [Next]_vars, NEW c \in Contract
  PROVE  registered[c] # None => registered'[c] = registered[c]
<1>1. CASE \E d \in Contract : RegistrationSettles(d)
  BY <1>1 DEF RegistrationSettles, TypeOK, NodeTypeOK
<1>2. CASE \E d \in Contract, id \in ProgramId : OtherRegisters(d, id)
  BY <1>2 DEF OtherRegisters, TypeOK, NodeTypeOK
<1>3. CASE StartupNext
  BY <1>3 DEF StartupNext, Boot, GetExisting, GetFails, Register, RegisterFails,
              PollFindsContract, PollFails, BuildModules, BuildFails, nodeVars
<1>4. CASE FaucetNext
  <2>1. ASSUME NEW t, NEW with_wallet, Answer(t, with_wallet) PROVE registered' = registered
    BY <2>1 DEF Answer, nodeVars
  <2>2. ASSUME NEW d, TakeCommand(d) PROVE registered' = registered
    BY <2>2 DEF TakeCommand, nodeVars
  <2>3. ASSUME SendTx \/ SendTxFails \/ IndexNext \/ TakeEvent PROVE registered' = registered
    BY <2>3 DEF SendTx, SendTxFails, IndexNext, TakeEvent, Receives, nodeVars
  <2>4. ASSUME NEW t, NEW d, Prove(t, d) \/ ProveFails(t, d) PROVE registered' = registered
    BY <2>4 DEF Prove, ProveFails, ReceivesProof, nodeVars
  <2>5. ASSUME NEW t, CreateBlob(t) \/ SubmitUtxoProof(t) \/ SubmitInclProof(t) \/ SubmitFails(t)
        PROVE  registered' = registered
    BY <2>5 DEF CreateBlob, SubmitUtxoProof, SubmitInclProof, SubmitFails, Receives,
                ReceivesProof, nodeVars
  <2> QED BY <1>4, <2>1, <2>2, <2>3, <2>4, <2>5 DEF FaucetNext
<1>5. CASE \E t \in Tx : AutoProve(t) \/ Expire(t)
  BY <1>5 DEF AutoProve, Expire, Settle, TimeOut
<1>6. CASE Crash \/ UNCHANGED vars
  BY <1>6 DEF Crash, vars, nodeVars
<1> QED BY <1>1, <1>2, <1>3, <1>4, <1>5, <1>6 DEF Next

(* What StartupInv says of a place in the list. *)
PassedAt(ph, n) == IF ph \in {"build", "serving"} THEN Contract
                   ELSE {Contracts[i] : i \in 1..(n - 1)}

(* After the current contract, one more is passed. *)
LEMMA PassedGrows ==
  ASSUME TypeOK, Ensured
  PROVE  /\ PassedAt(phase', at') \subseteq PassedAt(phase, at) \cup {Current}
         /\ phase' \in {"build", "serving"} => at' = 1
         /\ phase' # "down"
<1>1. at \in 1..3
  BY ContractFacts DEF TypeOK, StartupTypeOK
<1>2. CASE at < 3
  <2>1. phase' = "get" /\ at' = at + 1
    BY <1>2, ContractFacts DEF Ensured
  <2>2. PassedAt(phase', at') = {Contracts[i] : i \in 1..at}
    BY <1>1, <2>1 DEF PassedAt
  <2>3. {Contracts[i] : i \in 1..(at - 1)} \subseteq PassedAt(phase, at)
    BY <1>1, ContractFacts DEF PassedAt, Contract
  <2>4. \A i \in 1..at : i = at \/ i \in 1..(at - 1)
    BY <1>1
  <2> QED BY <2>1, <2>2, <2>3, <2>4 DEF Current
<1>3. CASE at = 3
  <2>1. phase' = "build" /\ at' = 1
    BY <1>3, ContractFacts DEF Ensured
  <2>2. {Contracts[i] : i \in 1..(at - 1)} = {Contracts[1], Contracts[2]}
    BY <1>3
  <2>3. {Contracts[1], Contracts[2]} \subseteq PassedAt(phase, at)
    BY <2>2, ContractFacts DEF PassedAt
  <2>4. PassedAt(phase', at') = Contract
    BY <2>1 DEF PassedAt
  <2> QED BY <1>3, <2>1, <2>3, <2>4, ContractFacts DEF Current
<1> QED BY <1>1, <1>2, <1>3

(* Every step keeps what was found out of the contracts: one case per kind *)
(* of step of Startup.                                                     *)
LEMMA StartupStep ==
  TypeOK /\ StartupInv /\ [Next]_vars => StartupInv'
<1> SUFFICES ASSUME TypeOK, StartupInv, [Next]_vars
             PROVE  StartupInv'
  OBVIOUS
<1> DEFINE Known(P, C) == /\ \A c \in P : registered'[c] # None
                          /\ \A c \in C : registered'[c] = LocalId
<1>1. /\ Passed = PassedAt(phase, at)
      /\ Passed' = PassedAt(phase', at')
  BY DEF Passed, PassedAt
<1>2. PassedAt(phase, at) \subseteq Contract /\ checked \subseteq Contract
  BY ContractFacts DEF TypeOK, StartupTypeOK, PassedAt, Contract
<1>3. Known(PassedAt(phase, at), checked)
  <2>1. LocalId # None
    BY ProgramIdAssumption
  <2> QED BY <1>1, <1>2, <2>1, RegisteredStays DEF StartupInv, MismatchWasNotCompared
<1>4. ASSUME Known(PassedAt(phase', at'), checked'),
             phase' \in {"down", "build", "serving"} => at' = 1
      PROVE  StartupInv'
  BY <1>1, <1>4 DEF StartupInv, MismatchWasNotCompared
<1>5. ASSUME UNCHANGED <<phase, at, checked>> PROVE StartupInv'
  BY <1>3, <1>4, <1>5 DEF StartupInv
<1>6. ASSUME ProcessEnds PROVE StartupInv'
  BY <1>4, <1>6 DEF ProcessEnds, PassedAt
<1>7. Current \in Contract
  BY ContractFacts DEF TypeOK, StartupTypeOK, Current, Contract
<1>8. CASE Boot
  <2>1. phase' = "get" /\ at' = 1 /\ at = 1 /\ checked' = {}
    BY <1>8 DEF Boot, StartupInv
  <2>2. PassedAt(phase', at') = {}
    BY <2>1 DEF PassedAt
  <2> QED BY <1>4, <2>1, <2>2
<1>9. CASE GetExisting
  <2>1. CASE registered[Current] = LocalId
    <3>1. Ensured /\ checked' = checked \cup {Current} /\ registered' = registered
      BY <1>9, <2>1 DEF GetExisting, nodeVars
    <3>2. registered'[Current] # None /\ registered'[Current] = LocalId
      BY <1>9, <2>1, <3>1 DEF GetExisting
    <3>3. Known(PassedAt(phase', at'), checked')
      BY <1>3, <3>1, <3>2, PassedGrows
    <3> QED BY <1>4, <3>1, <3>3, PassedGrows
  <2>2. CASE registered[Current] # LocalId
    BY <1>6, <1>9, <2>2 DEF GetExisting
  <2> QED BY <2>1, <2>2
<1>10. CASE PollFindsContract
  <2>1. Ensured /\ checked' = checked /\ registered' = registered /\ registered[Current] # None
    BY <1>10 DEF PollFindsContract, nodeVars
  <2>2. Known(PassedAt(phase', at'), checked')
    BY <1>3, <2>1, PassedGrows
  <2> QED BY <1>4, <2>1, <2>2, PassedGrows
<1>11. CASE GetFails \/ Register
  <2>1. /\ phase \in {"get", "register"} /\ phase' \in {"register", "wait"}
        /\ at' = at /\ checked' = checked
    BY <1>11 DEF GetFails, Register
  <2>2. PassedAt(phase', at') = PassedAt(phase, at)
    BY <2>1 DEF PassedAt
  <2> QED BY <1>3, <1>4, <2>1, <2>2
<1>12. CASE BuildModules
  <2>1. phase = "build" /\ phase' = "serving" /\ at' = at /\ checked' = checked
    BY <1>12 DEF BuildModules
  <2>2. PassedAt(phase', at') = PassedAt(phase, at) /\ at' = 1
    BY <2>1 DEF PassedAt, StartupInv
  <2> QED BY <1>3, <1>4, <2>1, <2>2
<1>13. CASE PollFails
  BY <1>5, <1>6, <1>13 DEF PollFails
<1>14. CASE RegisterFails \/ BuildFails \/ Crash
  BY <1>6, <1>14 DEF RegisterFails, BuildFails, Crash
<1>15. CASE UNCHANGED startupVars
  BY <1>5, <1>15 DEF startupVars
<1>16. CASE \E t \in Tx : AutoProve(t) \/ Expire(t)
  BY <1>15, <1>16 DEF AutoProve, Expire
<1>17. CASE UNCHANGED vars
  BY <1>15, <1>17 DEF vars
<1> QED
  BY <1>8, <1>9, <1>10, <1>11, <1>12, <1>13, <1>14, <1>15, <1>16, <1>17
  DEF Next, StartupNext

----------------------------------------------------------------------------
(* What the node knows of transactions.                                    *)
core == <<pool, txs, status, ledger, settled>>

(* A mint, deposit or client transaction on the root after k settlements. *)
IsContent(content, t) ==
  \E k \in 0..Len(settled) :
     content = build_transaction(t, k) \/ content = build_blob_transaction(t, k)

(* Whatever a step does in the process, on the bus or at a client, the     *)
(* node sees one of four things of it.                                     *)
LEMMA StepKinds ==
  ASSUME TypeOK, AppIsBehind, [Next]_vars
  PROVE  \/ UNCHANGED core
         \/ \E t \in Tx : \E content : IsContent(content, t) /\ Receives(t, content)
         \/ \E t \in Tx : Settle(t)
         \/ \E t \in Tx : TimeOut(t)
<1> DEFINE Kinds == \/ UNCHANGED core
                    \/ \E t \in Tx : \E content : IsContent(content, t) /\ Receives(t, content)
                    \/ \E t \in Tx : Settle(t)
                    \/ \E t \in Tx : TimeOut(t)
<1>1. app.base \in 0..Len(settled) /\ replayed \in 0..Len(settled)
  BY DEF TypeOK, FaucetTypeOK, NodeTypeOK, AppIsBehind
<1>2. CASE StartupNext
  BY <1>2 DEF StartupNext, Boot, GetExisting, GetFails, Register, RegisterFails,
              PollFindsContract, PollFails, BuildModules, BuildFails, nodeVars, core
<1>3. CASE FaucetNext
  <2>1. ASSUME NEW t, NEW with_wallet, Answer(t, with_wallet) PROVE UNCHANGED core
    BY <2>1 DEF Answer, nodeVars, core
  <2>2. ASSUME NEW d, TakeCommand(d) PROVE UNCHANGED core
    BY <2>2 DEF TakeCommand, nodeVars, core
  <2>3. ASSUME SendTx \/ SendTxFails PROVE Kinds
    <3>1. app.sending \in Tx
      BY <2>3 DEF SendTx, SendTxFails, TypeOK, FaucetTypeOK
    <3>2. IsContent(build_transaction(app.sending, app.base), app.sending)
      BY <1>1 DEF IsContent
    <3>3. Receives(app.sending, build_transaction(app.sending, app.base)) \/ UNCHANGED nodeVars
      BY <2>3 DEF SendTx, SendTxFails
    <3> QED BY <3>1, <3>2, <3>3 DEF nodeVars, core
  <2>4. ASSUME IndexNext \/ TakeEvent PROVE UNCHANGED core
    BY <2>4 DEF IndexNext, TakeEvent, nodeVars, core
  <2>5. ASSUME NEW t, NEW d, Prove(t, d) \/ ProveFails(t, d) PROVE UNCHANGED core
    BY <2>5 DEF Prove, ProveFails, ReceivesProof, nodeVars, core
  <2>6. ASSUME NEW t \in Tx, CreateBlob(t) PROVE Kinds
    <3>1. IsContent(build_blob_transaction(t, replayed), t)
      BY <1>1 DEF IsContent
    <3> QED BY <2>6, <3>1 DEF CreateBlob
  <2>7. ASSUME NEW t, SubmitUtxoProof(t) \/ SubmitInclProof(t) \/ SubmitFails(t)
        PROVE  UNCHANGED core
    BY <2>7 DEF SubmitUtxoProof, SubmitInclProof, SubmitFails, ReceivesProof, nodeVars, core
  <2> HIDE DEF core
  <2> QED BY <1>3, <2>1, <2>2, <2>3, <2>4, <2>5, <2>6, <2>7 DEF FaucetNext
<1>4. CASE \E t \in Tx : AutoProve(t) \/ Expire(t)
  BY <1>4 DEF AutoProve, Expire
<1>5. CASE \E c \in Contract : RegistrationSettles(c)
  BY <1>5 DEF RegistrationSettles, core
<1>6. CASE \E c \in Contract, id \in ProgramId : OtherRegisters(c, id)
  BY <1>6 DEF OtherRegisters, core
<1>7. CASE Crash \/ UNCHANGED vars
  BY <1>7 DEF Crash, vars, nodeVars, core
<1> QED BY <1>2, <1>3, <1>4, <1>5, <1>6, <1>7 DEF Next

----------------------------------------------------------------------------
(* The invariant of the core, of the variables it speaks of.               *)
RootOf(x, s, k) == UNION {RealCommitments(x[s[i]].blob) : i \in 1..k}

SpentOf(x, s) == UNION {RealNullifiers(x[s[i]].blob) : i \in 1..Len(s)}

BuiltOf(t, x, s) ==
  /\ x[t] \in TxContent
  /\ x[t].blob.created = <<t, Zero>>
  /\ \/ x[t].blob.nullified = <<PaddingNullifier, PaddingNullifier>>
     \/ Spends[t] \in Tx /\ x[t].blob.nullified = <<Spends[t], PaddingNullifier>>
  /\ x[t].base <= Len(s)
  /\ x[t].root = RootOf(x, s, x[t].base)

SentOf(x, st, s) ==
  /\ x \in [Tx -> TxContent \cup {None}]
  /\ \A t \in Tx : st[t] # "new" => BuiltOf(t, x, s)

PoolOf(p, st) ==
  /\ \A i \in DOMAIN p : st[p[i]] = "pending"
  /\ \A i, j \in DOMAIN p : p[i] = p[j] => i = j

LedgerOf(x, st, s, l) ==
  /\ \A i \in DOMAIN s : st[s[i]] = "settled"
  /\ l.notes = RootOf(x, s, Len(s))
  /\ l.nullified = SpentOf(x, s)
  /\ Len(l.roots) = IF Len(s) < MaxRoots THEN Len(s) ELSE MaxRoots
  /\ \A i \in DOMAIN l.roots : l.roots[i] = RootOf(x, s, Len(s) + 1 - i)

Status == {"new", "pending", "settled", "refused", "timed_out"}

TypedOf(p, st, s, l) ==
  p \in Seq(Tx) /\ st \in [Tx -> Status] /\ s \in Seq(Tx) /\ l \in HyliUtxoState

CoreInv(p, x, st, s, l) ==
  TypedOf(p, st, s, l) /\ SentOf(x, st, s) /\ PoolOf(p, st) /\ LedgerOf(x, st, s, l)

(* It is the invariant of Server, in this state and in the next one.       *)
LEMMA Forms ==
  /\ SentIsBuilt <=> SentOf(txs, status, settled)
  /\ SentIsBuilt' <=> SentOf(txs', status', settled')
  /\ PoolIsPending <=> PoolOf(pool, status)
  /\ PoolIsPending' <=> PoolOf(pool', status')
  /\ LedgerFollows <=> LedgerOf(txs, status, settled, ledger)
  /\ LedgerFollows' <=> LedgerOf(txs', status', settled', ledger')
<1>1. /\ \A t : Built(t) <=> BuiltOf(t, txs, settled)
      /\ \A t : Built(t)' <=> BuiltOf(t, txs', settled')
  BY DEF Built, BuiltOf, NamesInputs, RootAt, RootOf
<1>2. /\ SentIsBuilt <=> SentOf(txs, status, settled)
      /\ SentIsBuilt' <=> SentOf(txs', status', settled')
  BY <1>1 DEF SentIsBuilt, SentOf
<1>3. /\ PoolIsPending <=> PoolOf(pool, status)
      /\ PoolIsPending' <=> PoolOf(pool', status')
  BY DEF PoolIsPending, PoolOf
<1>4. /\ LedgerFollows <=> LedgerOf(txs, status, settled, ledger)
      /\ LedgerFollows' <=> LedgerOf(txs', status', settled', ledger')
  BY DEF LedgerFollows, LedgerOf, RootAt, RootOf, Spent, SpentOf
<1> QED BY <1>2, <1>3, <1>4

(* A root depends on the settled transactions it counts, and on nothing    *)
(* but what these create.                                                  *)
LEMMA RootOfSame ==
  ASSUME NEW x, NEW y, NEW s, NEW r, NEW k,
         \A i \in 1..k : r[i] = s[i] /\ y[s[i]] = x[s[i]]
  PROVE  RootOf(y, r, k) = RootOf(x, s, k)
BY DEF RootOf

(* A transaction creates its own note, and nothing else.                   *)
LEMMA CreatesItsNote ==
  ASSUME NEW t \in Tx, NEW x, x[t].blob.created = <<t, Zero>>
  PROVE  RealCommitments(x[t].blob) = {t}
<1>1. {x[t].blob.created[i] : i \in Slots} = {t, Zero}
  BY DEF Slots
<1>2. t # Zero
  BY TxAssumption, KeysAssumption
<1> QED BY <1>1, <1>2 DEF RealCommitments, SkippedCommitments

(* The root after k settlements is the set of their notes. *)
LEMMA RootFacts ==
  ASSUME NEW p, NEW x, NEW st, NEW s, NEW l, CoreInv(p, x, st, s, l), NEW k \in 0..Len(s)
  PROVE  RootOf(x, s, k) = {s[i] : i \in 1..k} /\ RootOf(x, s, k) \subseteq Tx
<1>1. \A i \in 1..k : s[i] \in Tx /\ i \in DOMAIN s
  BY DEF CoreInv, TypedOf
<1>2. \A i \in 1..k : x[s[i]].blob.created = <<s[i], Zero>>
  BY <1>1 DEF CoreInv, SentOf, LedgerOf, BuiltOf
<1>3. \A i \in 1..k : RealCommitments(x[s[i]].blob) = {s[i]}
  BY <1>1, <1>2, CreatesItsNote
<1>4. RootOf(x, s, k) = {s[i] : i \in 1..k}
  <2> DEFINE C(i) == RealCommitments(x[s[i]].blob)
  <2>1. \A i \in 1..k : C(i) = {s[i]}
    BY <1>3
  <2> HIDE DEF C
  <2>2. UNION {C(i) : i \in 1..k} = {s[i] : i \in 1..k}
    BY <2>1
  <2> QED BY <2>2 DEF C, RootOf
<1> QED BY <1>1, <1>4

----------------------------------------------------------------------------
(* The contract on a transaction.                                          *)

(* Its blob, whoever built it: one note comes out, at most one goes in.    *)
LEMMA BlobOfSent ==
  ASSUME NEW t \in Tx, NEW x, NEW s, BuiltOf(t, x, s)
  PROVE  /\ x[t].blob \in UtxoBlob /\ x[t].root \in SUBSET Note /\ x[t].base \in Nat
         /\ x[t].blob.created[1] = t /\ x[t].blob.created[2] = Zero
         /\ x[t].blob.nullified[2] = PaddingNullifier
         /\ \/ /\ x[t].blob.nullified[1] = PaddingNullifier
               /\ RealNullifiers(x[t].blob) = {}
            \/ /\ Spends[t] \in Tx /\ x[t].blob.nullified[1] = Spends[t]
               /\ RealNullifiers(x[t].blob) = {Spends[t]}
<1>1. x[t].blob \in UtxoBlob /\ x[t].root \in SUBSET Note /\ x[t].base \in Nat
  BY DEF BuiltOf, TxContent
<1>2. x[t].blob.created[1] = t /\ x[t].blob.created[2] = Zero
  BY DEF BuiltOf
<1>3. CASE x[t].blob.nullified = <<PaddingNullifier, PaddingNullifier>>
  <2>1. {x[t].blob.nullified[i] : i \in Slots} = {PaddingNullifier}
    BY <1>3 DEF Slots
  <2>2. RealNullifiers(x[t].blob) = {}
    BY <2>1 DEF RealNullifiers, SkippedNullifiers
  <2> QED BY <1>1, <1>2, <1>3, <2>2
<1>4. CASE Spends[t] \in Tx /\ x[t].blob.nullified = <<Spends[t], PaddingNullifier>>
  <2>1. {x[t].blob.nullified[i] : i \in Slots} = {Spends[t], PaddingNullifier}
    BY <1>4 DEF Slots
  <2>2. Spends[t] # Zero /\ Spends[t] # PaddingNullifier
    BY <1>4, TxAssumption, KeysAssumption
  <2>3. RealNullifiers(x[t].blob) = {Spends[t]}
    BY <2>1, <2>2 DEF RealNullifiers, SkippedNullifiers
  <2> QED BY <1>1, <1>2, <1>4, <2>3
<1> QED BY <1>1, <1>2, <1>3, <1>4 DEF BuiltOf

(* The keys a witness is built for are the real ones. *)
LEMMA KeysOfSent ==
  ASSUME NEW t \in Tx, NEW x, NEW s, BuiltOf(t, x, s)
  PROVE  /\ filter_keys(x[t].blob.created, FALSE) = <<t>>
         /\ \/ /\ RealNullifiers(x[t].blob) = {}
               /\ filter_keys(x[t].blob.nullified, TRUE) = <<>>
            \/ /\ RealNullifiers(x[t].blob) = {Spends[t]} /\ Spends[t] # Zero
               /\ filter_keys(x[t].blob.nullified, TRUE) = <<Spends[t]>>
<1> DEFINE b == x[t].blob
<1>1. t \notin SkippedCommitments /\ Zero \in SkippedCommitments
      /\ PaddingNullifier \in SkippedNullifiers
  BY TxAssumption, KeysAssumption DEF SkippedCommitments, SkippedNullifiers
<1>2. /\ \A k : <<k>> \o <<>> = <<k>>
      /\ <<>> \o <<>> = <<>>
  OBVIOUS
<1>3. filter_keys(b.created, FALSE) = <<t>> \o <<>>
  <2>1. b.created[1] = t /\ b.created[2] = Zero
    BY BlobOfSent
  <2> HIDE DEF b
  <2> QED BY <1>1, <2>1 DEF filter_keys
<1>4. CASE b.nullified[1] = PaddingNullifier /\ RealNullifiers(b) = {}
  <2>1. filter_keys(b.nullified, TRUE) = <<>> \o <<>>
    BY <1>1, <1>4, BlobOfSent DEF filter_keys
  <2> QED BY <1>2, <1>3, <1>4, <2>1
<1>5. CASE Spends[t] \in Tx /\ b.nullified[1] = Spends[t] /\ RealNullifiers(b) = {Spends[t]}
  <2>1. Spends[t] \notin SkippedNullifiers /\ Spends[t] # Zero
    BY <1>5, TxAssumption, KeysAssumption DEF SkippedNullifiers
  <2>2. filter_keys(b.nullified, TRUE) = <<Spends[t]>> \o <<>>
    BY <1>1, <1>5, <2>1, BlobOfSent DEF filter_keys
  <2> QED BY <1>2, <1>3, <1>5, <2>1, <2>2
<1> HIDE DEF b
<1> QED BY <1>4, <1>5, BlobOfSent DEF b

(* The witness of no key has no leaves. *)
LEMMA NoWitness ==
  ASSUME NEW tree
  PROVE  /\ ensure_all_zero(build_witness(tree, <<>>))
         /\ Len(build_witness(tree, <<>>).values) = 0
BY DEF build_witness, ensure_all_zero

(* With one key, the witness says whether the key is in the tree. *)
LEMMA SmallWitness ==
  ASSUME NEW tree, NEW k, k # Zero
  PROVE  /\ ensure_all_zero(build_witness(tree, <<k>>)) <=> k \notin tree
         /\ Len(build_witness(tree, <<k>>).values) = 1
<1>1. build_witness(tree, <<k>>).values =
        <<[key |-> k, value |-> IF k \in tree THEN k ELSE Zero]>>
  BY DEF build_witness
<1> QED BY <1>1 DEF ensure_all_zero

(* The root of a transaction is recent enough for the guest: it is in the  *)
(* window, or it is the empty tree's and the window has room.              *)
InWindow(root, roots) ==
  (\E i \in 1..Len(roots) : root = roots[i]) \/ (Len(roots) < MaxRoots /\ root = {})

(* The contract accepts a transaction whose note is new, whose input is    *)
(* not spent and whose root is recent.                                     *)
LEMMA ExecutionAccepts ==
  ASSUME NEW t \in Tx, BuiltOf(t, txs, settled)
  PROVE  Execution(t).ok <=> /\ t \notin ledger.notes
                             /\ RealNullifiers(txs[t].blob) \cap ledger.nullified = {}
                             /\ InWindow(txs[t].root, ledger.roots)
<1> DEFINE b == txs[t].blob
           c == [blob |-> b, smt_nullifiers |-> b.nullified,
                 notes_root |-> txs[t].root, callees |-> <<"smt_incl">>]
           cre == build_witness(ledger.notes, filter_keys(b.created, FALSE))
           nul == build_witness(ledger.nullified, filter_keys(b.nullified, TRUE))
           z == to_zkvm_state(ledger, b.created, b.nullified)
<1>1. Execution(t).ok <=> /\ ensure_all_zero(z.created_notes)
                          /\ ensure_all_zero(z.nullified_notes)
                          /\ check_noir_blobs(z, c)
                          /\ LengthsMatch(z, c)
  BY DEF Execution, execute
<1>2. z.created_notes = cre /\ z.nullified_notes = nul /\ z.roots = RootsArray(ledger.roots)
  BY DEF to_zkvm_state
<1>3. check_noir_blobs(z, c) <=> InWindow(txs[t].root, ledger.roots)
  <2>1. CalleesMatch(c)
    <3>1. Len(c.callees) = 1 /\ DOMAIN c.callees = {1} /\ c.callees[1] = "smt_incl"
      OBVIOUS
    <3>2. /\ {i \in DOMAIN c.callees : c.callees[i] = "smt_incl"} = {1}
          /\ {i \in DOMAIN c.callees : c.callees[i] = "token"} = {}
      BY <3>1
    <3> HIDE DEF c
    <3>3. CalleeCount(c, "smt_incl") = 1 /\ CalleeCount(c, "token") = 0
      BY <3>2, FS_Singleton, FS_EmptySet DEF CalleeCount
    <3> QED BY <3>1, <3>3 DEF CalleesMatch
  <2>2. NullifiersMatch(c) /\ c.notes_root = txs[t].root
    BY DEF NullifiersMatch
  <2>3. txs[t].root \in RootsArray(ledger.roots) <=> InWindow(txs[t].root, ledger.roots)
    BY DEF RootsArray, InWindow
  <2> HIDE DEF c, z
  <2> QED BY <1>2, <2>1, <2>2, <2>3 DEF check_noir_blobs
<1>4. c.blob = b
  OBVIOUS
<1>5. t # Zero
  BY TxAssumption, KeysAssumption
<1> HIDE DEF c, z
<1>6. /\ ensure_all_zero(z.created_notes) <=> t \notin ledger.notes
      /\ Len(z.created_notes.values) = Len(filter_keys(c.blob.created, FALSE))
  <2>1. filter_keys(b.created, FALSE) = <<t>> /\ Len(<<t>>) = 1
    BY KeysOfSent
  <2>2. cre = build_witness(ledger.notes, <<t>>)
    BY <2>1
  <2>3. /\ ensure_all_zero(build_witness(ledger.notes, <<t>>)) <=> t \notin ledger.notes
        /\ Len(build_witness(ledger.notes, <<t>>).values) = 1
    BY <1>5, SmallWitness
  <2> QED BY <1>2, <1>4, <2>1, <2>2, <2>3
<1>7. /\ ensure_all_zero(z.nullified_notes) <=> RealNullifiers(b) \cap ledger.nullified = {}
      /\ Len(z.nullified_notes.values) = Len(filter_keys(c.blob.nullified, TRUE))
  <2>1. CASE RealNullifiers(b) = {} /\ filter_keys(b.nullified, TRUE) = <<>>
    <3>1. nul = build_witness(ledger.nullified, <<>>) /\ Len(<<>>) = 0
      BY <2>1
    <3>2. /\ ensure_all_zero(build_witness(ledger.nullified, <<>>))
          /\ Len(build_witness(ledger.nullified, <<>>).values) = 0
      BY NoWitness
    <3> QED BY <1>2, <1>4, <2>1, <3>1, <3>2
  <2>2. CASE /\ RealNullifiers(b) = {Spends[t]} /\ Spends[t] # Zero
             /\ filter_keys(b.nullified, TRUE) = <<Spends[t]>>
    <3>1. nul = build_witness(ledger.nullified, <<Spends[t]>>) /\ Len(<<Spends[t]>>) = 1
      BY <2>2
    <3>2. /\ ensure_all_zero(build_witness(ledger.nullified, <<Spends[t]>>))
             <=> Spends[t] \notin ledger.nullified
          /\ Len(build_witness(ledger.nullified, <<Spends[t]>>).values) = 1
      BY <2>2, SmallWitness
    <3> QED BY <1>2, <1>4, <2>2, <3>1, <3>2
  <2> QED BY <2>1, <2>2, KeysOfSent
<1> QED BY <1>1, <1>3, <1>6, <1>7 DEF LengthsMatch

(* update_roots: the newest root in front, the oldest out of a full window. *)
LEMMA PushedRoots ==
  ASSUME NEW roots \in Seq(SUBSET Note), Len(roots) <= MaxRoots, NEW root \in SUBSET Note
  PROVE  /\ PushRoot(roots, root) \in Seq(SUBSET Note)
         /\ Len(PushRoot(roots, root)) = IF Len(roots) < MaxRoots THEN Len(roots) + 1 ELSE MaxRoots
         /\ PushRoot(roots, root)[1] = root
         /\ \A i \in 2..Len(PushRoot(roots, root)) : PushRoot(roots, root)[i] = roots[i - 1]
<1> USE MaxRootsAssumption
<1>1. CASE Len(roots) < MaxRoots
  <2>1. PushRoot(roots, root) = <<root>> \o roots
    BY <1>1 DEF PushRoot
  <2>2. /\ <<root>> \o roots \in Seq(SUBSET Note)
        /\ Len(<<root>> \o roots) = Len(roots) + 1
        /\ (<<root>> \o roots)[1] = root
        /\ \A i \in 2..(Len(roots) + 1) : (<<root>> \o roots)[i] = roots[i - 1]
    OBVIOUS
  <2> QED BY <1>1, <2>1, <2>2
<1>2. CASE Len(roots) = MaxRoots
  <2> DEFINE n == MaxRoots - 1
  <2>1. n \in Int /\ n >= 0 /\ \A i \in 1..n : roots[i] \in SUBSET Note
    BY <1>2
  <2>2. PushRoot(roots, root) = <<root>> \o SubSeq(roots, 1, n)
    BY <1>2 DEF PushRoot
  <2> HIDE DEF n
  <2>3. /\ SubSeq(roots, 1, n) \in Seq(SUBSET Note)
        /\ Len(SubSeq(roots, 1, n)) = IF 1 <= n THEN n - 1 + 1 ELSE 0
        /\ \A i \in 1..(n - 1 + 1) : SubSeq(roots, 1, n)[i] = roots[1 + i - 1]
    BY <2>1, SubSeqProperties
  <2>4. Len(SubSeq(roots, 1, n)) = n /\ \A i \in 1..n : SubSeq(roots, 1, n)[i] = roots[i]
    BY <2>1, <2>3
  <2> QED BY <1>2, <2>2, <2>3, <2>4 DEF n
<1> QED BY <1>1, <1>2

(* The executor applies what the contract accepts: as a whole, and with    *)
(* the new tree in the window.                                             *)
LEMMA AppliedToLedger ==
  ASSUME NEW t \in Tx, NEW x, NEW s, BuiltOf(t, x, s),
         NEW l \in HyliUtxoState, Len(l.roots) <= MaxRoots,
         t \notin l.notes, RealNullifiers(x[t].blob) \cap l.nullified = {},
         NEW new, new = apply_commitments(l, x[t].blob).state
  PROVE  /\ new \in HyliUtxoState
         /\ new.notes = l.notes \cup {t}
         /\ new.nullified = l.nullified \cup RealNullifiers(x[t].blob)
         /\ new.roots = PushRoot(l.roots, new.notes)
<1> DEFINE b == x[t].blob
           nul == record_nullified(l, b.nullified)
           cre == record_created(nul.state, b.created)
<1>1. /\ b.created[1] = t /\ b.created[2] = Zero /\ b.nullified[2] = PaddingNullifier
      /\ \/ b.nullified[1] = PaddingNullifier /\ RealNullifiers(b) = {}
         \/ /\ b.nullified[1] = Spends[t] /\ RealNullifiers(b) = {Spends[t]}
            /\ Spends[t] \in Tx
  BY BlobOfSent
<1>2. t \in Note /\ t # Zero /\ Slots = {1, 2} /\ Tx \subseteq Note
  BY TxAssumption, KeysAssumption DEF Slots
<1> HIDE DEF b
<1>3. AllFresh(l.nullified, b.nullified, SkippedNullifiers)
  <2>1. PaddingNullifier \in SkippedNullifiers
    BY DEF SkippedNullifiers
  <2>2. ~AlreadyThere(l.nullified, b.nullified, 2, SkippedNullifiers)
    BY <1>1, <2>1 DEF AlreadyThere
  <2>3. ~AlreadyThere(l.nullified, b.nullified, 1, SkippedNullifiers)
    <3>1. CASE b.nullified[1] = PaddingNullifier
      BY ONLY <2>1, <3>1 DEF AlreadyThere
    <3>2. CASE b.nullified[1] = Spends[t] /\ RealNullifiers(b) = {Spends[t]}
      <4>1. b.nullified[1] \notin l.nullified
        BY <3>2 DEF b
      <4> QED BY ONLY <4>1 DEF AlreadyThere
    <3> QED BY <1>1, <3>1, <3>2
  <2> QED BY <1>2, <2>2, <2>3 DEF AllFresh
<1>4. Inserted(l.nullified, b.nullified, SkippedNullifiers) = RealNullifiers(b)
  <2>1. \A i \in Slots : \A j \in 1..i : j \in Slots
    BY DEF Slots
  <2> QED BY <1>3, <2>1 DEF Inserted, AllFresh, RealNullifiers
<1>5. RealNullifiers(b) \subseteq Note
  BY <1>1, <1>2
<1>6. /\ nul.ok /\ nul.state \in HyliUtxoState
      /\ nul.state.notes = l.notes /\ nul.state.roots = l.roots
      /\ nul.state.nullified = l.nullified \cup RealNullifiers(b)
  BY <1>3, <1>4, <1>5 DEF record_nullified, HyliUtxoState
<1> HIDE DEF nul
<1>7. AllFresh(l.notes, b.created, SkippedCommitments)
  <2>1. t \notin SkippedCommitments /\ Zero \in SkippedCommitments
    BY <1>2 DEF SkippedCommitments
  <2>2. ~AlreadyThere(l.notes, b.created, 2, SkippedCommitments)
    BY <1>1, <2>1 DEF AlreadyThere
  <2>3. ~AlreadyThere(l.notes, b.created, 1, SkippedCommitments)
    BY <1>1 DEF AlreadyThere
  <2> QED BY <1>2, <2>2, <2>3 DEF AllFresh
<1>8. Inserted(l.notes, b.created, SkippedCommitments) = {t}
  <2>1. \A i \in Slots : \A j \in 1..i : j \in Slots
    BY DEF Slots
  <2>2. Inserted(l.notes, b.created, SkippedCommitments) =
          {b.created[i] : i \in {i \in Slots : b.created[i] # Zero}}
    BY <1>7, <2>1 DEF Inserted, AllFresh, SkippedCommitments
  <2> QED BY <1>1, <1>2, <2>2
<1>9. /\ cre.ok /\ cre.state \in HyliUtxoState
      /\ cre.state.notes = l.notes \cup {t} /\ cre.state.roots = l.roots
      /\ cre.state.nullified = l.nullified \cup RealNullifiers(b)
  BY <1>2, <1>6, <1>7, <1>8 DEF record_created, HyliUtxoState
<1>10. new = update_roots(cre.state)
  BY <1>6, <1>9 DEF apply_commitments, nul, b
<1> HIDE DEF cre
<1>11. PushRoot(l.roots, cre.state.notes) \in Seq(SUBSET Note)
  BY <1>9, PushedRoots DEF HyliUtxoState
<1>12. new = [cre.state EXCEPT !.roots = PushRoot(cre.state.roots, cre.state.notes)]
  BY <1>10 DEF update_roots
<1>13. /\ new.notes = cre.state.notes /\ new.nullified = cre.state.nullified
       /\ new.roots = PushRoot(cre.state.roots, cre.state.notes)
  BY ONLY <1>9, <1>12 DEF HyliUtxoState
<1>14. new \in HyliUtxoState
  BY ONLY <1>9, <1>11, <1>12 DEF HyliUtxoState
<1>15. new.roots = PushRoot(l.roots, new.notes)
  BY ONLY <1>9, <1>13
<1> QED BY ONLY <1>9, <1>13, <1>14, <1>15 DEF b

----------------------------------------------------------------------------
(* The steps of the core.                                                  *)

(* A transaction the node has not seen joins the pool. *)
LEMMA ReceivedKeeps ==
  ASSUME NEW p, NEW x, NEW st, NEW s, NEW l, CoreInv(p, x, st, s, l),
         NEW t \in Tx, st[t] = "new",
         NEW q, q = Append(p, t),
         NEW y, \A u \in Tx : u # t => y[u] = x[u],
         y \in [Tx -> TxContent \cup {None}], BuiltOf(t, y, s),
         NEW su, su = [st EXCEPT ![t] = "pending"]
  PROVE  CoreInv(q, y, su, s, l)
<1>1. /\ p \in Seq(Tx) /\ s \in Seq(Tx) /\ st \in [Tx -> Status] /\ l \in HyliUtxoState
      /\ \A i \in 1..Len(s) : s[i] \in Tx /\ s[i] # t
      /\ \A i \in 1..Len(p) : p[i] \in Tx /\ p[i] # t
  BY DEF CoreInv, TypedOf, LedgerOf, PoolOf
<1>2. \A k \in Int : k <= Len(s) => \A i \in 1..k : i \in 1..Len(s)
  BY <1>1
<1>3. \A k \in Int : k <= Len(s) => RootOf(y, s, k) = RootOf(x, s, k)
  <2>1. ASSUME NEW k \in Int, k <= Len(s) PROVE \A i \in 1..k : y[s[i]] = x[s[i]]
    BY <1>1, <1>2, <2>1
  <2>2. ASSUME NEW k \in Int, k <= Len(s) PROVE RootOf(y, s, k) = RootOf(x, s, k)
    BY ONLY <2>1, <2>2 DEF RootOf
  <2> QED BY <2>2
<1>4. SpentOf(y, s) = SpentOf(x, s)
  BY <1>1 DEF SpentOf
<1>5. TypedOf(q, su, s, l)
  BY <1>1 DEF TypedOf, Status
<1>6. SentOf(y, su, s)
  <2> SUFFICES ASSUME NEW u \in Tx, su[u] # "new", u # t
               PROVE  BuiltOf(u, y, s)
    BY DEF SentOf
  <2>1. BuiltOf(u, x, s) /\ y[u] = x[u]
    BY <1>1 DEF CoreInv, SentOf
  <2>2. x[u].base \in Int /\ x[u].base <= Len(s)
    <3>1. x[u] \in TxContent /\ x[u].base <= Len(s)
      BY <2>1 DEF BuiltOf
    <3> QED BY ONLY <3>1 DEF TxContent
  <2>3. RootOf(y, s, x[u].base) = RootOf(x, s, x[u].base)
    BY <1>3, <2>2
  <2> QED BY <2>1, <2>3 DEF BuiltOf
<1>7. PoolOf(q, su)
  <2>1. /\ Len(q) = Len(p) + 1 /\ q[Len(q)] = t /\ DOMAIN q = 1..Len(q)
        /\ \A i \in 1..Len(p) : q[i] = p[i]
    BY <1>1
  <2>2. /\ \A i \in 1..Len(p) : st[p[i]] = "pending"
        /\ \A i, j \in 1..Len(p) : p[i] = p[j] => i = j
    BY <1>1 DEF CoreInv, PoolOf
  <2>3. \A i \in 1..Len(q) : i \in 1..Len(p) \/ i = Len(q)
    BY <1>1, <2>1
  <2>4. \A i \in 1..Len(q) : su[q[i]] = "pending"
    BY <1>1, <2>1, <2>2, <2>3
  <2>5. \A i, j \in 1..Len(q) : q[i] = q[j] => i = j
    BY <1>1, <2>1, <2>2, <2>3
  <2> QED BY <2>1, <2>4, <2>5 DEF PoolOf
<1>8. LedgerOf(y, su, s, l)
  <2>1. \A i \in DOMAIN s : su[s[i]] = "settled"
    BY <1>1 DEF CoreInv, LedgerOf
  <2>2. Len(l.roots) \in Nat /\ DOMAIN l.roots = 1..Len(l.roots) /\ Len(s) \in Nat
    BY <1>1 DEF HyliUtxoState
  <2>3. \A i \in DOMAIN l.roots : Len(s) + 1 - i \in Int /\ Len(s) + 1 - i <= Len(s)
    BY <2>2
  <2>4. /\ l.notes = RootOf(y, s, Len(s))
        /\ \A i \in DOMAIN l.roots : l.roots[i] = RootOf(y, s, Len(s) + 1 - i)
    BY <1>3, <2>2, <2>3 DEF CoreInv, LedgerOf
  <2> QED BY <1>4, <2>1, <2>4 DEF CoreInv, LedgerOf
<1> QED BY <1>5, <1>6, <1>7, <1>8 DEF CoreInv

(* The first of the pool is pending. *)
LEMMA HeadIsPending ==
  ASSUME NEW p \in Seq(Tx), NEW st, PoolOf(p, st), p # <<>>
  PROVE  Head(p) \in Tx /\ st[Head(p)] = "pending"
<1>1. Len(p) # 0 /\ Len(p) \in Nat /\ DOMAIN p = 1..Len(p)
  BY EmptySeq
<1>2. 1 \in DOMAIN p /\ Head(p) = p[1] /\ p[1] \in Tx
  BY <1>1
<1> QED BY <1>2 DEF PoolOf

(* The first of the pool leaves it, with whatever outcome. *)
LEMMA LeavingKeepsPool ==
  ASSUME NEW p \in Seq(Tx), NEW st \in [Tx -> Status], PoolOf(p, st), p # <<>>,
         NEW t \in Tx, t = Head(p), NEW q, q = Tail(p),
         NEW o \in Status, NEW su, su = [st EXCEPT ![t] = o]
  PROVE  q \in Seq(Tx) /\ su \in [Tx -> Status] /\ PoolOf(q, su) /\ st[t] = "pending"
<1>1. Len(p) \in Nat /\ Len(p) # 0 /\ DOMAIN p = 1..Len(p)
  BY EmptySeq
<1>2. /\ q \in Seq(Tx) /\ Len(q) = Len(p) - 1 /\ DOMAIN q = 1..Len(q) /\ t = p[1]
      /\ \A i \in 1..Len(q) : q[i] = p[i + 1]
  BY <1>1, HeadTailProperties
<1>3. \A i \in 1..Len(q) : i + 1 \in 1..Len(p) /\ i + 1 # 1
  BY <1>1, <1>2
<1>4. \A i \in 1..Len(q) : q[i] \in Tx /\ q[i] # t /\ st[q[i]] = "pending"
  BY <1>1, <1>2, <1>3 DEF PoolOf
<1>5. \A i, j \in 1..Len(q) : q[i] = q[j] => i = j
  <2> SUFFICES ASSUME NEW i \in 1..Len(q), NEW j \in 1..Len(q), q[i] = q[j]
               PROVE  i = j
    OBVIOUS
  <2>1. i + 1 = j + 1
    BY <1>1, <1>2, <1>3 DEF PoolOf
  <2> QED BY <1>1, <1>2, <2>1
<1>6. st[t] = "pending"
  BY <1>1, <1>2 DEF PoolOf
<1> QED BY <1>2, <1>4, <1>5, <1>6 DEF PoolOf

(* A transaction that is refused, or whose time is over, leaves the pool   *)
(* and nothing else.                                                       *)
LEMMA DroppedKeeps ==
  ASSUME NEW p, NEW x, NEW st, NEW s, NEW l, CoreInv(p, x, st, s, l), p # <<>>,
         NEW t \in Tx, t = Head(p), NEW q, q = Tail(p),
         NEW o \in {"refused", "timed_out"}, NEW su, su = [st EXCEPT ![t] = o]
  PROVE  CoreInv(q, x, su, s, l)
<1>1. /\ p \in Seq(Tx) /\ st \in [Tx -> Status] /\ PoolOf(p, st) /\ o \in Status
      /\ s \in Seq(Tx) /\ l \in HyliUtxoState
  BY DEF CoreInv, TypedOf, Status
<1>2. q \in Seq(Tx) /\ su \in [Tx -> Status] /\ PoolOf(q, su) /\ st[t] = "pending"
  BY <1>1, LeavingKeepsPool
<1>3. \A u \in Tx : /\ su[u] # "new" => st[u] # "new"
                    /\ st[u] = "settled" => su[u] = "settled"
  BY <1>1, <1>2
<1>4. TypedOf(q, su, s, l)
  BY <1>1, <1>2 DEF TypedOf
<1>5. SentOf(x, su, s)
  BY <1>3 DEF CoreInv, SentOf
<1>6. LedgerOf(x, su, s, l)
  <2>1. \A i \in DOMAIN s : s[i] \in Tx
    BY <1>1
  <2> QED BY <1>3, <2>1 DEF CoreInv, LedgerOf
<1> QED BY <1>2, <1>4, <1>5, <1>6 DEF CoreInv

(* A transaction settles: the ledger and its window take it in. *)
LEMMA SettledKeeps ==
  ASSUME NEW p, NEW x, NEW st, NEW s, NEW l, CoreInv(p, x, st, s, l), p # <<>>,
         NEW t \in Tx, t = Head(p), NEW q, q = Tail(p),
         NEW su, su = [st EXCEPT ![t] = "settled"],
         NEW r, r = Append(s, t),
         NEW m \in HyliUtxoState,
         m.notes = l.notes \cup {t},
         m.nullified = l.nullified \cup RealNullifiers(x[t].blob),
         m.roots = PushRoot(l.roots, m.notes)
  PROVE  CoreInv(q, x, su, r, m)
<1>1. /\ p \in Seq(Tx) /\ st \in [Tx -> Status] /\ PoolOf(p, st) /\ "settled" \in Status
      /\ s \in Seq(Tx) /\ l \in HyliUtxoState
  BY DEF CoreInv, TypedOf, Status
<1>2. q \in Seq(Tx) /\ su \in [Tx -> Status] /\ PoolOf(q, su) /\ st[t] = "pending"
  BY <1>1, LeavingKeepsPool
<1>3. /\ r \in Seq(Tx) /\ Len(r) = Len(s) + 1 /\ r[Len(r)] = t /\ Len(s) \in Nat
      /\ DOMAIN r = 1..Len(r) /\ DOMAIN s = 1..Len(s)
      /\ \A i \in 1..Len(s) : r[i] = s[i] /\ s[i] \in Tx
  BY <1>1
<1>4. \A i \in 1..Len(r) : i \in 1..Len(s) \/ i = Len(r)
  BY <1>3
<1>5. BuiltOf(t, x, s)
  BY <1>2 DEF CoreInv, SentOf
<1>6. \A k \in Int : k <= Len(s) => RootOf(x, r, k) = RootOf(x, s, k)
  <2>1. \A k \in Int : k <= Len(s) => \A i \in 1..k : r[i] = s[i]
    BY <1>3
  <2> QED BY <2>1 DEF RootOf
<1>7. RootOf(x, r, Len(r)) = RootOf(x, s, Len(s)) \cup {t}
  <2> DEFINE C(u) == RealCommitments(x[u].blob)
  <2>1. C(t) = {t}
    BY <1>5, CreatesItsNote DEF BuiltOf
  <2>2. RootOf(x, r, Len(r)) = UNION {C(r[i]) : i \in 1..Len(r)}
        /\ RootOf(x, s, Len(s)) = UNION {C(s[i]) : i \in 1..Len(s)}
    BY DEF RootOf
  <2> HIDE DEF C
  <2>3. \A i \in 1..Len(s) : i \in 1..Len(r)
    BY <1>3
  <2>4. Len(r) \in 1..Len(r)
    BY <1>3
  <2> DEFINE R == UNION {C(r[i]) : i \in 1..Len(r)}
             S == UNION {C(s[i]) : i \in 1..Len(s)}
  <2>5. R = S \cup C(t)
    <3>1. \A e : (\E i \in 1..Len(r) : e \in C(r[i])) <=> (\E i \in 1..Len(s) : e \in C(s[i])) \/ e \in C(t)
      BY <1>3, <1>4, <2>3, <2>4
    <3>2. \A e : e \in R <=> \E i \in 1..Len(r) : e \in C(r[i])
      OBVIOUS
    <3>3. \A e : e \in S <=> \E i \in 1..Len(s) : e \in C(s[i])
      OBVIOUS
    <3> HIDE DEF R, S
    <3> QED BY <3>1, <3>2, <3>3
  <2> QED BY <2>1, <2>2, <2>5
<1>8. SpentOf(x, r) = SpentOf(x, s) \cup RealNullifiers(x[t].blob)
  <2> DEFINE C(u) == RealNullifiers(x[u].blob)
  <2>1. /\ SpentOf(x, r) = UNION {C(r[i]) : i \in 1..Len(r)}
        /\ SpentOf(x, s) = UNION {C(s[i]) : i \in 1..Len(s)}
        /\ RealNullifiers(x[t].blob) = C(t)
    BY DEF SpentOf
  <2> HIDE DEF C
  <2>2. \A i \in 1..Len(s) : i \in 1..Len(r)
    BY <1>3
  <2>3. Len(r) \in 1..Len(r)
    BY <1>3
  <2> DEFINE R == UNION {C(r[i]) : i \in 1..Len(r)}
             S == UNION {C(s[i]) : i \in 1..Len(s)}
  <2>4. R = S \cup C(t)
    <3>1. \A e : (\E i \in 1..Len(r) : e \in C(r[i])) <=> (\E i \in 1..Len(s) : e \in C(s[i])) \/ e \in C(t)
      BY <1>3, <1>4, <2>2, <2>3
    <3>2. \A e : e \in R <=> \E i \in 1..Len(r) : e \in C(r[i])
      OBVIOUS
    <3>3. \A e : e \in S <=> \E i \in 1..Len(s) : e \in C(s[i])
      OBVIOUS
    <3> HIDE DEF R, S
    <3> QED BY <3>1, <3>2, <3>3
  <2> QED BY <2>1, <2>4
<1>9. SentOf(x, su, r)
  <2> SUFFICES ASSUME NEW u \in Tx, su[u] # "new"
               PROVE  BuiltOf(u, x, r)
    BY DEF CoreInv, SentOf
  <2>1. BuiltOf(u, x, s)
    BY <1>1, <1>2 DEF CoreInv, SentOf
  <2>2. x[u].base \in Int /\ x[u].base <= Len(s) /\ x[u].base <= Len(r)
    <3>1. x[u] \in TxContent /\ x[u].base <= Len(s)
      BY <2>1 DEF BuiltOf
    <3>2. x[u].base \in Int
      BY ONLY <3>1 DEF TxContent
    <3> QED BY ONLY <1>3, <3>1, <3>2
  <2>3. RootOf(x, r, x[u].base) = RootOf(x, s, x[u].base)
    BY <1>6, <2>2
  <2> QED BY <2>1, <2>2, <2>3 DEF BuiltOf
<1>10. LedgerOf(x, su, r, m)
  <2>1. \A i \in DOMAIN r : su[r[i]] = "settled"
    <3>1. \A i \in 1..Len(s) : st[s[i]] = "settled"
      BY <1>3 DEF CoreInv, LedgerOf
    <3> QED BY <1>1, <1>3, <1>4, <3>1
  <2>2. m.notes = RootOf(x, r, Len(r)) /\ m.nullified = SpentOf(x, r)
    BY <1>7, <1>8 DEF CoreInv, LedgerOf
  <2>3. /\ l.roots \in Seq(SUBSET Note) /\ m.notes \in SUBSET Note
        /\ Len(l.roots) = (IF Len(s) < MaxRoots THEN Len(s) ELSE MaxRoots)
        /\ DOMAIN l.roots = 1..Len(l.roots) /\ Len(l.roots) \in Nat
        /\ m.roots \in Seq(SUBSET Note) /\ DOMAIN m.roots = 1..Len(m.roots)
        /\ Len(m.roots) \in Nat
    BY <1>1 DEF CoreInv, LedgerOf, HyliUtxoState
  <2>4. /\ Len(m.roots) = IF Len(l.roots) < MaxRoots THEN Len(l.roots) + 1 ELSE MaxRoots
        /\ m.roots[1] = m.notes
        /\ \A i \in 2..Len(m.roots) : m.roots[i] = l.roots[i - 1]
    <3>1. Len(l.roots) <= MaxRoots
      BY <1>3, <2>3, MaxRootsAssumption
    <3>2. /\ Len(PushRoot(l.roots, m.notes)) =
               IF Len(l.roots) < MaxRoots THEN Len(l.roots) + 1 ELSE MaxRoots
          /\ PushRoot(l.roots, m.notes)[1] = m.notes
          /\ \A i \in 2..Len(PushRoot(l.roots, m.notes)) :
                PushRoot(l.roots, m.notes)[i] = l.roots[i - 1]
      BY ONLY <2>3, <3>1, PushedRoots
    <3>3. m.roots = PushRoot(l.roots, m.notes)
      OBVIOUS
    <3> QED BY ONLY <3>2, <3>3
  <2>5. Len(m.roots) = IF Len(r) < MaxRoots THEN Len(r) ELSE MaxRoots
    BY <1>3, <2>3, <2>4, MaxRootsAssumption
  <2>6. ASSUME NEW i \in 1..Len(m.roots)
        PROVE  m.roots[i] = RootOf(x, r, Len(r) + 1 - i)
    <3>1. CASE i = 1
      <4>1. Len(r) + 1 - i = Len(r)
        BY <1>3, <3>1
      <4> QED BY <2>2, <2>4, <3>1, <4>1
    <3>2. CASE i # 1
      <4>1. i \in 2..Len(m.roots) /\ i - 1 \in 1..Len(l.roots)
        <5>1. Len(l.roots) <= MaxRoots
          BY <1>3, <2>3, MaxRootsAssumption
        <5>2. Len(m.roots) <= Len(l.roots) + 1
          <6>1. CASE Len(s) < MaxRoots
            BY ONLY <1>3, <2>3, <2>5, <6>1, MaxRootsAssumption
          <6>2. CASE ~(Len(s) < MaxRoots)
            BY ONLY <1>3, <2>3, <2>5, <6>2, MaxRootsAssumption
          <6> QED BY <6>1, <6>2
        <5> QED BY <2>3, <2>6, <3>2, <5>2
      <4>2. m.roots[i] = l.roots[i - 1] /\ l.roots[i - 1] = RootOf(x, s, Len(s) + 1 - (i - 1))
        BY <2>3, <2>4, <4>1 DEF CoreInv, LedgerOf
      <4>3. /\ Len(s) + 1 - (i - 1) = Len(r) + 1 - i /\ Len(r) + 1 - i <= Len(s)
            /\ Len(r) + 1 - i \in Int
        BY ONLY <1>3, <2>3, <4>1
      <4> DEFINE k == Len(r) + 1 - i
      <4>4. m.roots[i] = RootOf(x, s, k)
        BY <4>2, <4>3
      <4>5. k \in Int /\ k <= Len(s)
        BY <4>3
      <4> HIDE DEF k
      <4>6. RootOf(x, r, k) = RootOf(x, s, k)
        BY <1>6, <4>5
      <4> QED BY <4>4, <4>6 DEF k
    <3> QED BY <3>1, <3>2
  <2> QED BY <2>1, <2>2, <2>3, <2>5, <2>6 DEF LedgerOf
<1>11. TypedOf(q, su, r, m)
  BY <1>2, <1>3 DEF TypedOf
<1> QED BY <1>2, <1>9, <1>10, <1>11 DEF CoreInv

(* Every step of the server keeps the core. *)
LEMMA CoreStep ==
  ASSUME TypeOK, AppIsBehind, CoreInv(pool, txs, status, settled, ledger), [Next]_vars
  PROVE  CoreInv(pool', txs', status', settled', ledger')
<1>1. /\ pool \in Seq(Tx) /\ settled \in Seq(Tx) /\ ledger \in HyliUtxoState
      /\ status \in [Tx -> Status] /\ txs \in [Tx -> TxContent \cup {None}]
      /\ Len(settled) \in Nat
  BY DEF CoreInv, TypedOf, SentOf
<1>2. CASE UNCHANGED core
  BY <1>2 DEF core
<1>3. ASSUME NEW t \in Tx, NEW content, IsContent(content, t), Receives(t, content)
      PROVE  CoreInv(pool', txs', status', settled', ledger')
  <2>1. /\ status[t] = "new" /\ pool' = Append(pool, t) /\ txs' = [txs EXCEPT ![t] = content]
        /\ status' = [status EXCEPT ![t] = "pending"] /\ settled' = settled /\ ledger' = ledger
    BY <1>3 DEF Receives
  <2>2. PICK k \in 0..Len(settled) :
          content = build_transaction(t, k) \/ content = build_blob_transaction(t, k)
    BY <1>3 DEF IsContent
  <2>3. RootAt(k) = RootOf(txs, settled, k) /\ RootOf(txs, settled, k) \subseteq Note
    BY RootFacts, TxAssumption DEF RootAt, RootOf
  <2>4. /\ content.blob.created = <<t, Zero>> /\ content.root = RootOf(txs, settled, k)
        /\ content.base = k /\ content.blob_count = BlobCount(t)
        /\ \/ content.blob.nullified = <<PaddingNullifier, PaddingNullifier>>
           \/ Spends[t] \in Tx /\ content.blob.nullified = <<Spends[t], PaddingNullifier>>
    <3>1. Spends[t] \in Tx \cup {None}
      BY KindAssumption
    <3> QED BY <2>2, <2>3, <3>1 DEF build_transaction, build_blob_transaction
  <2>5. content \in TxContent
    <3>1. BlobCount(t) \in 3..6
      BY DEF BlobCount
    <3>2. content.blob \in UtxoBlob
      <4>1. /\ t \in CreatedKey /\ Zero \in CreatedKey /\ Tx \subseteq NullifierKey
            /\ PaddingNullifier \in NullifierKey /\ Slots = {1, 2}
        BY TxAssumption DEF CreatedKey, NullifierKey, Slots
      <4>2. content.blob.created \in [Slots -> CreatedKey]
        BY <2>4, <4>1
      <4>3. content.blob.nullified \in [Slots -> NullifierKey]
        <5>1. \A a, b \in NullifierKey : <<a, b>> \in [Slots -> NullifierKey]
          BY <4>1
        <5>2. CASE content.blob.nullified = <<PaddingNullifier, PaddingNullifier>>
          BY <4>1, <5>1, <5>2
        <5>3. CASE Spends[t] \in Tx /\ content.blob.nullified = <<Spends[t], PaddingNullifier>>
          <6>1. Spends[t] \in NullifierKey
            BY <4>1, <5>3
          <6> QED BY <4>1, <5>1, <5>3, <6>1
        <5> QED BY <2>4, <5>2, <5>3
      <4>4. content.blob = [created |-> content.blob.created,
                            nullified |-> content.blob.nullified]
        BY <2>2 DEF build_transaction, build_blob_transaction
      <4> QED BY <4>2, <4>3, <4>4 DEF UtxoBlob
    <3>3. content = [blob |-> content.blob, root |-> content.root,
                     base |-> content.base, blob_count |-> content.blob_count]
      BY <2>2 DEF build_transaction, build_blob_transaction
    <3> QED BY <2>3, <2>4, <3>1, <3>2, <3>3 DEF TxContent
  <2>6. /\ txs'[t] = content /\ \A u \in Tx : u # t => txs'[u] = txs[u]
        /\ txs' \in [Tx -> TxContent \cup {None}]
    BY <1>1, <2>1, <2>5
  <2>7. RootOf(txs', settled, k) = RootOf(txs, settled, k)
    <3>1. \A i \in 1..k : settled[i] \in Tx /\ settled[i] # t
      BY <1>1, <2>1 DEF CoreInv, LedgerOf
    <3> QED BY <2>6, <3>1 DEF RootOf
  <2>8. BuiltOf(t, txs', settled)
    BY <2>4, <2>5, <2>6, <2>7 DEF BuiltOf
  <2> QED BY <2>1, <2>6, <2>8, ReceivedKeeps
<1>4. ASSUME NEW t \in Tx, TimeOut(t)
      PROVE  CoreInv(pool', txs', status', settled', ledger')
  BY <1>4, DroppedKeeps DEF TimeOut, IsNext
<1>5. ASSUME NEW t \in Tx, Settle(t)
      PROVE  CoreInv(pool', txs', status', settled', ledger')
  <2>1. pool # <<>> /\ t = Head(pool) /\ pool' = Tail(pool) /\ txs' = txs
    BY <1>5 DEF Settle, IsNext
  <2>2. CASE ~Execution(t).ok
    BY <1>5, <2>1, <2>2, DroppedKeeps DEF Settle
  <2>3. CASE Execution(t).ok
    <3>1. /\ status' = [status EXCEPT ![t] = "settled"] /\ settled' = Append(settled, t)
          /\ ledger' = apply_commitments(ledger, txs[t].blob).state
      BY <1>5, <2>3 DEF Settle
    <3>2. BuiltOf(t, txs, settled)
      <4>1. status[t] = "pending"
        <5>1. PoolOf(pool, status)
          BY DEF CoreInv
        <5> QED BY ONLY <1>1, <2>1, <5>1, HeadIsPending
      <4> QED BY <4>1 DEF CoreInv, SentOf
    <3>3. t \notin ledger.notes /\ RealNullifiers(txs[t].blob) \cap ledger.nullified = {}
      BY <2>3, <3>2, ExecutionAccepts
    <3>4. Len(ledger.roots) <= MaxRoots
      BY <1>1, MaxRootsAssumption DEF CoreInv, LedgerOf
    <3>5. /\ ledger' \in HyliUtxoState
          /\ ledger'.notes = ledger.notes \cup {t}
          /\ ledger'.nullified = ledger.nullified \cup RealNullifiers(txs[t].blob)
          /\ ledger'.roots = PushRoot(ledger.roots, ledger'.notes)
      BY <1>1, <3>1, <3>2, <3>3, <3>4, AppliedToLedger
    <3>6. ASSUME NEW q, q = pool', NEW su, su = status', NEW r, r = settled',
                 NEW m, m = ledger'
          PROVE  CoreInv(q, txs, su, r, m)
      <4>1. pool # <<>> /\ t = Head(pool) /\ q = Tail(pool)
        BY <2>1, <3>6
      <4>2. su = [status EXCEPT ![t] = "settled"] /\ r = Append(settled, t)
        BY <3>1, <3>6
      <4>3. /\ m \in HyliUtxoState /\ m.notes = ledger.notes \cup {t}
            /\ m.nullified = ledger.nullified \cup RealNullifiers(txs[t].blob)
            /\ m.roots = PushRoot(ledger.roots, m.notes)
        BY <3>5, <3>6
      <4> QED BY <4>1, <4>2, <4>3, SettledKeeps
    <3> QED BY <2>1, <3>6
  <2> QED BY <2>2, <2>3
<1> QED BY <1>2, <1>3, <1>4, <1>5, StepKinds

----------------------------------------------------------------------------
(* Types, and FaucetApp's distance to the indexer. *)

(* Settled transactions stay settled, in their order. *)
LEMMA SettledGrows ==
  ASSUME TypeOK, AppIsBehind, CoreInv(pool, txs, status, settled, ledger), [Next]_vars
  PROVE  Len(settled') \in Nat /\ Len(settled) \in Nat /\ Len(settled) <= Len(settled')
<1>1. settled \in Seq(Tx) /\ settled' \in Seq(Tx)
  BY CoreStep DEF CoreInv, TypedOf
<1>2. settled' = settled \/ \E t \in Tx : settled' = Append(settled, t)
  BY StepKinds DEF core, Receives, Settle, TimeOut
<1> QED BY <1>1, <1>2

NodeRest ==
  /\ registered \in [Contract -> ProgramId \cup {None}]
  /\ registrations \subseteq Contract
  /\ proofs \in [Tx -> SUBSET Noir]

(* What is on the chain beside transactions. *)
LEMMA NodeRestStep ==
  ASSUME TypeOK, [Next]_vars
  PROVE  NodeRest'
<1>1. /\ NodeRest /\ Current \in Contract
      /\ LocalId \in ProgramId
  BY ContractFacts, ProgramIdAssumption
  DEF TypeOK, NodeTypeOK, StartupTypeOK, NodeRest, Current, Contract
<1>2. ASSUME UNCHANGED <<registered, registrations, proofs>> PROVE NodeRest'
  BY <1>1, <1>2 DEF NodeRest
<1>3. CASE StartupNext
  BY <1>1, <1>2, <1>3 DEF StartupNext, Boot, GetExisting, GetFails, Register, RegisterFails,
     PollFindsContract, PollFails, BuildModules, BuildFails, nodeVars, NodeRest
<1>4. CASE FaucetNext
  <2>1. ASSUME NEW t, NEW c \in Noir, ReceivesProof(t, c) PROVE NodeRest'
    BY <1>1, <2>1 DEF ReceivesProof, NodeRest
  <2>2. ASSUME NEW t, NEW with_wallet, Answer(t, with_wallet) PROVE NodeRest'
    BY <1>2, <2>2 DEF Answer, nodeVars
  <2>3. ASSUME NEW c, TakeCommand(c) PROVE NodeRest'
    BY <1>2, <2>3 DEF TakeCommand, nodeVars
  <2>4. ASSUME SendTx \/ SendTxFails \/ IndexNext \/ TakeEvent PROVE NodeRest'
    BY <1>2, <2>4 DEF SendTx, SendTxFails, IndexNext, TakeEvent, Receives, nodeVars
  <2>5. ASSUME NEW t, NEW c \in Noir, Prove(t, c) \/ ProveFails(t, c) PROVE NodeRest'
    BY <1>2, <2>1, <2>5 DEF Prove, ProveFails, nodeVars
  <2>6. ASSUME NEW t, CreateBlob(t) \/ SubmitFails(t) PROVE NodeRest'
    BY <1>2, <2>6 DEF CreateBlob, SubmitFails, Receives, nodeVars
  <2>7. ASSUME NEW t, SubmitUtxoProof(t) \/ SubmitInclProof(t) PROVE NodeRest'
    BY <2>1, <2>7 DEF SubmitUtxoProof, SubmitInclProof, Noir
  <2> QED BY <1>4, <2>2, <2>3, <2>4, <2>5, <2>6, <2>7 DEF FaucetNext
<1>5. CASE \E t \in Tx : AutoProve(t) \/ Expire(t)
  BY <1>2, <1>5 DEF AutoProve, Expire, Settle, TimeOut
<1>6. CASE \E c \in Contract : RegistrationSettles(c)
  BY <1>1, <1>6 DEF RegistrationSettles, NodeRest
<1>7. CASE \E c \in Contract, id \in ProgramId : OtherRegisters(c, id)
  BY <1>1, <1>7 DEF OtherRegisters, NodeRest
<1>8. CASE Crash \/ UNCHANGED vars
  BY <1>2, <1>8 DEF Crash, vars, nodeVars
<1> QED BY <1>3, <1>4, <1>5, <1>6, <1>7, <1>8 DEF Next

(* Start-up counts its contracts and its polls within bounds. *)
LEMMA StartupTypeStep ==
  ASSUME TypeOK, [Next]_vars
  PROVE  StartupTypeOK'
<1>1. /\ StartupTypeOK /\ Current \in Contract /\ at \in 1..3
      /\ MaxAttempts \in Nat /\ MaxAttempts >= 1
      /\ 0 \in 0..(MaxAttempts - 1)
  BY ContractFacts, MaxAttemptsAssumption DEF TypeOK, StartupTypeOK, Current, Contract
<1>2. ASSUME UNCHANGED startupVars PROVE StartupTypeOK'
  BY <1>1, <1>2 DEF startupVars, StartupTypeOK
<1>3. ASSUME ProcessEnds PROVE StartupTypeOK'
  BY <1>1, <1>3, ContractFacts DEF ProcessEnds, StartupTypeOK
<1>4. ASSUME Ensured, checked' \subseteq Contract PROVE StartupTypeOK'
  <2>1. at' \in 1..3
    BY <1>1, <1>4, ContractFacts DEF Ensured
  <2> QED BY <1>1, <1>4, <2>1, ContractFacts DEF Ensured, StartupTypeOK
<1>5. CASE GetExisting \/ PollFindsContract
  <2>1. checked' \subseteq Contract \/ ProcessEnds
    BY <1>1, <1>5 DEF GetExisting, PollFindsContract, StartupTypeOK
  <2> QED BY <1>3, <1>4, <1>5, <2>1 DEF GetExisting, PollFindsContract
<1>6. CASE Boot \/ GetFails \/ Register \/ BuildModules
  BY <1>1, <1>6 DEF Boot, GetFails, Register, BuildModules, StartupTypeOK
<1>7. CASE PollFails
  <2>1. CASE attempts + 1 < MaxAttempts
    <3>1. attempts' \in 0..(MaxAttempts - 1)
      BY <1>1, <1>7, <2>1 DEF PollFails, StartupTypeOK
    <3> QED BY <1>1, <1>7, <2>1, <3>1 DEF PollFails, StartupTypeOK
  <2>2. CASE ~(attempts + 1 < MaxAttempts)
    BY <1>3, <1>7, <2>2 DEF PollFails
  <2> QED BY <2>1, <2>2
<1>8. CASE RegisterFails \/ BuildFails \/ Crash
  BY <1>3, <1>8 DEF RegisterFails, BuildFails, Crash
<1>9. CASE (\E t \in Tx : AutoProve(t) \/ Expire(t)) \/ UNCHANGED vars
  BY <1>2, <1>9 DEF AutoProve, Expire, vars
<1> QED BY <1>2, <1>5, <1>6, <1>7, <1>8, <1>9 DEF Next, StartupNext

(* The modules on the bus: queues hold transactions, the app and the       *)
(* indexer know of settled ones only, the app of no more than the indexer. *)
LEMMA FaucetStep ==
  ASSUME TypeOK, AppIsBehind, CoreInv(pool, txs, status, settled, ledger), [Next]_vars
  PROVE  FaucetTypeOK' /\ AppIsBehind'
<1>1. FaucetTypeOK
  BY DEF TypeOK
<1>2. Len(settled') \in Nat /\ Len(settled) \in Nat /\ Len(settled) <= Len(settled')
  BY SettledGrows
<1>3. \A k \in 0..Len(settled) : k \in 0..Len(settled')
  BY <1>2
<1>4. FaucetTypeOK' <=>
        /\ told' \subseteq Tx /\ signed' \subseteq told'
        /\ inbox' \in [Channel -> Seq(Tx)]
        /\ app' \in [alive : BOOLEAN, sending : Tx \cup {None}, base : Nat]
        /\ jobs' \subseteq (Tx \X Noir)
        /\ replayed' \in 0..Len(settled')
        /\ client' \in [Tx -> {"idle", "blob_sent", "utxo_sent", "done", "gone"}]
        /\ faults' \in 0..MaxFaults
  BY DEF FaucetTypeOK
<1>5. replayed \in Nat /\ app.base \in Nat /\ faults \in Nat /\ MaxFaults \in Nat
  BY <1>1, <1>2, MaxFaultsAssumption DEF FaucetTypeOK
<1>6. ASSUME Fault PROVE faults' \in 0..MaxFaults
  BY <1>5, <1>6 DEF Fault
<1>7. ASSUME UNCHANGED faucetVars PROVE FaucetTypeOK' /\ AppIsBehind'
  BY <1>1, <1>3, <1>4, <1>7 DEF faucetVars, FaucetTypeOK, AppIsBehind
<1>8. EmptyInbox \in [Channel -> Seq(Tx)]
  BY DEF EmptyInbox
<1>9. ASSUME NEW t \in Tx, NEW with_wallet, Answer(t, with_wallet)
      PROVE  FaucetTypeOK' /\ AppIsBehind'
  <2>1. ChannelOf(t) \in Channel
    BY DEF ChannelOf, Channel
  <2>2. inbox' \in [Channel -> Seq(Tx)]
    BY <1>1, <1>9, <2>1 DEF Answer, FaucetTypeOK
  <2>3. told' \subseteq Tx /\ signed' \subseteq told'
    BY <1>1, <1>9 DEF Answer, FaucetTypeOK
  <2> QED BY <1>1, <1>3, <1>4, <1>9, <2>2, <2>3 DEF Answer, FaucetTypeOK, AppIsBehind
<1>10. ASSUME NEW c \in Channel, TakeCommand(c)
       PROVE  FaucetTypeOK' /\ AppIsBehind'
  <2>1. inbox[c] \in Seq(Tx) /\ inbox[c] # <<>>
    BY <1>1, <1>10 DEF TakeCommand, FaucetTypeOK
  <2>2. Head(inbox[c]) \in Tx /\ Tail(inbox[c]) \in Seq(Tx)
    BY <2>1, HeadTailProperties
  <2>3. inbox' \in [Channel -> Seq(Tx)]
    BY <1>1, <1>10, <2>2 DEF TakeCommand, FaucetTypeOK
  <2>4. /\ app' \in [alive : BOOLEAN, sending : Tx \cup {None}, base : Nat]
        /\ app'.base = app.base
    BY <1>1, <1>10, <2>2 DEF TakeCommand, FaucetTypeOK
  <2> QED BY <1>1, <1>3, <1>4, <1>10, <2>3, <2>4 DEF TakeCommand, FaucetTypeOK, AppIsBehind
<1>11. CASE SendTx \/ SendTxFails
  <2>1. app.sending \in Tx
    BY <1>1, <1>11 DEF SendTx, SendTxFails, FaucetTypeOK
  <2>2. /\ app' \in [alive : BOOLEAN, sending : Tx \cup {None}, base : Nat]
        /\ app'.base = app.base
    BY <1>1, <1>11 DEF SendTx, SendTxFails, FaucetTypeOK
  <2>3. jobs' \subseteq (Tx \X Noir)
    BY <1>1, <1>11, <2>1 DEF SendTx, SendTxFails, FaucetTypeOK
  <2>4. inbox' \in [Channel -> Seq(Tx)] /\ faults' \in 0..MaxFaults
    BY <1>1, <1>6, <1>8, <1>11 DEF SendTx, SendTxFails, FaucetTypeOK
  <2> QED BY <1>1, <1>3, <1>4, <1>11, <2>2, <2>3, <2>4 DEF SendTx, SendTxFails, FaucetTypeOK, AppIsBehind
<1>12. CASE IndexNext
  <2>1. replayed' \in 0..Len(settled') /\ app.base <= replayed'
    BY <1>2, <1>5, <1>12 DEF IndexNext, AppIsBehind
  <2> QED BY <1>1, <1>4, <1>12, <2>1 DEF IndexNext, FaucetTypeOK, AppIsBehind
<1>13. CASE TakeEvent
  <2>1. /\ app' \in [alive : BOOLEAN, sending : Tx \cup {None}, base : Nat]
        /\ app'.base = app.base + 1 /\ app.base < replayed
    BY <1>1, <1>5, <1>13 DEF TakeEvent, FaucetTypeOK
  <2>2. app'.base <= replayed
    BY <1>5, <2>1
  <2> QED BY <1>1, <1>3, <1>4, <1>13, <2>1, <2>2 DEF TakeEvent, FaucetTypeOK, AppIsBehind
<1>14. ASSUME NEW t \in Tx, NEW c \in Noir, Prove(t, c) \/ ProveFails(t, c)
       PROVE  FaucetTypeOK' /\ AppIsBehind'
  <2>1. faults' \in 0..MaxFaults
    BY <1>1, <1>6, <1>14 DEF Prove, ProveFails, FaucetTypeOK
  <2> QED BY <1>1, <1>3, <1>4, <1>14, <2>1 DEF Prove, ProveFails, FaucetTypeOK, AppIsBehind
<1>15. ASSUME NEW t \in Tx,
              CreateBlob(t) \/ SubmitUtxoProof(t) \/ SubmitInclProof(t) \/ SubmitFails(t)
       PROVE  FaucetTypeOK' /\ AppIsBehind'
  <2>1. faults' \in 0..MaxFaults
    BY <1>1, <1>6, <1>15 DEF CreateBlob, SubmitUtxoProof, SubmitInclProof, SubmitFails, FaucetTypeOK
  <2>2. client' \in [Tx -> {"idle", "blob_sent", "utxo_sent", "done", "gone"}]
    BY <1>1, <1>15 DEF CreateBlob, SubmitUtxoProof, SubmitInclProof, SubmitFails, FaucetTypeOK
  <2> QED BY <1>1, <1>3, <1>4, <1>15, <2>1, <2>2
          DEF CreateBlob, SubmitUtxoProof, SubmitInclProof, SubmitFails, FaucetTypeOK, AppIsBehind
<1>16. CASE Crash
  <2>1. /\ app' = FreshApp /\ replayed' = 0 /\ jobs' = {} /\ inbox' = EmptyInbox
        /\ told' = told /\ signed' = signed /\ faults' \in 0..MaxFaults
    BY <1>6, <1>16 DEF Crash
  <2>2. /\ FreshApp \in [alive : BOOLEAN, sending : Tx \cup {None}, base : Nat]
        /\ FreshApp.base = 0
    BY DEF FreshApp
  <2>3. client' \in [Tx -> {"idle", "blob_sent", "utxo_sent", "done", "gone"}]
    BY <1>1, <1>16 DEF Crash, FaucetTypeOK
  <2>4. 0 \in 0..Len(settled')
    BY <1>2
  <2> QED BY <1>1, <1>4, <1>8, <2>1, <2>2, <2>3, <2>4 DEF FaucetTypeOK, AppIsBehind
<1>17. ASSUME NEW t \in Tx, Expire(t)
       PROVE  FaucetTypeOK' /\ AppIsBehind'
  <2>1. faults' \in 0..MaxFaults
    BY <1>1, <1>6, <1>17 DEF Expire, FaucetTypeOK
  <2> QED BY <1>1, <1>3, <1>4, <1>17, <2>1 DEF Expire, FaucetTypeOK, AppIsBehind
<1>18. CASE (\E t \in Tx : AutoProve(t)) \/ UNCHANGED vars
  BY <1>7, <1>18 DEF AutoProve, vars
<1> QED BY <1>7, <1>9, <1>10, <1>11, <1>12, <1>13, <1>14, <1>15, <1>16, <1>17, <1>18
        DEF Next, FaucetNext

----------------------------------------------------------------------------
(* The invariants. *)

(* A server that was never started, and an empty chain. *)
LEMMA InitServerInv == Init => ServerInv /\ StartupInv
<1> SUFFICES ASSUME Init
             PROVE  ServerInv /\ StartupInv
  OBVIOUS
<1> USE DEF Init, NodeInit, StartupInit, FaucetInit
<1>1. NodeTypeOK
  <2>1. DefaultState \in HyliUtxoState
    BY DEF DefaultState, HyliUtxoState
  <2>2. pool \in Seq(Tx) /\ settled \in Seq(Tx)
    OBVIOUS
  <2> QED BY <2>1, <2>2 DEF NodeTypeOK
<1>2. StartupTypeOK
  <2>1. 0 \in 0..(MaxAttempts - 1)
    BY MaxAttemptsAssumption
  <2> QED BY <2>1, ContractFacts DEF StartupTypeOK
<1>3. FaucetTypeOK
  <2>1. EmptyInbox \in [Channel -> Seq(Tx)]
    BY DEF EmptyInbox
  <2>2. FreshApp \in [alive : BOOLEAN, sending : Tx \cup {None}, base : Nat]
    BY DEF FreshApp
  <2>3. 0 \in 0..MaxFaults /\ 0 \in 0..Len(settled)
    BY MaxFaultsAssumption
  <2> QED BY <2>1, <2>2, <2>3 DEF FaucetTypeOK
<1>4. SentIsBuilt /\ PoolIsPending
  <2>1. txs \in [Tx -> TxContent \cup {None}] /\ \A t \in Tx : status[t] = "new"
    OBVIOUS
  <2>2. DOMAIN pool = {}
    OBVIOUS
  <2> QED BY <2>1, <2>2 DEF SentIsBuilt, PoolIsPending
<1>5. LedgerFollows
  <2>1. Len(settled) = 0 /\ 1..0 = {} /\ DOMAIN settled = {}
    OBVIOUS
  <2>2. /\ ledger.notes = {} /\ ledger.nullified = {}
        /\ Len(ledger.roots) = 0 /\ DOMAIN ledger.roots = {}
    BY DEF DefaultState
  <2>3. RootAt(Len(settled)) = {} /\ Spent = {}
    BY <2>1 DEF RootAt, Spent
  <2> QED BY <2>1, <2>2, <2>3, MaxRootsAssumption DEF LedgerFollows
<1>6. AppIsBehind
  BY DEF AppIsBehind, FreshApp
<1>7. StartupInv
  BY DEF StartupInv, MismatchWasNotCompared, Passed
<1> QED BY <1>1, <1>2, <1>3, <1>4, <1>5, <1>6, <1>7 DEF ServerInv, TypeOK

(* The invariant of Server is that of its core, with types and distances. *)
LEMMA CoreOfServerInv ==
  ASSUME ServerInv
  PROVE  /\ TypeOK /\ AppIsBehind
         /\ CoreInv(pool, txs, status, settled, ledger)
BY Forms DEF ServerInv, CoreInv, TypedOf, Status, TypeOK, NodeTypeOK

(* Every step keeps it. *)
LEMMA ServerStep == ServerInv /\ [Next]_vars => ServerInv'
<1> SUFFICES ASSUME ServerInv, [Next]_vars
             PROVE  ServerInv'
  OBVIOUS
<1>1. TypeOK /\ AppIsBehind /\ CoreInv(pool, txs, status, settled, ledger)
  BY CoreOfServerInv
<1>2. CoreInv(pool', txs', status', settled', ledger')
  BY <1>1, CoreStep
<1>3. SentIsBuilt' /\ PoolIsPending' /\ LedgerFollows'
  BY <1>2, Forms DEF CoreInv
<1>4. NodeRest' /\ StartupTypeOK' /\ FaucetTypeOK' /\ AppIsBehind'
  BY <1>1, NodeRestStep, StartupTypeStep, FaucetStep
<1>5. NodeTypeOK'
  <2>1. \A t \in Tx : txs'[t] = None \/ txs'[t] \in TxContent
    BY <1>2 DEF CoreInv, SentOf
  <2> QED BY <1>2, <1>4, <2>1 DEF NodeTypeOK, NodeRest, CoreInv, TypedOf, Status
<1> QED BY <1>3, <1>4, <1>5 DEF ServerInv, TypeOK

(* Whatever the process, its modules, the clients and the chain do, each   *)
(* transaction on the node is what its sender built on a root of the past, *)
(* and the settled ledger and its window are those of the settled          *)
(* transactions.                                                           *)
THEOREM ServerInvHolds == Spec => [](ServerInv /\ StartupInv)
<1>1. ServerInv => TypeOK
  BY DEF ServerInv
<1>2. ServerInv /\ StartupInv /\ [Next]_vars => (ServerInv /\ StartupInv)'
  BY <1>1, ServerStep, StartupStep
<1> QED BY <1>2, InitServerInv, PTL DEF Spec

(* Every state of the server is well typed: what is sent fits a blob, the  *)
(* indexer is never ahead of the chain, the polls stay within their limit. *)
THEOREM ServerTypeCorrect == Spec => []TypeOK
<1>1. ServerInv => TypeOK
  BY DEF ServerInv
<1> QED BY <1>1, ServerInvHolds, PTL

(* ensure_contract_registered: a server that serves beside a foreign       *)
(* program id never compared it, and what it compared stays right: no      *)
(* registration that comes later can change a contract that is there.      *)
THEOREM ComparedStaysRight == Spec => []MismatchWasNotCompared
<1>1. StartupInv => MismatchWasNotCompared
  BY DEF StartupInv
<1> QED BY <1>1, ServerInvHolds, PTL

----------------------------------------------------------------------------
(* A root after k settlements is in the window as long as fewer than       *)
(* MaxRoots settlements follow; that of the empty tree is there from the   *)
(* start, as the padding of a window with room.                            *)
LEMMA RecentRootIsInWindow ==
  ASSUME NEW p, NEW x, NEW st, NEW s, NEW l, CoreInv(p, x, st, s, l),
         NEW k \in 0..Len(s), Len(s) - k < MaxRoots
  PROVE  InWindow(RootOf(x, s, k), l.roots)
<1>1. /\ Len(s) \in Nat /\ MaxRoots \in Nat /\ k \in Nat
      /\ Len(l.roots) = (IF Len(s) < MaxRoots THEN Len(s) ELSE MaxRoots)
      /\ DOMAIN l.roots = 1..Len(l.roots)
  BY MaxRootsAssumption DEF CoreInv, TypedOf, LedgerOf, HyliUtxoState
<1>2. CASE k = 0
  <2>1. RootOf(x, s, k) = {}
    BY <1>2 DEF RootOf
  <2> QED BY <1>1, <1>2, <2>1 DEF InWindow
<1>3. CASE k # 0
  <2> DEFINE i == Len(s) + 1 - k
  <2>1. i \in 1..Len(l.roots) /\ Len(s) + 1 - i = k
    BY <1>1, <1>3
  <2> HIDE DEF i
  <2>2. l.roots[i] = RootOf(x, s, Len(s) + 1 - i)
    BY <1>1, <2>1 DEF CoreInv, LedgerOf
  <2>3. l.roots[i] = RootOf(x, s, k)
    BY <2>1, <2>2
  <2> QED BY <2>1, <2>3 DEF InWindow
<1> QED BY <1>2, <1>3

(* What the contract refuses among pending transactions has a stale root,  *)
(* or an input that a settled transaction spent.                           *)
LEMMA RefusalHasACause ==
  ASSUME CoreInv(pool, txs, status, settled, ledger),
         NEW t \in Tx, status[t] = "pending", ~Execution(t).ok
  PROVE  Len(settled) - txs[t].base >= MaxRoots \/ SpentByAnother(t)
<1>1. /\ settled \in Seq(Tx) /\ DOMAIN settled = 1..Len(settled) /\ Len(settled) \in Nat
      /\ \A i \in 1..Len(settled) :
           settled[i] \in Tx /\ settled[i] # t /\ status[settled[i]] = "settled"
  BY DEF CoreInv, TypedOf, LedgerOf
<1>2. BuiltOf(t, txs, settled)
  BY DEF CoreInv, SentOf
<1>3. t \notin ledger.notes
  <2>1. ledger.notes = RootOf(txs, settled, Len(settled))
    BY DEF CoreInv, LedgerOf
  <2>2. RootOf(txs, settled, Len(settled)) = {settled[i] : i \in 1..Len(settled)}
    BY <1>1, RootFacts
  <2> QED BY <1>1, <2>1, <2>2
<1>4. CASE RealNullifiers(txs[t].blob) \cap ledger.nullified # {}
  <2>1. RealNullifiers(txs[t].blob) = {Spends[t]} /\ Spends[t] \in Tx
    BY <1>2, <1>4, BlobOfSent
  <2>2. PICK i \in 1..Len(settled) : Spends[t] \in RealNullifiers(txs[settled[i]].blob)
    BY <1>4, <2>1 DEF CoreInv, LedgerOf, SpentOf
  <2>3. BuiltOf(settled[i], txs, settled)
    BY <1>1 DEF CoreInv, SentOf
  <2>4. RealNullifiers(txs[settled[i]].blob) \subseteq {Spends[settled[i]]}
    BY <1>1, <2>3, BlobOfSent
  <2>5. Spends[settled[i]] = Spends[t] /\ Spends[t] # None
    BY <2>1, <2>2, <2>4, ProgramIdAssumption
  <2>6. settled[i] \in Tx /\ settled[i] # t /\ status[settled[i]] = "settled"
    BY <1>1
  <2> QED BY <2>5, <2>6 DEF SpentByAnother
<1>5. CASE ~InWindow(txs[t].root, ledger.roots)
  <2>1. txs[t].base \in 0..Len(settled)
    <3>1. txs[t] \in TxContent /\ txs[t].base <= Len(settled)
      BY <1>2 DEF BuiltOf
    <3>2. txs[t].base \in Nat
      BY ONLY <3>1 DEF TxContent
    <3> QED BY ONLY <1>1, <3>1, <3>2
  <2>2. txs[t].root = RootOf(txs, settled, txs[t].base)
    BY <1>2 DEF BuiltOf
  <2>3. ~(Len(settled) - txs[t].base < MaxRoots)
    BY <1>5, <2>1, <2>2, RecentRootIsInWindow
  <2>4. txs[t].base \in Int
    BY <2>1
  <2> QED BY <1>1, <2>3, <2>4, MaxRootsAssumption
<1> QED BY <1>2, <1>3, <1>4, <1>5, ExecutionAccepts

(* check_noir_blobs and update_roots: a fully proved transaction of the    *)
(* server or of a client is refused for two reasons only, a root that      *)
(* MaxRoots settlements have left behind, and a note somebody else spent;  *)
(* never because FaucetApp or the indexer is behind, or was restarted.     *)
THEOREM RefusalsHaveCauses == Spec => RefusedOnlyWhenStale
<1> DEFINE Fresh == \A t \in Tx : status[t] = "pending" /\ status'[t] = "refused"
                      => Len(settled) - txs[t].base >= MaxRoots \/ SpentByAnother(t)
<1>1. ServerInv /\ [Next]_vars => [Fresh]_vars
  <2> SUFFICES ASSUME ServerInv, [Next]_vars, NEW t \in Tx,
                      status[t] = "pending", status'[t] = "refused"
               PROVE  Len(settled) - txs[t].base >= MaxRoots \/ SpentByAnother(t)
    OBVIOUS
  <2>1. TypeOK /\ AppIsBehind /\ CoreInv(pool, txs, status, settled, ledger)
    BY CoreOfServerInv
  <2>2. status \in [Tx -> Status]
    BY <2>1 DEF CoreInv, TypedOf
  <2>3. CASE \E u \in Tx : \E content : IsContent(content, u) /\ Receives(u, content)
    BY <2>2, <2>3 DEF Receives
  <2>4. CASE \E u \in Tx : TimeOut(u)
    BY <2>2, <2>4 DEF TimeOut
  <2>5. CASE \E u \in Tx : Settle(u)
    <3>1. PICK u \in Tx : Settle(u)
      BY <2>5
    <3>2. u = t /\ ~Execution(t).ok
      BY <2>2, <3>1 DEF Settle
    <3> QED BY <2>1, <3>2, RefusalHasACause
  <2>6. CASE UNCHANGED core
    BY <2>6 DEF core
  <2> QED BY <2>1, <2>3, <2>4, <2>5, <2>6, StepKinds
<1>2. ServerInv /\ StartupInv => ServerInv
  OBVIOUS
<1> QED BY <1>1, <1>2, ServerInvHolds, PTL DEF Spec, RefusedOnlyWhenStale

----------------------------------------------------------------------------
(* The settled ledger implements Ledger.                                   *)

(* The book has an entry for each settlement. *)
LEMMA BookOfSettled ==
  ASSUME CoreInv(pool, txs, status, settled, ledger)
  PROVE  /\ \A t \in Tx : BuiltOf(t, txs, settled) => Entry(t) \in L!Transaction
         /\ Book \in Seq(L!Transaction) /\ Len(Book) = Len(settled)
         /\ \A i \in 1..Len(settled) : Book[i] = Entry(settled[i])
         /\ L!Created(Book) = ledger.notes /\ L!Spent(Book) = ledger.nullified
<1>1. ASSUME NEW t \in Tx, BuiltOf(t, txs, settled) PROVE Entry(t) \in L!Transaction
  <2>1. RealCommitments(txs[t].blob) = {t}
    BY <1>1, CreatesItsNote DEF BuiltOf
  <2>2. RealNullifiers(txs[t].blob) \subseteq Tx
    BY <1>1, BlobOfSent
  <2> QED BY <2>1, <2>2, TxAssumption DEF Entry, L!Transaction
<1>2. /\ Len(settled) \in Nat /\ DOMAIN settled = 1..Len(settled)
      /\ \A i \in 1..Len(settled) : settled[i] \in Tx /\ status[settled[i]] = "settled"
  BY DEF CoreInv, TypedOf, LedgerOf
<1>3. \A i \in 1..Len(settled) : Entry(settled[i]) \in L!Transaction
  BY <1>1, <1>2 DEF CoreInv, SentOf
<1>4. /\ Book \in Seq(L!Transaction) /\ Len(Book) = Len(settled)
      /\ DOMAIN Book = 1..Len(settled)
      /\ \A i \in 1..Len(settled) : Book[i] = Entry(settled[i])
  BY <1>2, <1>3 DEF Book
<1>5. /\ \A i \in 1..Len(settled) : Book[i].created = RealCommitments(txs[settled[i]].blob)
      /\ \A i \in 1..Len(settled) : Book[i].spent = RealNullifiers(txs[settled[i]].blob)
  BY <1>4 DEF Entry
<1>6. L!Created(Book) = RootOf(txs, settled, Len(settled))
  BY <1>4, <1>5 DEF L!Created, RootOf
<1>7. L!Spent(Book) = SpentOf(txs, settled)
  BY <1>4, <1>5 DEF L!Spent, SpentOf
<1> QED BY <1>1, <1>4, <1>6, <1>7 DEF CoreInv, LedgerOf

(* What the contract accepts is a transaction the ledger accepts. *)
LEMMA SettlementIsLegal ==
  ASSUME CoreInv(pool, txs, status, settled, ledger),
         NEW t \in Tx, Settle(t), Execution(t).ok
  PROVE  L!Next
<1>1. /\ pool \in Seq(Tx) /\ pool # <<>> /\ t = Head(pool) /\ txs' = txs
      /\ settled' = Append(settled, t)
      /\ settled \in Seq(Tx) /\ Len(settled) \in Nat
  BY DEF Settle, IsNext, CoreInv, TypedOf
<1>2. BuiltOf(t, txs, settled)
  <2>1. status[t] = "pending"
    <3>1. PoolOf(pool, status)
      BY DEF CoreInv
    <3> QED BY ONLY <1>1, <3>1, HeadIsPending
  <2> QED BY <2>1 DEF CoreInv, SentOf
<1>3. t \notin ledger.notes /\ RealNullifiers(txs[t].blob) \cap ledger.nullified = {}
  BY <1>2, ExecutionAccepts
<1>4. /\ Entry(t) \in L!Transaction
      /\ Entry(t).created = {t} /\ Entry(t).spent = RealNullifiers(txs[t].blob)
  BY <1>2, BookOfSettled, CreatesItsNote DEF Entry, BuiltOf
<1>5. /\ Entry(t).created \cap L!Created(Book) = {}
      /\ Entry(t).spent \cap L!Spent(Book) = {}
  BY <1>3, <1>4, BookOfSettled
<1>6. Book' = Append(Book, Entry(t))
  <2>1. /\ Len(settled') = Len(settled) + 1 /\ settled'[Len(settled) + 1] = t
        /\ \A i \in 1..Len(settled) : settled'[i] = settled[i]
    BY <1>1
  <2>2. Book' = [i \in 1..(Len(settled) + 1) |-> Entry(settled'[i])]
    BY <1>1, <2>1 DEF Book, Entry
  <2>3. /\ Book \in Seq(L!Transaction) /\ Len(Book) = Len(settled)
        /\ \A i \in 1..Len(settled) : Book[i] = Entry(settled[i])
    BY BookOfSettled
  <2> DEFINE e == Entry(t)
             b == Append(Book, e)
  <2>4. e \in L!Transaction /\ e = Entry(t)
    BY <1>4
  <2> HIDE DEF e
  <2>5. /\ b \in Seq(L!Transaction) /\ Len(b) = Len(settled) + 1
        /\ \A i \in 1..Len(settled) : b[i] = Book[i]
        /\ b[Len(settled) + 1] = e
    BY ONLY <1>1, <2>3, <2>4, AppendProperties
  <2> HIDE DEF b
  <2>6. \A i \in 1..(Len(settled) + 1) : b[i] = Entry(settled'[i])
    BY ONLY <1>1, <2>1, <2>3, <2>4, <2>5
  <2>7. b = [i \in 1..Len(b) |-> b[i]]
    BY <2>5
  <2>8. b = [i \in 1..(Len(settled) + 1) |-> Entry(settled'[i])]
    BY ONLY <2>5, <2>6, <2>7
  <2> QED BY <2>2, <2>8 DEF b, e
<1>7. L!Settle(Entry(t))
  BY <1>5, <1>6 DEF L!Settle
<1> QED BY <1>4, <1>7 DEF L!Next

(* to_zkvm_state, execute and handle_transaction_success: through every    *)
(* crash, refusal and timeout, and whatever the clients send, what settles *)
(* on the node is a book in which a note is created once and spent once,   *)
(* and nothing settled is undone.                                          *)
THEOREM SettlementImplementsLedger == Spec => SettledIsLedger
<1>1. Init => L!Init
  BY DEF Init, NodeInit, L!Init, Book
<1>2. ServerInv /\ [Next]_vars => [L!Next]_Book
  <2> SUFFICES ASSUME ServerInv, [Next]_vars PROVE [L!Next]_Book
    OBVIOUS
  <2>1. TypeOK /\ AppIsBehind /\ CoreInv(pool, txs, status, settled, ledger)
    BY CoreOfServerInv
  <2>2. ASSUME settled' = settled, \A i \in 1..Len(settled) : txs'[settled[i]] = txs[settled[i]]
        PROVE  Book' = Book
    BY <2>2 DEF Book, Entry
  <2>3. CASE \E t \in Tx : \E content : IsContent(content, t) /\ Receives(t, content)
    <3>1. PICK t \in Tx : \E content : Receives(t, content)
      BY <2>3
    <3>2. status[t] = "new" /\ settled' = settled /\ \A u \in Tx : u # t => txs'[u] = txs[u]
      BY <2>1, <3>1 DEF Receives, CoreInv, SentOf
    <3>3. \A i \in 1..Len(settled) : settled[i] \in Tx /\ settled[i] # t
      BY <2>1, <3>2 DEF CoreInv, TypedOf, LedgerOf
    <3> QED BY <2>2, <3>2, <3>3
  <2>4. CASE \E t \in Tx : Settle(t)
    <3>1. PICK t \in Tx : Settle(t)
      BY <2>4
    <3>2. CASE Execution(t).ok
      BY <2>1, <3>1, <3>2, SettlementIsLegal
    <3>3. CASE ~Execution(t).ok
      BY <2>2, <3>1, <3>3 DEF Settle
    <3> QED BY <3>2, <3>3
  <2>5. CASE (\E t \in Tx : TimeOut(t)) \/ UNCHANGED core
    BY <2>2, <2>5 DEF TimeOut, core
  <2> QED BY <2>1, <2>3, <2>4, <2>5, StepKinds
<1>3. ServerInv /\ StartupInv => ServerInv
  OBVIOUS
<1> QED BY <1>1, <1>2, <1>3, ServerInvHolds, PTL DEF Spec, SettledIsLedger, L!Spec
============================================================================
