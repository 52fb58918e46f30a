----------------------------- MODULE PkgProofs -----------------------------
(***************************************************************************)
(* Proofs about the packages under src/pkg and the circuits they bind.     *)
(*                                                                         *)
(* The first part is about Batch, for any number of calls, any delays and  *)
(* intervals.  The two flags of the queue are a lock: next_execution is    *)
(* set exactly while a task waits for its time, processing exactly while   *)
(* one works or has panicked.  That is what the inductive invariant Locked *)
(* says, and what the two scheduling checks rely on.                       *)
(*                                                                         *)
(* The second part is about the transactions, the circuits and their       *)
(* bindings, for every field, every hash and every word size; and, at the  *)
(* end, about the signed arithmetic, which is that of the integers as long *)
(* as magnitudes fit, with the place where it is not.                      *)
(***************************************************************************)
EXTENDS Batch, SignedElement, SparseTree, SequenceTheorems, TLAPS

Waits(t) == pc[t] \in {"spawned", "sleeping"}

Works(t) == pc[t] \in {"processing", "finishing", "panicked"}

Locked ==
  /\ \A t \in Calls : Waits(t) => next_execution # None /\ ~processing
  /\ \A t \in Calls : Works(t) => next_execution = None /\ processing
  /\ \A t, u \in Calls : (Waits(t) \/ Works(t)) /\ (Waits(u) \/ Works(u)) => t = u
  /\ next_execution # None => \E t \in Calls : Waits(t)
  /\ processing => \E t \in Calls : Works(t)
  /\ items # <<>> => next_execution # None \/ processing

(* What Answered gives is an answer, for any way to give one. *)
LEMMA AnsweredType ==
  ASSUME TypeOK, NEW senders \in Seq(Calls), 
         NEW given \in [1..Len(senders) -> Calls \cup Outcomes]
  PROVE  Answered(senders, given) \in [Calls -> Calls \cup Outcomes]
<1> SUFFICES ASSUME NEW c \in Calls
             PROVE  Answered(senders, given)[c] \in Calls \cup Outcomes
  BY DEF Answered
<1> DEFINE at == {i \in 1..Len(senders) : senders[i] = c}
<1>1. CASE answer[c] # "waiting" \/ at = {}
  BY <1>1 DEF Answered, TypeOK, Outcomes
<1>2. CASE answer[c] = "waiting" /\ at # {}
  <2> DEFINE i == CHOOSE j \in at : TRUE
  <2>1. i \in at
    BY <1>2
  <2>2. given[i] \in Calls \cup Outcomes
    BY <2>1
  <2>3. Answered(senders, given)[c] = given[i]
    BY <1>2 DEF Answered
  <2> QED
    BY <2>2, <2>3
<1> QED
  BY <1>1, <1>2

(* The times that are computed are numbers within the bound. *)
LEMMA TimesType ==
  ASSUME TypeOK
  PROVE  /\ NextTime \in Nat
         /\ next_execution # None => WaitUntil \in 0..MaxTime
<1>1. config.batch_delay \in Nat /\ config.min_interval \in Nat
  BY BatchAssumption DEF TypeOK, BatchConfig
<1>2. NextTime \in Nat
  BY <1>1 DEF TypeOK, NextTime, Later, None
<1>3. next_execution # None => WaitUntil \in 0..MaxTime
  BY DEF TypeOK, WaitUntil, Later, None
<1> QED
  BY <1>2, <1>3

(* Every step keeps the types: one case per action. *)
LEMMA TypeStep ==
  TypeOK /\ [Next]_vars => TypeOK'
<1> SUFFICES ASSUME TypeOK, [Next]_vars
             PROVE  TypeOK'
  OBVIOUS
<1> USE BatchAssumption
<1>1. CASE Tick
  BY <1>1 DEF Tick, TypeOK, queue
<1>2. ASSUME NEW c \in Calls, Call(c)
      PROVE  TypeOK'
  <2>1. NextTime \in 0..MaxTime
    BY <1>2, TimesType DEF Call, TypeOK
  <2>2. items' \in Seq(Calls)
    BY <1>2 DEF Call, TypeOK
  <2>3. next_execution' \in {None} \cup 0..MaxTime
    BY <1>2, <2>1 DEF Call, TypeOK
  <2>4. pc' \in [Calls -> Places] /\ answer' \in [Calls -> Calls \cup Outcomes]
    BY <1>2 DEF Call, TypeOK, Places, Outcomes
  <2> QED
    BY <1>2, <2>2, <2>3, <2>4 DEF Call, TypeOK
<1>3. ASSUME NEW c \in Calls, Cancel(c)
      PROVE  TypeOK'
  BY <1>3 DEF Cancel, TypeOK, queue, Outcomes
<1>4. ASSUME NEW cfg \in BatchConfig, SetConfig(cfg)
      PROVE  TypeOK'
  BY <1>4 DEF SetConfig, TypeOK, queue
<1>5. ASSUME NEW t \in Calls, Sleep(t)
      PROVE  TypeOK'
  BY <1>5, TimesType DEF Sleep, TypeOK, queue, Places
<1>6. ASSUME NEW t \in Calls, TakeItems(t)
      PROVE  TypeOK'
  BY <1>6 DEF TakeItems, TypeOK, Places
<1>7. ASSUME NEW t \in Calls, NEW k \in 0..Len(batch[t]), ProcessOk(t, k)
      PROVE  TypeOK'
  <2> DEFINE given == [i \in 1..Len(batch[t]) |-> IF i <= k THEN batch[t][i] ELSE "dropped"]
  <2>1. batch[t] \in Seq(Calls)
    BY DEF TypeOK
  <2>2. given \in [1..Len(batch[t]) -> Calls \cup Outcomes]
    BY <2>1 DEF Outcomes
  <2>3. answer' = Answered(batch[t], given)
    BY <1>7 DEF ProcessOk, Zipped
  <2> HIDE DEF given
  <2>4. answer' \in [Calls -> Calls \cup Outcomes]
    BY <2>1, <2>2, <2>3, AnsweredType
  <2>5. pc' \in [Calls -> Places] /\ batch' \in [Calls -> Seq(Calls)]
    BY <1>7 DEF ProcessOk, TypeOK, Places
  <2> QED
    BY <1>7, <2>4, <2>5 DEF ProcessOk, TypeOK, queue
<1>8. ASSUME NEW t \in Calls, ProcessErr(t) \/ ProcessPanic(t)
      PROVE  TypeOK'
  <2>1. \A outcome \in Outcomes : All(batch[t], outcome) \in [Calls -> Calls \cup Outcomes]
    <3> SUFFICES ASSUME NEW outcome \in Outcomes
                 PROVE  All(batch[t], outcome) \in [Calls -> Calls \cup Outcomes]
      OBVIOUS
    <3> DEFINE given == [i \in 1..Len(batch[t]) |-> outcome]
    <3>1. batch[t] \in Seq(Calls) /\ given \in [1..Len(batch[t]) -> Calls \cup Outcomes]
      BY DEF TypeOK
    <3>2. All(batch[t], outcome) = Answered(batch[t], given)
      BY DEF All
    <3> HIDE DEF given
    <3> QED
      BY <3>1, <3>2, AnsweredType
  <2>2. answer' \in [Calls -> Calls \cup Outcomes]
    BY <1>8, <2>1 DEF ProcessErr, ProcessPanic, Outcomes
  <2>3. pc' \in [Calls -> Places]
    BY <1>8 DEF ProcessErr, ProcessPanic, TypeOK, Places
  <2>4. batch' \in [Calls -> Seq(Calls)]
    <3>1. batch' = [batch EXCEPT ![t] = <<>>] /\ <<>> \in Seq(Calls)
      BY <1>8 DEF ProcessErr, ProcessPanic
    <3> QED
      BY <3>1 DEF TypeOK
  <2> QED
    BY <1>8, <2>2, <2>3, <2>4 DEF ProcessErr, ProcessPanic, TypeOK, queue
<1>9. ASSUME NEW t \in Calls, Finish(t)
      PROVE  TypeOK'
  BY <1>9 DEF Finish, TypeOK, Places
<1>10. CASE UNCHANGED vars
  BY <1>10 DEF TypeOK, vars
<1> QED
  BY <1>1, <1>2, <1>3, <1>4, <1>5, <1>6, <1>7, <1>8, <1>9, <1>10
  DEF Next, TaskStep

(* Every step keeps the two flags in line with the tasks. *)
LEMMA LockedStep ==
  TypeOK /\ Locked /\ [Next]_vars => Locked'
<1> SUFFICES ASSUME TypeOK, Locked, [Next]_vars
             PROVE  Locked'
  OBVIOUS
<1> USE DEF Waits, Works
<1>1. CASE Tick
  BY <1>1 DEF Tick, queue, Locked
<1>2. ASSUME NEW c \in Calls, Call(c)
      PROVE  Locked'
  <2>1. CASE ShouldSchedule
    <3>1. NextTime # None
      BY TimesType DEF None
    <3>2. \A t \in Calls : ~Waits(t) /\ ~Works(t)
      BY <2>1 DEF ShouldSchedule, Locked
    <3>3. /\ pc' = [pc EXCEPT ![c] = "spawned"] /\ pc \in [Calls -> Places]
          /\ next_execution' = NextTime /\ ~processing'
      BY <1>2, <2>1 DEF Call, ShouldSchedule, TypeOK
    <3> QED
      BY <3>1, <3>2, <3>3 DEF Locked
  <2>2. CASE ~ShouldSchedule
    BY <1>2, <2>2 DEF Call, ShouldSchedule, Locked
  <2> QED
    BY <2>1, <2>2
<1>3. ASSUME NEW c \in Calls, Cancel(c)
      PROVE  Locked'
  BY <1>3 DEF Cancel, queue, Locked
<1>4. ASSUME NEW cfg \in BatchConfig, SetConfig(cfg)
      PROVE  Locked'
  BY <1>4 DEF SetConfig, queue, Locked
<1>5. ASSUME NEW t \in Calls, Sleep(t)
      PROVE  Locked'
  <2>1. next_execution # None
    BY <1>5 DEF Sleep, Locked
  <2> QED
    BY <1>5, <2>1 DEF Sleep, TypeOK, queue, Locked
<1>6. ASSUME NEW t \in Calls, TakeItems(t)
      PROVE  Locked'
  BY <1>6 DEF TakeItems, TypeOK, Locked
<1>7. ASSUME NEW t \in Calls, pc[t] = "processing", UNCHANGED queue,
             NEW q \in {"finishing", "panicked"}, pc' = [pc EXCEPT ![t] = q]
      PROVE  Locked'
  BY <1>7 DEF TypeOK, queue, Locked
<1>8. ASSUME NEW t \in Calls, Finish(t)
      PROVE  Locked'
  <2>1. /\ next_execution = None /\ processing
        /\ \A u \in Calls : Waits(u) \/ Works(u) => u = t
    BY <1>8 DEF Finish, Locked
  <2>2. CASE items # <<>>
    <3>1. now # None
      BY DEF TypeOK, None
    <3> QED
      BY <1>8, <2>1, <2>2, <3>1 DEF Finish, TypeOK, Locked
  <2>3. CASE items = <<>>
    BY <1>8, <2>1, <2>3 DEF Finish, TypeOK, Locked
  <2> QED
    BY <2>2, <2>3
<1>9. CASE UNCHANGED vars
  BY <1>9 DEF vars, Locked
<1>10. ASSUME NEW t \in Calls, TaskStep(t)
       PROVE  Locked'
  <2>1. CASE \E k \in 0..Len(batch[t]) : ProcessOk(t, k)
    BY <2>1, <1>7 DEF ProcessOk
  <2>2. CASE ProcessErr(t)
    BY <2>2, <1>7 DEF ProcessErr
  <2>3. CASE ProcessPanic(t)
    BY <2>3, <1>7 DEF ProcessPanic
  <2> QED
    BY <1>5, <1>6, <1>8, <1>10, <2>1, <2>2, <2>3 DEF TaskStep
<1> QED
  BY <1>1, <1>2, <1>3, <1>4, <1>9, <1>10 DEF Next

(* A new batcher (Batch::new) has no task and an empty queue. *)
LEMMA InitLocked == Init => TypeOK /\ Locked
<1> SUFFICES ASSUME Init
             PROVE  TypeOK /\ Locked
  OBVIOUS
<1>1. TypeOK
  <2>1. now \in 0..MaxTime /\ wake \in [Calls -> 0..MaxTime]
    BY BatchAssumption DEF Init
  <2>2. items \in Seq(Calls) /\ batch \in [Calls -> Seq(Calls)]
    BY DEF Init
  <2>3. pc \in [Calls -> Places] /\ answer \in [Calls -> Calls \cup Outcomes]
    BY DEF Init, Places, Outcomes
  <2> QED
    BY <2>1, <2>2, <2>3 DEF Init, TypeOK
<1>2. Locked
  BY DEF Init, Locked, Waits, Works
<1> QED
  BY <1>1, <1>2

(* Every state of the batcher is well typed: in particular no time that is *)
(* slept until is past the one a call computed.                            *)
THEOREM BatchTypeCorrect == Spec => []TypeOK
<1>1. Init => TypeOK
  BY InitLocked
<1> QED
  BY <1>1, TypeStep, PTL DEF Spec

(* The inductive invariant holds in every reachable state. *)
LEMMA AlwaysLocked == Spec => [](TypeOK /\ Locked)
<1> QED
  BY InitLocked, TypeStep, LockedStep, PTL DEF Spec

(* However many calls race each other, a sleeping task and the end of one, *)
(* at most one task of a batcher is alive, and so process_batch never runs *)
(* twice at the same time.                                                 *)
THEOREM BatchesDoNotOverlap == Spec => []OneTask
<1>1. Locked => OneTask
  BY DEF Locked, OneTask, Alive, Waits, Works
<1> QED
  BY <1>1, AlwaysLocked, PTL

(* Without a panic of the processor, queued items have a live task that    *)
(* will take them: there is no interleaving of call with the end of        *)
(* schedule_next_batch that strands an item.                               *)
THEOREM ItemsAreNotStranded == Spec => []NoItemStranded
<1>1. Locked => NoItemStranded
  BY DEF Locked, NoItemStranded, Alive, Panicked, Waits, Works
<1> QED
  BY <1>1, AlwaysLocked, PTL

----------------------------------------------------------------------------
(* Senders.  The queue and the batches hold a call at most once, and hold  *)
(* every call that waits; a call that was not made is nowhere.             *)
In(s, c) == \E i \in 1..Len(s) : s[i] = c

Distinct(s) == \A i, j \in 1..Len(s) : s[i] = s[j] => i = j

Apart(s, r) == \A c \in Calls : ~(In(s, c) /\ In(r, c))

Kept ==
  /\ Distinct(items)
  /\ \A t \in Calls : Distinct(batch[t]) /\ Apart(items, batch[t])
  /\ \A t, u \in Calls : t # u => Apart(batch[t], batch[u])
  /\ \A t \in Calls : pc[t] # "processing" => batch[t] = <<>>
  /\ \A c \in Calls : answer[c] = "idle" => ~In(items, c) /\ \A t \in Calls : ~In(batch[t], c)
  /\ \A c \in Calls : answer[c] = "waiting" => In(items, c) \/ \E t \in Calls : In(batch[t], c)

(* A caller's answer after a batch: its own old one, or none yet, or the   *)
(* one given to one of its places among the senders.                       *)
LEMMA AnsweredValue ==
  ASSUME TypeOK, NEW senders \in Seq(Calls), NEW given, NEW c \in Calls
  PROVE  \/ answer[c] # "waiting" /\ Answered(senders, given)[c] = answer[c]
         \/ answer[c] = "waiting" /\ ~In(senders, c) /\ Answered(senders, given)[c] = "waiting"
         \/ /\ answer[c] = "waiting" /\ In(senders, c)
            /\ \E i \in 1..Len(senders) : senders[i] = c /\ Answered(senders, given)[c] = given[i]
<1> DEFINE at == {i \in 1..Len(senders) : senders[i] = c}
<1>1. CASE answer[c] # "waiting"
  BY <1>1 DEF Answered
<1>2. CASE answer[c] = "waiting" /\ at = {}
  BY <1>2 DEF Answered, In
<1>3. CASE answer[c] = "waiting" /\ at # {}
  <2> DEFINE i == CHOOSE j \in at : TRUE
  <2>1. i \in at
    BY <1>3
  <2>2. Answered(senders, given)[c] = given[i]
    BY <1>3 DEF Answered
  <2> QED BY <1>3, <2>1, <2>2 DEF In
<1> QED BY <1>1, <1>2, <1>3

(* What the end of a batch, however it ends, gives its senders. *)
LEMMA GivenAnswers ==
  ASSUME TypeOK, NEW t \in Calls, NEW given, answer' = Answered(batch[t], given),
         \A i \in 1..Len(batch[t]) : given[i] \notin {"idle", "waiting"}
  PROVE  \A c \in Calls :
           /\ answer'[c] = "idle" => answer[c] = "idle"
           /\ answer'[c] = "waiting" => answer[c] = "waiting" /\ ~In(batch[t], c)
<1>1. batch[t] \in Seq(Calls)
  BY DEF TypeOK
<1> QED BY <1>1, AnsweredValue

(* The empty sequence holds nothing. *)
LEMMA EmptyFacts ==
  /\ \A c : ~In(<<>>, c)
  /\ Distinct(<<>>)
  /\ \A s : Apart(<<>>, s) /\ Apart(s, <<>>)
BY DEF In, Distinct, Apart

(* A call that was not in a sequence is appended to it. *)
LEMMA AppendFacts ==
  ASSUME NEW s \in Seq(Calls), NEW c \in Calls
  PROVE  /\ \A d \in Calls : In(Append(s, c), d) <=> In(s, d) \/ d = c
         /\ Distinct(s) /\ ~In(s, c) => Distinct(Append(s, c))
<1>1. /\ Len(s) \in Nat /\ Len(Append(s, c)) = Len(s) + 1
      /\ \A i \in 1..Len(s) : Append(s, c)[i] = s[i]
      /\ Append(s, c)[Len(s) + 1] = c
  OBVIOUS
<1>2. ASSUME NEW d \in Calls PROVE In(Append(s, c), d) <=> In(s, d) \/ d = c
  BY <1>1 DEF In
<1>3. ASSUME Distinct(s), ~In(s, c) PROVE Distinct(Append(s, c))
  BY <1>1, <1>3 DEF In, Distinct
<1> QED BY <1>2, <1>3

(* The end of a batch. *)
LEMMA BatchEndKeeps ==
  ASSUME TypeOK, Kept, NEW t \in Calls, NEW given, answer' = Answered(batch[t], given),
         \A i \in 1..Len(batch[t]) : given[i] \notin {"idle", "waiting"},
         batch' = [batch EXCEPT ![t] = <<>>], items' = items,
         \A u \in Calls : u # t => pc'[u] = pc[u]
  PROVE  Kept'
<1>1. batch'[t] = <<>> /\ \A u \in Calls : u # t => batch'[u] = batch[u]
  BY DEF TypeOK
<1>2. \A c \in Calls : /\ answer'[c] = "idle" => answer[c] = "idle"
                       /\ answer'[c] = "waiting" => answer[c] = "waiting" /\ ~In(batch[t], c)
  BY GivenAnswers
<1>3. \A u \in Calls : Distinct(batch'[u]) /\ Apart(items', batch'[u])
  BY <1>1, EmptyFacts DEF Kept
<1>4. \A u, v \in Calls : u # v => Apart(batch'[u], batch'[v])
  BY <1>1, EmptyFacts DEF Kept
<1>5. \A u \in Calls : pc'[u] # "processing" => batch'[u] = <<>>
  BY <1>1 DEF Kept
<1>6. \A c \in Calls : answer'[c] = "idle" => ~In(items', c) /\ \A u \in Calls : ~In(batch'[u], c)
  BY <1>1, <1>2, EmptyFacts DEF Kept
<1>7. ASSUME NEW c \in Calls, answer'[c] = "waiting"
      PROVE  In(items', c) \/ \E u \in Calls : In(batch'[u], c)
  BY <1>1, <1>2, <1>7 DEF Kept
<1> QED BY <1>3, <1>4, <1>5, <1>6, <1>7 DEF Kept

(* Every step keeps the senders: one case per action. *)
LEMMA KeptStep ==
  TypeOK /\ Locked /\ Kept /\ [Next]_vars => Kept'
<1> SUFFICES ASSUME TypeOK, Locked, Kept, [Next]_vars
             PROVE  Kept'
  OBVIOUS
<1>1. ASSUME UNCHANGED <<items, batch, pc, answer>>
      PROVE  Kept'
  BY <1>1 DEF Kept
<1>2. ASSUME NEW c \in Calls, Call(c)
      PROVE  Kept'
  <2>1. /\ answer[c] = "idle" /\ items' = Append(items, c) /\ UNCHANGED batch
        /\ answer'[c] = "waiting" /\ \A d \in Calls : d # c => answer'[d] = answer[d]
    BY <1>2 DEF Call, TypeOK
  <2>2. items \in Seq(Calls) /\ ~In(items, c) /\ \A t \in Calls : ~In(batch[t], c)
    BY <2>1 DEF Kept, TypeOK
  <2>3. /\ \A d \in Calls : In(items', d) <=> In(items, d) \/ d = c
        /\ Distinct(items')
    BY <2>1, <2>2, AppendFacts DEF Kept
  <2>4. \A t \in Calls : Distinct(batch'[t]) /\ Apart(items', batch'[t])
    BY <2>1, <2>2, <2>3 DEF Kept, Apart
  <2>5. \A t, u \in Calls : t # u => Apart(batch'[t], batch'[u])
    BY <2>1 DEF Kept
  <2>6. \A t \in Calls : pc'[t] # "processing" => batch'[t] = <<>>
    <3>1. ASSUME NEW t \in Calls, pc'[t] # pc[t]
          PROVE  pc[t] # "processing"
      <4>1. ShouldSchedule
        BY <1>2, <3>1 DEF Call
      <4> QED BY <4>1 DEF ShouldSchedule, Locked, Works
    <3> QED BY <2>1, <3>1 DEF Kept
  <2>7. \A d \in Calls : answer'[d] = "idle" => ~In(items', d) /\ \A t \in Calls : ~In(batch'[t], d)
    BY <2>1, <2>3 DEF Kept
  <2>8. \A d \in Calls : answer'[d] = "waiting" => In(items', d) \/ \E t \in Calls : In(batch'[t], d)
    BY <2>1, <2>3 DEF Kept
  <2> QED BY <2>3, <2>4, <2>5, <2>6, <2>7, <2>8 DEF Kept
<1>3. ASSUME NEW c \in Calls, Cancel(c)
      PROVE  Kept'
  <2>1. /\ UNCHANGED <<items, batch, pc>> /\ answer'[c] = "cancelled"
        /\ \A d \in Calls : d # c => answer'[d] = answer[d]
    BY <1>3 DEF Cancel, queue, TypeOK
  <2> QED BY <2>1 DEF Kept
<1>4. ASSUME NEW t \in Calls, TakeItems(t)
      PROVE  Kept'
  <2>1. /\ pc[t] = "sleeping" /\ items' = <<>> /\ batch'[t] = items /\ UNCHANGED answer
        /\ \A u \in Calls : u # t => batch'[u] = batch[u] /\ pc'[u] = pc[u]
        /\ pc'[t] # "processing" => items = <<>>
    BY <1>4 DEF TakeItems, TypeOK
  <2>2. batch[t] = <<>>
    BY <2>1 DEF Kept
  <2>3. Distinct(items') /\ \A u \in Calls : Distinct(batch'[u]) /\ Apart(items', batch'[u])
    BY <2>1, EmptyFacts DEF Kept
  <2>4. \A u, v \in Calls : u # v => Apart(batch'[u], batch'[v])
    BY <2>1 DEF Kept, Apart
  <2>5. \A u \in Calls : pc'[u] # "processing" => batch'[u] = <<>>
    BY <2>1 DEF Kept
  <2>6. \A d \in Calls : answer'[d] = "idle" => ~In(items', d) /\ \A u \in Calls : ~In(batch'[u], d)
    BY <2>1, EmptyFacts DEF Kept
  <2>7. ASSUME NEW d \in Calls, answer'[d] = "waiting"
        PROVE  \E u \in Calls : In(batch'[u], d)
    <3>1. CASE In(items, d)
      BY <2>1, <3>1
    <3>2. CASE ~In(items, d)
      <4>1. PICK u \in Calls : In(batch[u], d)
        BY <2>1, <2>7, <3>2 DEF Kept
      <4>2. u # t
        BY <2>2, <4>1, EmptyFacts
      <4> QED BY <2>1, <4>1, <4>2
    <3> QED BY <3>1, <3>2
  <2> QED BY <2>3, <2>4, <2>5, <2>6, <2>7 DEF Kept
<1>5. ASSUME NEW t \in Calls, NEW k \in 0..Len(batch[t]), ProcessOk(t, k)
      PROVE  Kept'
  <2> DEFINE given == [i \in 1..Len(batch[t]) |-> IF i <= k THEN batch[t][i] ELSE "dropped"]
  <2>1. /\ answer' = Answered(batch[t], given) /\ batch' = [batch EXCEPT ![t] = <<>>]
        /\ items' = items /\ \A u \in Calls : u # t => pc'[u] = pc[u]
    BY <1>5 DEF ProcessOk, Zipped, queue, TypeOK
  <2>2. batch[t] \in Seq(Calls)
    BY DEF TypeOK
  <2>3. \A i \in 1..Len(batch[t]) : given[i] \notin {"idle", "waiting"}
    BY <2>2, CallsAssumption DEF Outcomes
  <2> HIDE DEF given
  <2> QED BY <2>1, <2>3, BatchEndKeeps
<1>6. ASSUME NEW t \in Calls, ProcessErr(t) \/ ProcessPanic(t)
      PROVE  Kept'
  <2>1. PICK outcome \in {"error", "dropped"} : answer' = All(batch[t], outcome)
    BY <1>6 DEF ProcessErr, ProcessPanic
  <2> DEFINE given == [i \in 1..Len(batch[t]) |-> outcome]
  <2>2. /\ answer' = Answered(batch[t], given) /\ batch' = [batch EXCEPT ![t] = <<>>]
        /\ items' = items /\ \A u \in Calls : u # t => pc'[u] = pc[u]
    BY <1>6, <2>1 DEF ProcessErr, ProcessPanic, All, queue, TypeOK
  <2>3. \A i \in 1..Len(batch[t]) : given[i] \notin {"idle", "waiting"}
    OBVIOUS
  <2> HIDE DEF given
  <2> QED BY <2>2, <2>3, BatchEndKeeps
<1>7. ASSUME NEW t \in Calls, Sleep(t) \/ Finish(t)
      PROVE  Kept'
  <2>1. /\ UNCHANGED <<items, batch, answer>> /\ pc[t] # "processing"
        /\ \A u \in Calls : u # t => pc'[u] = pc[u]
    BY <1>7 DEF Sleep, Finish, queue, TypeOK
  <2> QED BY <2>1 DEF Kept
<1>8. ASSUME Tick \/ (\E cfg \in BatchConfig : SetConfig(cfg)) \/ UNCHANGED vars
      PROVE  Kept'
  BY <1>1, <1>8 DEF Tick, SetConfig, queue, vars
<1> QED
  BY <1>2, <1>3, <1>4, <1>5, <1>6, <1>7, <1>8 DEF Next, TaskStep

(* Answers.  A panic is never forgotten.                                   *)
LEMMA PanicStays ==
  ASSUME TypeOK, Locked, [Next]_vars, Panicked
  PROVE  Panicked'
<1>1. PICK p \in Calls : pc[p] = "panicked"
  BY DEF Panicked
<1>2. processing
  BY <1>1 DEF Locked, Works
<1>3. ASSUME NEW c \in Calls, Call(c) PROVE pc' = pc
  BY <1>2, <1>3 DEF Call, ShouldSchedule
<1>4. ASSUME NEW t \in Calls, TaskStep(t) PROVE pc'[p] = pc[p]
  <2>1. t # p
    BY <1>1, <1>4 DEF TaskStep, Sleep, TakeItems, ProcessOk, ProcessErr, ProcessPanic, Finish
  <2> QED
    BY <1>4, <2>1 DEF TaskStep, Sleep, TakeItems, ProcessOk, ProcessErr, ProcessPanic, Finish, TypeOK
<1>5. pc'[p] = pc[p]
  BY <1>3, <1>4 DEF Next, Tick, Cancel, SetConfig, vars
<1> QED BY <1>1, <1>5 DEF Panicked

(* The answers of the steps that give any: one case per outcome. *)
LEMMA OwnStep ==
  TypeOK /\ Locked /\ AnswersAreOwn /\ [Next]_vars => AnswersAreOwn'
<1> SUFFICES ASSUME TypeOK, Locked, AnswersAreOwn, [Next]_vars, NEW c \in Calls
             PROVE  /\ answer'[c] \in Calls => answer'[c] = c
                    /\ answer'[c] = "dropped" => Panicked' \/ shorted'
  BY DEF AnswersAreOwn
<1>1. Panicked => Panicked'
  BY PanicStays
<1>2. CASE answer'[c] = answer[c] /\ (shorted => shorted')
  BY <1>1, <1>2 DEF AnswersAreOwn
<1>3. ASSUME NEW d \in Calls, Call(d) \/ Cancel(d)
      PROVE  (answer'[c] = answer[c] \/ answer'[c] \in {"waiting", "cancelled"}) /\ shorted' = shorted
  BY <1>3 DEF Call, Cancel, TypeOK
<1>4. ASSUME NEW t \in Calls, NEW k \in 0..Len(batch[t]), ProcessOk(t, k)
      PROVE  /\ answer'[c] \in Calls => answer'[c] = c
             /\ answer'[c] = "dropped" => Panicked' \/ shorted'
  <2> DEFINE given == [i \in 1..Len(batch[t]) |-> IF i <= k THEN batch[t][i] ELSE "dropped"]
  <2>1. answer' = Answered(batch[t], given) /\ shorted' = (shorted \/ k < Len(batch[t]))
    BY <1>4 DEF ProcessOk, Zipped
  <2>2. batch[t] \in Seq(Calls) /\ Len(batch[t]) \in Nat /\ k \in Nat
    BY DEF TypeOK
  <2>3. \A i \in 1..Len(batch[t]) : given[i] = batch[t][i] \/ (given[i] = "dropped" /\ k < Len(batch[t]))
    BY <2>2
  <2> HIDE DEF given
  <2>4. \/ answer'[c] = answer[c] \/ answer'[c] = c
        \/ answer'[c] = "dropped" /\ k < Len(batch[t])
    BY <2>1, <2>2, <2>3, AnsweredValue
  <2> QED BY <1>2, <2>1, <2>4, CallsAssumption DEF Outcomes
<1>5. ASSUME NEW t \in Calls, ProcessErr(t) \/ ProcessPanic(t)
      PROVE  /\ answer'[c] \in Calls => answer'[c] = c
             /\ answer'[c] = "dropped" => Panicked' \/ shorted'
  <2>1. PICK outcome \in {"error", "dropped"} :
           answer' = All(batch[t], outcome) /\ (outcome = "dropped" => Panicked')
    <3>1. CASE ProcessErr(t)
      BY <3>1 DEF ProcessErr
    <3>2. CASE ProcessPanic(t)
      <4>1. pc'[t] = "panicked" /\ answer' = All(batch[t], "dropped")
        BY <3>2 DEF ProcessPanic, TypeOK
      <4> QED BY <4>1 DEF Panicked
    <3> QED BY <1>5, <3>1, <3>2
  <2> DEFINE given == [i \in 1..Len(batch[t]) |-> outcome]
  <2>2. answer' = Answered(batch[t], given) /\ shorted' = shorted
    BY <1>5, <2>1 DEF ProcessErr, ProcessPanic, All
  <2>3. batch[t] \in Seq(Calls) /\ \A i \in 1..Len(batch[t]) : given[i] = outcome
    BY DEF TypeOK
  <2> HIDE DEF given
  <2>4. answer'[c] = answer[c] \/ answer'[c] = outcome
    BY <2>2, <2>3, AnsweredValue
  <2> QED BY <1>2, <2>1, <2>2, <2>4, CallsAssumption DEF Outcomes
<1>6. ASSUME NEW t \in Calls, Sleep(t) \/ TakeItems(t) \/ Finish(t)
      PROVE  answer' = answer /\ shorted' = shorted
  BY <1>6 DEF Sleep, TakeItems, Finish
<1>7. ASSUME Tick \/ (\E cfg \in BatchConfig : SetConfig(cfg)) \/ UNCHANGED vars
      PROVE  answer' = answer /\ shorted' = shorted
  BY <1>7 DEF Tick, SetConfig, vars
<1>8. "waiting" \notin Calls /\ "cancelled" \notin Calls
  BY CallsAssumption DEF Outcomes
<1> QED
  BY <1>2, <1>3, <1>4, <1>5, <1>6, <1>7, <1>8 DEF Next, TaskStep

(* The inductive invariant with the senders and the answers. *)
LEMMA AlwaysKept == Spec => [](TypeOK /\ Locked /\ Kept /\ AnswersAreOwn)
<1>1. Init => Kept /\ AnswersAreOwn
  <2> SUFFICES ASSUME Init PROVE Kept /\ AnswersAreOwn
    OBVIOUS
  <2>1. items = <<>> /\ \A c \in Calls : batch[c] = <<>> /\ answer[c] = "idle" /\ pc[c] = "none"
    BY DEF Init
  <2> QED BY <2>1, EmptyFacts, CallsAssumption DEF Kept, AnswersAreOwn, Outcomes
<1> QED
  BY <1>1, InitLocked, TypeStep, LockedStep, KeptStep, OwnStep, PTL DEF Spec

(* Whatever calls, cancellations and tasks do, the sender of a call that   *)
(* still waits is in one place: the queue, or one batch.                   *)
THEOREM SendersAreKept == Spec => []SenderIsKept
<1>1. TypeOK /\ Kept => SenderIsKept
  <2> SUFFICES ASSUME TypeOK, Kept, NEW c \in Calls, answer[c] = "waiting"
               PROVE  \E h \in Holders(c) : Holders(c) = {h}
    BY DEF SenderIsKept
  <2>1. \A h : h \in Holders(c) <=>
          \/ \E i \in 1..Len(items) : items[i] = c /\ h = <<"queue", i>>
          \/ \E t \in Calls : \E i \in 1..Len(batch[t]) : batch[t][i] = c /\ h = <<t, i>>
    BY DEF Holders
  <2>2. CASE In(items, c)
    <3>1. PICK i \in 1..Len(items) : items[i] = c
      BY <2>2 DEF In
    <3>2. \A j \in 1..Len(items) : items[j] = c => j = i
      BY <3>1 DEF Kept, Distinct
    <3>3. \A t \in Calls : \A j \in 1..Len(batch[t]) : batch[t][j] # c
      BY <2>2 DEF Kept, Apart, In
    <3>4. <<"queue", i>> \in Holders(c)
      BY <2>1, <3>1
    <3>5. \A h \in Holders(c) : h = <<"queue", i>>
      BY <2>1, <3>2, <3>3
    <3> QED BY <3>4, <3>5
  <2>3. CASE ~In(items, c)
    <3>1. PICK t \in Calls : In(batch[t], c)
      BY <2>3 DEF Kept
    <3>2. PICK i \in 1..Len(batch[t]) : batch[t][i] = c
      BY <3>1 DEF In
    <3>3. \A j \in 1..Len(batch[t]) : batch[t][j] = c => j = i
      BY <3>2 DEF Kept, Distinct
    <3>4. \A u \in Calls : u # t => \A j \in 1..Len(batch[u]) : batch[u][j] # c
      BY <3>1 DEF Kept, Apart, In
    <3>5. \A j \in 1..Len(items) : items[j] # c
      BY <2>3 DEF In
    <3>6. <<t, i>> \in Holders(c)
      BY <2>1, <3>2
    <3>7. \A h \in Holders(c) : h = <<t, i>>
      BY <2>1, <3>3, <3>4, <3>5
    <3> QED BY <3>6, <3>7
  <2> QED BY <2>2, <2>3
<1> QED BY <1>1, AlwaysKept, PTL

(* No caller gets another one's result, and none is dropped without a      *)
(* panic or a short answer of the processor.                               *)
THEOREM CallersGetTheirOwn == Spec => []AnswersAreOwn
BY AlwaysKept, PTL

----------------------------------------------------------------------------
(* Pace.  A batch that a call scheduled is due no sooner than its plan     *)
(* says, and a task does not wake before its batch is due.                 *)
Plan == [by : {"none", "call", "task"}, first : Nat, delay : Nat, interval : Nat]

Paced ==
  /\ plan \in Plan
  /\ next_execution # None /\ plan.by = "call" =>
       /\ next_execution >= plan.first + plan.delay
       /\ last_execution # None => next_execution >= last_execution + plan.interval
  /\ \A t \in Calls : pc[t] = "sleeping" => wake[t] >= next_execution

(* Every step keeps the pace: one case per action. *)
LEMMA PacedStep ==
  TypeOK /\ Locked /\ Paced /\ [Next]_vars => Paced'
<1> SUFFICES ASSUME TypeOK, Locked, Paced, [Next]_vars
             PROVE  Paced'
  OBVIOUS
<1>1. /\ now \in Nat /\ config.batch_delay \in Nat /\ config.min_interval \in Nat
      /\ \A t \in Calls : wake[t] \in Nat
      /\ next_execution \in Nat \cup {None} /\ last_execution \in Nat \cup {None}
      /\ pc \in [Calls -> Places] /\ wake \in [Calls -> 0..MaxTime]
  <2>0. config.batch_delay \in Nat /\ config.min_interval \in Nat
    BY BatchAssumption DEF TypeOK, BatchConfig
  <2>1. now \in Nat
    BY BatchAssumption DEF TypeOK
  <2>2. \A k \in 0..MaxTime : k \in Nat
    BY BatchAssumption
  <2>3. pc \in [Calls -> Places] /\ wake \in [Calls -> 0..MaxTime]
    BY DEF TypeOK
  <2>4. next_execution \in Nat \cup {None} /\ last_execution \in Nat \cup {None}
    BY <2>2 DEF TypeOK
  <2>5. \A t \in Calls : wake[t] \in Nat
    BY <2>2, <2>3
  <2> QED BY <2>0, <2>1, <2>3, <2>4, <2>5
<1>2. Unplanned \in Plan /\ Unplanned.by = "none"
  BY DEF Plan, Unplanned
<1>3. ASSUME UNCHANGED <<next_execution, last_execution, pc, wake, plan>>
      PROVE  Paced'
  BY <1>3 DEF Paced
<1>4. ASSUME NEW c \in Calls, Call(c)
      PROVE  Paced'
  <2>1. CASE ShouldSchedule
    <3>1. /\ next_execution' = NextTime /\ pc' = [pc EXCEPT ![c] = "spawned"]
          /\ plan' = [by |-> "call", first |-> now, delay |-> config.batch_delay,
                      interval |-> config.min_interval]
          /\ wake' = wake /\ last_execution' = last_execution
      BY <1>4, <2>1 DEF Call
    <3>2. /\ NextTime >= now + config.batch_delay
          /\ last_execution # None => NextTime >= last_execution + config.min_interval
      BY <1>1 DEF NextTime, Later, None
    <3>3. plan' \in Plan
      BY <1>1, <3>1 DEF Plan
    <3>4. \A t \in Calls : pc'[t] # "sleeping"
      BY <1>1, <2>1, <3>1 DEF ShouldSchedule, Locked, Waits
    <3> QED BY <3>1, <3>2, <3>3, <3>4 DEF Paced
  <2>2. CASE ~ShouldSchedule
    BY <1>3, <1>4, <2>2 DEF Call
  <2> QED BY <2>1, <2>2
<1>5. ASSUME NEW t \in Calls, Sleep(t)
      PROVE  Paced'
  <2>1. next_execution # None
    BY <1>5 DEF Sleep, Locked, Waits
  <2>2. /\ pc' = [pc EXCEPT ![t] = "sleeping"] /\ wake' = [wake EXCEPT ![t] = WaitUntil]
        /\ UNCHANGED <<next_execution, last_execution, plan>>
    BY <1>5, <2>1 DEF Sleep, queue
  <2>3. WaitUntil >= next_execution
    BY <1>1, <2>1 DEF WaitUntil, Later
  <2> QED BY <1>1, <2>2, <2>3 DEF Paced
<1>6. ASSUME NEW t \in Calls, TakeItems(t)
      PROVE  Paced'
  <2>1. next_execution' = None /\ plan' = Unplanned
    BY <1>6 DEF TakeItems
  <2>2. \A u \in Calls : pc'[u] # "sleeping"
    <3>1. \A u \in Calls : u # t => pc[u] # "sleeping"
      BY <1>6 DEF TakeItems, Locked, Waits
    <3> QED BY <1>1, <1>6, <3>1 DEF TakeItems
  <2> QED BY <1>2, <2>1, <2>2 DEF Paced
<1>7. ASSUME NEW t \in Calls, UNCHANGED <<queue, wake, plan>>,
             NEW q \in {"finishing", "panicked"}, pc' = [pc EXCEPT ![t] = q]
      PROVE  Paced'
  <2>1. \A u \in Calls : pc'[u] = "sleeping" => pc[u] = "sleeping"
    BY <1>1, <1>7
  <2> QED BY <1>7, <2>1 DEF queue, Paced
<1>8. ASSUME NEW t \in Calls, Finish(t)
      PROVE  Paced'
  <2>1. /\ next_execution = None
        /\ \A u \in Calls : pc[u] # "sleeping"
    BY <1>8 DEF Finish, Locked, Waits, Works
  <2>2. \A u \in Calls : pc'[u] # "sleeping"
    BY <1>1, <1>8, <2>1 DEF Finish
  <2>3. CASE items # <<>>
    <3>1. plan' = [Unplanned EXCEPT !.by = "task"]
      BY <1>8, <2>1, <2>3 DEF Finish
    <3>2. plan' \in Plan /\ plan'.by = "task"
      BY <3>1 DEF Plan, Unplanned
    <3> QED BY <2>2, <3>2 DEF Paced
  <2>4. CASE items = <<>>
    <3>1. next_execution' = None /\ plan' = plan
      BY <1>8, <2>1, <2>4 DEF Finish
    <3> QED BY <2>2, <3>1 DEF Paced
  <2> QED BY <2>3, <2>4
<1>9. ASSUME NEW t \in Calls, TaskStep(t)
      PROVE  Paced'
  <2>1. CASE \E k \in 0..Len(batch[t]) : ProcessOk(t, k)
    BY <2>1, <1>7 DEF ProcessOk
  <2>2. CASE ProcessErr(t)
    BY <2>2, <1>7 DEF ProcessErr
  <2>3. CASE ProcessPanic(t)
    BY <2>3, <1>7 DEF ProcessPanic
  <2> QED BY <1>5, <1>6, <1>8, <1>9, <2>1, <2>2, <2>3 DEF TaskStep
<1>10. ASSUME \/ Tick \/ (\E cfg \in BatchConfig : SetConfig(cfg))
              \/ (\E c \in Calls : Cancel(c)) \/ UNCHANGED vars
       PROVE  Paced'
  BY <1>3, <1>10 DEF Tick, SetConfig, Cancel, queue, vars
<1> QED BY <1>4, <1>9, <1>10 DEF Next

(* call and schedule_next_batch: a batch that a call scheduled starts no   *)
(* sooner than the delay after the first item and the interval after the   *)
(* batch before it, with the numbers of the config of that call, however   *)
(* often the config changes meanwhile.                                     *)
THEOREM BatchesArePaced == Spec => CalledBatchesArePaced
<1> DEFINE Due == \A t \in Calls :
                    pc[t] = "sleeping" /\ pc'[t] # "sleeping" /\ plan.by = "call" =>
                      /\ now >= plan.first + plan.delay
                      /\ last_execution # None => now >= last_execution + plan.interval
<1>1. TypeOK /\ Locked /\ Paced /\ [Next]_vars => [Due]_vars
  <2> SUFFICES ASSUME TypeOK, Locked, Paced, [Next]_vars, NEW t \in Calls,
                      pc[t] = "sleeping", pc'[t] # "sleeping", plan.by = "call"
               PROVE  /\ now >= plan.first + plan.delay
                      /\ last_execution # None => now >= last_execution + plan.interval
    OBVIOUS
  <2>1. pc \in [Calls -> Places]
    BY DEF TypeOK
  <2>2. ASSUME NEW u \in Calls, TaskStep(u) PROVE TakeItems(t)
    BY <2>1, <2>2 DEF TaskStep, Sleep, TakeItems, ProcessOk, ProcessErr, ProcessPanic, Finish
  <2>3. ASSUME NEW c \in Calls, Call(c) PROVE FALSE
    <3>1. next_execution # None
      BY DEF Locked, Waits
    <3> QED BY <2>3, <3>1 DEF Call, ShouldSchedule
  <2>4. TakeItems(t)
    BY <2>2, <2>3 DEF Next, Tick, Cancel, SetConfig, vars
  <2>5. now >= wake[t] /\ wake[t] >= next_execution /\ next_execution # None
    BY <2>4 DEF TakeItems, Paced, Locked, Waits
  <2>6. /\ now \in Nat /\ wake[t] \in Nat /\ next_execution \in Nat
        /\ last_execution # None => last_execution \in Nat
        /\ plan.first \in Nat /\ plan.delay \in Nat /\ plan.interval \in Nat
    BY <2>5, BatchAssumption DEF TypeOK, Paced, Plan
  <2>7. /\ next_execution >= plan.first + plan.delay
        /\ last_execution # None => next_execution >= last_execution + plan.interval
    BY <2>5 DEF Paced
  <2> QED BY <2>5, <2>6, <2>7
<1>2. Init => Paced
  BY DEF Init, Paced, Plan, Unplanned
<1>3. Spec => [](TypeOK /\ Locked /\ Paced)
  BY <1>2, InitLocked, TypeStep, LockedStep, PacedStep, PTL DEF Spec
<1> QED BY <1>1, <1>3, PTL DEF Spec, CalledBatchesArePaced

----------------------------------------------------------------------------
(* Transactions, circuits and bindings. *)

CircuitInput == [note : CircuitNote, secret_key : Base]

(* Two and three numbers below the limit add up as integers do. *)
LEMMA SmallSumsDoNotWrap ==
  ASSUME NEW a \in Nat, NEW b \in Nat, NEW d \in Nat, a < Limit, b < Limit, d < Limit
  PROVE  plus(a, b) = a + b /\ plus(a + b, d) = a + b + d
<1>1. \A k, m \in Nat : k < m => k % m = k
  BY SMT
<1>2. /\ Modulus \in Nat /\ a + b \in Nat /\ a + b + d \in Nat
      /\ a + b < Modulus /\ a + b + d < Modulus
  BY LimitAssumption, ModulusAssumption
<1> QED BY <1>1, <1>2 DEF plus

(* The circuit of a transaction conserves value over the integers, not     *)
(* only in the field: no sum wraps, when the notes that go in are below    *)
(* the limit, and the notes that come out are below it again, so that they *)
(* may go in (utxo_lib, assert_max_bit_size).                              *)
THEOREM AcceptedConserves ==
  ASSUME NEW ins \in [1..2 -> CircuitInput], NEW outs \in [1..2 -> CircuitNote],
         NEW p \in Base, NEW c, NEW m \in [1..5 -> Base],
         utxo_main(ins, outs, p, c, m),
         ins[1].note.value < Limit, ins[2].note.value < Limit
  PROVE  LET in  == ins[1].note.value + ins[2].note.value
             out == outs[1].value + outs[2].value
         IN  /\ outs[1].value < Limit /\ outs[2].value < Limit
             /\ m[1] = 1 => out = in
             /\ m[1] = 2 => out = in + m[3]
             /\ m[1] = 3 => in = out + m[3]
             /\ m[1] \in 1..3
<1>1. Base \subseteq Nat
  BY ModulusAssumption DEF Base
<1>2. /\ ins[1].note.value \in Nat /\ ins[2].note.value \in Nat
      /\ outs[1].value \in Nat /\ outs[2].value \in Nat /\ m[3] \in Nat
  <2>1. ins[1] \in CircuitInput /\ ins[2] \in CircuitInput
    OBVIOUS
  <2>2. outs[1] \in CircuitNote /\ outs[2] \in CircuitNote /\ m[3] \in Base
    OBVIOUS
  <2> QED BY <1>1, <2>1, <2>2 DEF CircuitInput, CircuitNote
<1>3. outs[1].value < Limit /\ outs[2].value < Limit /\ m[3] < Limit
  BY DEF utxo_main, sizes_ok
<1>4. /\ circuit_in(ins) = ins[1].note.value + ins[2].note.value
      /\ circuit_out(outs) = outs[1].value + outs[2].value
      /\ plus(circuit_in(ins), m[3]) = ins[1].note.value + ins[2].note.value + m[3]
      /\ plus(circuit_out(outs), m[3]) = outs[1].value + outs[2].value + m[3]
  BY <1>2, <1>3, SmallSumsDoNotWrap DEF circuit_in, circuit_out
<1>5. \/ m[1] = 1 /\ circuit_in(ins) = circuit_out(outs)
      \/ m[1] = 2 /\ circuit_out(outs) = plus(circuit_in(ins), m[3])
      \/ m[1] = 3 /\ circuit_in(ins) = plus(circuit_out(outs), m[3])
  BY DEF utxo_main, balance_ok, send_ok, mint_ok, burn_ok
<1>6. CASE m[1] = 1
  BY ONLY <1>2, <1>3, <1>4, <1>5, <1>6
<1>7. CASE m[1] = 2
  BY ONLY <1>2, <1>3, <1>4, <1>5, <1>7
<1>8. CASE m[1] = 3
  BY ONLY <1>2, <1>3, <1>4, <1>5, <1>8
<1> QED BY ONLY <1>5, <1>6, <1>7, <1>8

(* The notes of an accepted transaction that are worth something are of    *)
(* one token, and every input worth something is spent with the key of its *)
(* address.                                                                *)
THEOREM AcceptedIsOneToken ==
  ASSUME NEW ins, NEW outs, NEW p, NEW c, NEW m, utxo_main(ins, outs, p, c, m)
  PROVE  /\ \A i \in 1..2, j \in 1..2 :
              /\ ins[i].note.value # 0 /\ outs[j].value # 0
              => ins[i].note.kind = outs[j].kind /\ outs[j].kind # 0
         /\ \A i \in 1..2 :
              ins[i].note.value # 0 => ins[i].note.address = Hash(<<ins[i].secret_key, 0>>)
<1> DEFINE four == <<ins[1].note, ins[2].note, outs[1], outs[2]>>
<1>1. \A i \in 1..2 : ins[i].note.kind = 0 => ins[i].note.value = 0
  BY DEF utxo_main, commitments_ok, check_commitment, note_commitment_ok
<1>2. \A j \in 1..2 : outs[j].kind = 0 => outs[j].value = 0
  BY DEF utxo_main, commitments_ok, check_commitment, note_commitment_ok
<1>3. \A i, j \in 1..4 : four[i].kind # 0 /\ four[j].kind # 0 => four[i].kind = four[j].kind
  <2>1. DOMAIN four = 1..4
    OBVIOUS
  <2>2. ~is_multiple_kinds(four)
    BY DEF utxo_main, kinds_ok
  <2> HIDE DEF four
  <2> QED BY <2>1, <2>2 DEF is_multiple_kinds
<1>4. \A i \in 1..2, j \in 1..2 :
        ins[i].note.kind # 0 /\ outs[j].kind # 0 => ins[i].note.kind = outs[j].kind
  <2>1. four[1] = ins[1].note /\ four[2] = ins[2].note /\ four[3] = outs[1] /\ four[4] = outs[2]
    OBVIOUS
  <2> HIDE DEF four
  <2> QED BY <1>3, <2>1
<1>5. \A i \in 1..2 : ins[i].note.value # 0 => ins[i].note.address = Hash(<<ins[i].secret_key, 0>>)
  BY DEF utxo_main, check_input_note_ownership, get_address
<1> QED BY <1>1, <1>2, <1>4, <1>5

----------------------------------------------------------------------------
(* A number the circuit takes for 0 is 0, for the numbers of a program     *)
(* that keeps them in the field.                                           *)
LEMMA CanonicalIsFixed ==
  ASSUME NEW e \in Base
  PROVE  to_base(e) = e
<1>1. \A k, m \in Nat : k < m => k % m = k
  BY SMT
<1> QED BY <1>1, ModulusAssumption DEF to_base, Base

LEMMA ToBaseIsField == \A e \in U256 : to_base(e) \in Base
<1>1. \A k, m \in Nat : 0 < m => k % m \in 0..(m - 1)
  BY SMT
<1>2. Modulus \in Nat /\ 0 < Modulus /\ U256 \subseteq Nat
  BY ModulusAssumption DEF U256
<1> QED BY <1>1, <1>2 DEF to_base, Base

(* A note's commitment is computed twice, by the client and by the         *)
(* circuit: the two agree for every note of format 2 that has both a token *)
(* and a value, or neither.  Not for the other notes: with a value and no  *)
(* token the circuit takes the commitment for 0, with a token and no value *)
(* the client does (note.rs commitment, common get_note_commitment).       *)
THEOREM CommitmentsAgree ==
  ASSUME HashIsField, 2 < Modulus, NEW n \in Note, n.kind = 2,
         to_base(n.contract) = 0 <=> n.value = 0
  PROVE  get_note_commitment(circuit_note(n)) = to_base(commitment(n))
<1>1. 2 \in Base /\ 0 \in Base
  BY ModulusAssumption DEF Base
<1>2. to_base(2) = 2 /\ to_base(0) = 0
  BY <1>1, CanonicalIsFixed
<1>3. CASE n.value = 0
  <2>1. commitment(n) = 0 /\ circuit_note(n).kind = 0
    BY <1>3 DEF commitment, circuit_note
  <2> QED BY <2>1, <1>2 DEF get_note_commitment
<1>4. CASE n.value # 0
  <2> DEFINE s == <<2, to_base(n.contract), to_base(n.value), to_base(n.address), to_base(n.psi), 0, 0>>
  <2>1. to_bases(<<n.kind, n.contract, n.value, n.address, n.psi, 0, 0>>) = s
    BY <1>2 DEF to_bases
  <2>2. n.contract \in U256 /\ n.value \in U256 /\ n.address \in U256 /\ n.psi \in U256
    BY DEF Note
  <2>3. s \in Seq(Base)
    BY <1>1, <2>2, ToBaseIsField
  <2>4. Hash(s) \in Base
    BY <2>3 DEF HashIsField
  <2>5. to_base(Hash(s)) = Hash(s)
    BY <2>4, CanonicalIsFixed
  <2>6. commitment(n) = Hash(s)
    BY <1>4, <2>1 DEF commitment, hash_merge, from_base
  <2>7. get_note_commitment(circuit_note(n)) = Hash(s)
    BY <1>4 DEF get_note_commitment, circuit_note
  <2> QED BY <2>5, <2>6, <2>7
<1> QED BY <1>3, <1>4

----------------------------------------------------------------------------
(* What a client may put into a transaction in token t: a padding note, or *)
(* a note of that token that is worth something.                           *)
Sound(n, t) ==
  /\ n \in Note /\ n.kind = 2 /\ n.value < Limit
  /\ \/ n.contract = 0 /\ n.value = 0
     \/ n.contract = t /\ n.value # 0

Owned(i) == i.note.value # 0 => i.note.address = get_address_for_private_key(i.secret_key)

(* A sound note passes the circuit's checks against the client's           *)
(* commitment, with its value as it is.                                    *)
LEMMA SoundNotePasses ==
  ASSUME HashIsField, 2 < Modulus, NEW t \in Base \ {0}, NEW n, Sound(n, t)
  PROVE  /\ check_commitment(circuit_note(n), to_base(commitment(n)))
         /\ circuit_note(n).value = n.value
         /\ circuit_note(n).kind \in {0, t}
<1>1. n.value \in Base /\ 0 \in Base /\ n.contract \in Base
  BY LimitAssumption, ModulusAssumption DEF Sound, Note, U256, Base
<1>2. to_base(n.value) = n.value /\ to_base(n.contract) = n.contract
  BY <1>1, CanonicalIsFixed
<1>3. to_base(n.contract) = 0 <=> n.value = 0
  BY <1>2 DEF Sound
<1>4. get_note_commitment(circuit_note(n)) = to_base(commitment(n))
  BY <1>3, CommitmentsAgree DEF Sound
<1>5. circuit_note(n).value = n.value /\ circuit_note(n).kind = n.contract
  BY <1>2 DEF circuit_note
<1>6. note_commitment_ok(circuit_note(n))
  BY <1>5, <1>2, <1>3 DEF note_commitment_ok
<1>7. n.contract \in {0, t}
  BY DEF Sound
<1> QED BY <1>4, <1>5, <1>6, <1>7 DEF check_commitment

(* The client's address of a key is the circuit's. *)
LEMMA OwnedNotePasses ==
  ASSUME HashIsField, NEW t \in Base \ {0}, 2 < Modulus, NEW i \in InputNote, Sound(i.note, t), Owned(i)
  PROVE  check_input_note_ownership(circuit_input(i))
<1>1. i.secret_key \in U256 /\ 0 \in Base
  BY ModulusAssumption DEF InputNote, Base
<1>2. to_base(0) = 0 /\ to_base(i.secret_key) \in Base
  BY <1>1, CanonicalIsFixed, ToBaseIsField
<1> DEFINE k == to_base(i.secret_key)
<1>3. <<k, 0>> \in Seq(Base)
  BY <1>1, <1>2
<1>4. Hash(<<k, 0>>) \in Base
  BY <1>3 DEF HashIsField
<1>5. to_base(Hash(<<k, 0>>)) = Hash(<<k, 0>>)
  BY <1>4, CanonicalIsFixed
<1>6. to_bases(<<i.secret_key, 0>>) = <<k, 0>>
  BY <1>2 DEF to_bases
<1>7. get_address_for_private_key(i.secret_key) = Hash(<<k, 0>>)
  BY <1>6 DEF get_address_for_private_key, hash_merge, from_base
<1>8. /\ circuit_input(i).note.value = i.note.value
      /\ circuit_input(i).note.address = to_base(i.note.address)
      /\ circuit_input(i).secret_key = k
  BY SoundNotePasses DEF circuit_input, circuit_note
<1>9. i.note.value # 0 => to_base(i.note.address) = Hash(<<k, 0>>)
  BY <1>5, <1>7 DEF Owned
<1> QED BY <1>8, <1>9 DEF check_input_note_ownership, get_address

(* The circuit accepts every transfer that a client builds of sound notes  *)
(* of one token, with the keys of their addresses, and that adds up: no    *)
(* value below the limit and no hash stands in its way (Utxo::new_send,    *)
(* utxo_lib).                                                              *)
THEOREM HonestSendsAreAccepted ==
  ASSUME HashIsField, 2 < Modulus, NEW t \in Base \ {0},
         NEW i1 \in InputNote, NEW i2 \in InputNote, NEW o1, NEW o2,
         Sound(i1.note, t), Sound(i2.note, t), Sound(o1, t), Sound(o2, t), Owned(i1), Owned(i2),
         i1.note.value + i2.note.value = o1.value + o2.value
  PROVE  utxo_accepts(new_send(<<i1, i2>>, <<o1, o2>>))
<1> DEFINE u == new_send(<<i1, i2>>, <<o1, o2>>)
           ins == <<circuit_input(i1), circuit_input(i2)>>
           outs == <<circuit_note(o1), circuit_note(o2)>>
           c == <<to_base(commitment(i1.note)), to_base(commitment(i2.note)),
                  to_base(commitment(o1)), to_base(commitment(o2))>>
           m == <<1, 0, 0, 0, 0>>
<1>1. 0 \in Base /\ 1 \in Base
  BY ModulusAssumption DEF Base
<1>2. to_base(0) = 0 /\ to_base(1) = 1
  BY <1>1, CanonicalIsFixed
<1>3. /\ u.kind = "Send" /\ u.input_notes = <<i1, i2>> /\ u.output_notes = <<o1, o2>>
      /\ utxo_messages(u) = m
  BY DEF new_send, new_utxo, utxo_messages
<1>4. /\ utxo_input(u).input_notes = ins /\ utxo_input(u).output_notes = outs
      /\ utxo_input(u).commitments = c /\ utxo_input(u).messages = m
      /\ utxo_input(u).pmessage4 = 0
  <2> HIDE DEF u
  <2>1. leaf_elements(u) = <<commitment(i1.note), commitment(i2.note), commitment(o1), commitment(o2)>>
    BY <1>3 DEF leaf_elements
  <2>2. to_bases(leaf_elements(u)) = c /\ to_bases(utxo_messages(u)) = m
    BY <1>2, <1>3, <2>1 DEF to_bases
  <2>3. [j \in 1..2 |-> circuit_input(u.input_notes[j])] = ins
    BY <1>3
  <2>4. [j \in 1..2 |-> circuit_note(u.output_notes[j])] = outs
    BY <1>3
  <2>5. to_base(utxo_messages(u)[5]) = 0
    BY <1>2, <1>3
  <2> QED BY <2>2, <2>3, <2>4, <2>5 DEF utxo_input
<1>5. commitments_ok(ins, outs, c)
  <2>1. ins[1].note = circuit_note(i1.note) /\ ins[2].note = circuit_note(i2.note)
    BY DEF circuit_input
  <2> QED BY <2>1, SoundNotePasses DEF commitments_ok
<1>6. /\ ins[1].note.value = i1.note.value /\ ins[2].note.value = i2.note.value
      /\ outs[1].value = o1.value /\ outs[2].value = o2.value
  BY SoundNotePasses DEF circuit_input
<1>7. /\ i1.note.value < Limit /\ i2.note.value < Limit /\ o1.value < Limit /\ o2.value < Limit
      /\ i1.note.value \in Nat /\ i2.note.value \in Nat /\ o1.value \in Nat /\ o2.value \in Nat
  BY DEF Sound, Note, U256
<1>8. sizes_ok(outs, m)
  BY <1>6, <1>7, LimitAssumption DEF sizes_ok
<1>9. kinds_ok(ins, outs)
  <2>1. /\ ins[1].note.kind \in {0, t} /\ ins[2].note.kind \in {0, t}
        /\ outs[1].kind \in {0, t} /\ outs[2].kind \in {0, t}
    BY SoundNotePasses DEF circuit_input
  <2> DEFINE four == <<ins[1].note, ins[2].note, outs[1], outs[2]>>
  <2>2. DOMAIN four = 1..4 /\ \A j \in 1..4 : four[j].kind \in {0, t}
    BY <2>1
  <2> HIDE DEF four
  <2>3. ~is_multiple_kinds(four)
    BY <2>2 DEF is_multiple_kinds
  <2> QED BY <2>3 DEF kinds_ok, four
<1>10. balance_ok(ins, outs, 0, c, m)
  <2>1. circuit_in(ins) = plus(i1.note.value, i2.note.value) /\ circuit_out(outs) = plus(o1.value, o2.value)
    BY <1>6 DEF circuit_in, circuit_out
  <2>2. circuit_in(ins) = circuit_out(outs)
    BY <2>1 DEF plus
  <2> QED BY <2>2 DEF balance_ok, send_ok
<1>11. check_input_note_ownership(ins[1]) /\ check_input_note_ownership(ins[2])
  BY OwnedNotePasses
<1> HIDE DEF ins, outs, c, m, u
<1>12. utxo_main(ins, outs, 0, c, m)
  BY <1>5, <1>8, <1>9, <1>10, <1>11 DEF utxo_main
<1>13. utxo_accepts(u)
  BY <1>4, <1>12 DEF utxo_accepts
<1> QED BY <1>13 DEF u

----------------------------------------------------------------------------
(* Splitting a string of fields and putting it together again is nothing   *)
(* at all, wherever it is split: a wrong count in a wrapper does not       *)
(* change the proof that is sent (prove and to_bytes of each circuit).     *)
THEOREM SplittingIsUndone ==
  ASSUME NEW T, NEW bytes \in Seq(T), NEW n \in 0..Len(bytes)
  PROVE  to_bytes(split_at(bytes, n)) = bytes
<1> DEFINE front == SubSeq(bytes, 1, n)
           back  == SubSeq(bytes, n + 1, Len(bytes))
<1>1. front \in Seq(T) /\ Len(front) = n /\ \A i \in 1..n : front[i] = bytes[i]
  OBVIOUS
<1>2. /\ back \in Seq(T) /\ Len(back) = Len(bytes) - n
      /\ \A i \in 1..(Len(bytes) - n) : back[i] = bytes[n + i]
  OBVIOUS
<1> HIDE DEF front, back
<1>3. /\ front \o back \in Seq(T) /\ Len(front \o back) = Len(bytes)
      /\ \A i \in 1..Len(bytes) : (front \o back)[i] = bytes[i]
  <2>1. /\ front \o back \in Seq(T) /\ Len(front \o back) = Len(front) + Len(back)
        /\ \A i \in 1..(Len(front) + Len(back)) :
             (front \o back)[i] = IF i <= Len(front) THEN front[i] ELSE back[i - Len(front)]
    BY <1>1, <1>2, ConcatProperties
  <2>2. Len(front) + Len(back) = Len(bytes)
    BY <1>1, <1>2
  <2>3. ASSUME NEW i \in 1..Len(bytes) PROVE (front \o back)[i] = bytes[i]
    <3>1. CASE i <= n
      BY <2>1, <2>2, <3>1, <1>1
    <3>2. CASE ~(i <= n)
      <4>1. i - n \in 1..(Len(bytes) - n) /\ n + (i - n) = i
        BY <3>2
      <4>2. back[i - n] = bytes[i]
        BY <4>1, <1>2
      <4> QED BY <2>1, <2>2, <3>2, <4>2, <1>1
    <3> QED BY <3>1, <3>2
  <2> QED BY <2>1, <2>2, <2>3
<1>4. front \o back = bytes
  <2> DEFINE both == front \o back
  <2>1. both \in Seq(T) /\ Len(both) = Len(bytes) /\ \A i \in 1..Len(bytes) : both[i] = bytes[i]
    BY <1>3
  <2> HIDE DEF both
  <2>2. both = bytes
    BY <2>1
  <2> QED BY <2>2 DEF both
<1> QED BY <1>4 DEF to_bytes, split_at, front, back

(* What the library proves it verifies, when the wrapper's count is the    *)
(* circuit's.                                                              *)
THEOREM ProvedIsVerified ==
  ASSUME NEW T, NEW circuit, NEW public \in Seq(T), Rest(circuit, public) \in Seq(T),
         public_inputs_of(circuit) \in Nat, Len(public) = public_inputs_of(circuit)
  PROVE  \A p \in proofs_of(circuit, public_inputs_of(circuit), TRUE, public) :
           rs_verify(circuit, to_bytes(p)) /\ p.public_inputs = public
<1> DEFINE n == public_inputs_of(circuit)
           rest == Rest(circuit, public)
           bytes == public \o rest
<1>1. proofs_of(circuit, n, TRUE, public) = {split_at(bytes, n)}
  BY DEF proofs_of, prove, execute, backend_prove
<1>2. bytes \in Seq(T) /\ Len(bytes) = n + Len(rest) /\ n \in 0..Len(bytes)
  OBVIOUS
<1>3. SubSeq(bytes, 1, n) = public /\ SubSeq(bytes, n + 1, Len(bytes)) = rest
  OBVIOUS
<1>4. to_bytes(split_at(bytes, n)) = bytes
  BY <1>2, SplittingIsUndone
<1>5. split_at(bytes, n).public_inputs = public /\ split_at(bytes, n).proof = rest
  BY <1>3 DEF split_at
<1>6. rs_verify(circuit, bytes)
  BY <1>2, <1>5 DEF rs_verify, bb_verify
<1> QED BY <1>1, <1>4, <1>5, <1>6

(* The command line's verifier, which takes nine fields for public inputs  *)
(* whatever the circuit, accepts no string for a circuit with another      *)
(* count (bb_cli.rs verify).                                               *)
THEOREM OnlyUtxoOnTheCommandLine ==
  ASSUME NEW T, NEW bytes \in Seq(T), NEW circuit \in Circuit, circuit # "utxo"
  PROVE  ~cli_verify(circuit, bytes)
<1>1. public_inputs_of(circuit) # 9
  BY DEF Circuit, public_inputs_of
<1>2. Len(bytes) >= 9 => Len(SubSeq(bytes, 1, 9)) = 9
  OBVIOUS
<1> QED BY <1>1, <1>2 DEF cli_verify, bb_verify, split_at, UTXO_PUBLIC_INPUTS_COUNT

(* The wrapper of the inclusion proof takes 705 fields for public inputs   *)
(* where the circuit has 686: it verifies no proof                         *)
(* (HyliSmtInclProof::verify).                                             *)
THEOREM InclusionNeverVerifies ==
  ASSUME NEW T, NEW p, to_bytes(p) \in Seq(T)
  PROVE  ~smt_incl_verify(p)
<1>1. Len(to_bytes(p)) >= 705 => Len(SubSeq(to_bytes(p), 1, 705)) = 705
  OBVIOUS
<1> QED BY <1>1 DEF smt_incl_verify, verify_with_bb, bb_verify, split_at, public_inputs_of,
                    HYLI_SMT_INCL_PUBLIC_INPUTS_COUNT

(* No proof of utxo that the program makes goes into the aggregation       *)
(* circuit: making one asserts 456 fields, the circuit's array has 508     *)
(* (UtxoProof, AggUtxoProofInput).                                         *)
THEOREM AggregatingPanics ==
  ASSUME NEW u, ~utxo_prove_panics(u), NEW proof \in utxo_prove(u), NEW paths
  PROVE  bundle_input_panics(bundle(proof, paths))
<1>1. Len(proof.proof) = 456
  BY DEF utxo_prove_panics, UTXO_PROOF_SIZE
<1>2. bundle(proof, paths).utxo_proof = proof
  BY DEF bundle
<1> DEFINE b == bundle(proof, paths)
<1>3. b.utxo_proof = proof
  BY <1>2
<1> HIDE DEF b
<1>4. Len(b.utxo_proof.proof) = 456
  BY ONLY <1>1, <1>3
<1>5. bundle_input_panics(b)
  BY <1>4 DEF bundle_input_panics, AggProofFields
<1> QED BY <1>5 DEF b

----------------------------------------------------------------------------
(* An aggregation of two real aggregations is one move of the tree: it     *)
(* starts where the first started, the second starts where the first       *)
(* ended, and it ends where the second ended (agg_agg main).               *)
THEOREM AggregationsAreMoves ==
  ASSUME NEW proofs, NEW old_root, NEW new_root, NEW commit_hash, NEW messages,
         agg_agg_main(proofs, old_root, new_root, commit_hash, messages),
         proofs[1].old_root # 0
  PROVE  /\ old_root = proofs[1].old_root
         /\ proofs[2].old_root = 0 => new_root = proofs[1].new_root
         /\ proofs[2].old_root # 0 => /\ proofs[2].old_root = proofs[1].new_root
                                      /\ new_root = proofs[2].new_root
BY DEF agg_agg_main


(***************************************************************************)
(* Signed elements.                                                        *)
(***************************************************************************)
(* The sizes of the word: Half, Word, its powers and the modulus.          *)
LEMMA WordFacts ==
  /\ Half \in Nat /\ Half > 0
  /\ Word \in Nat /\ Word > 1
  /\ Word * Word \in Nat /\ Word * Word > Word
  /\ Top \in Nat /\ Top > Word
  /\ Modulus \in Nat /\ Modulus > 0 /\ Modulus < Top
<1>1. Half \in Nat /\ Half > 0 /\ Word \in Nat /\ Word > 1
  BY HalfAssumption, SMT DEF Word
<1>2. \A m, n \in Nat : m > 1 /\ n > 1 => m * n \in Nat /\ m * n > m /\ m * n > n
  BY SMT
<1> DEFINE W2 == Word * Word
           W3 == W2 * Word
<1>3. W2 \in Nat /\ W2 > Word
  BY <1>1, <1>2
<1>4. W3 \in Nat /\ W3 > W2
  <2> HIDE DEF W2
  <2> QED BY <1>1, <1>2, <1>3, SMT
<1>5. W3 * Word \in Nat /\ W3 * Word > W3
  <2> HIDE DEF W3
  <2> QED BY <1>1, <1>2, <1>3, <1>4, SMT
<1>6. Top \in Nat /\ Top > Word
  <2>1. Top = W3 * Word
    BY DEF Top
  <2> HIDE DEF W2, W3
  <2> QED BY <2>1, <1>1, <1>3, <1>4, <1>5, SMT
<1>3a. Modulus \in Nat /\ Modulus > 0 /\ Modulus < Top
  <2> HIDE DEF W2, W3
  <2> QED BY <1>6, ModulusAssumption, SMT
<1> QED BY <1>1, <1>3, <1>6, <1>3a

LEMMA WrapFits ==
  ASSUME NEW n \in U256
  PROVE  Wrap(n) = n
<1>1. Top \in Nat /\ Top > 0
  BY WordFacts, SMT
<1>2. n \in Nat /\ n < Top
  BY <1>1 DEF U256
<1>3. \A k, m \in Nat : k < m => k % m = k
  BY SMT
<1> QED BY <1>1, <1>2, <1>3 DEF Wrap

LEMMA SignedIsNormal ==
  ASSUME NEW v \in U256, NEW b \in BOOLEAN
  PROVE  /\ signed(v, b) \in Normal
         /\ signed(v, b).value = v
         /\ b => IntOf(signed(v, b)) = 0 - v
         /\ ~b => IntOf(signed(v, b)) = v
<1>1. v \in Int
  BY WordFacts, SMT DEF U256
<1>2. signed(v, b) = [value |-> v, negative |-> b /\ v # 0]
  BY DEF signed
<1>3. CASE v = 0
  <2>1. signed(v, b) = [value |-> 0, negative |-> FALSE]
    BY <1>2, <1>3
  <2>2. [value |-> 0, negative |-> FALSE] \in Normal
    BY <1>3 DEF Normal, SignedElements
  <2>3. IntOf(signed(v, b)) = 0
    BY <2>1 DEF IntOf
  <2>4. (0 - v) = 0
    BY <1>3, SMT
  <2> QED BY <2>1, <2>2, <2>3, <2>4, <1>3
<1>4. CASE v # 0
  <2>1. signed(v, b) = [value |-> v, negative |-> b]
    BY <1>2, <1>4
  <2>2. [value |-> v, negative |-> b] \in Normal
    BY <1>4 DEF Normal, SignedElements
  <2> QED BY <2>1, <2>2 DEF IntOf
<1> QED BY <1>3, <1>4

LEMMA NormalParts ==
  ASSUME NEW s \in Normal
  PROVE  /\ s.value \in U256 /\ s.value \in Nat /\ s.negative \in BOOLEAN
         /\ s.negative => s.value # 0 /\ IntOf(s) = 0 - s.value
         /\ ~s.negative => IntOf(s) = s.value
<1>1. s \in SignedElements /\ (s.negative => s.value # 0)
  BY DEF Normal
<1>2. s.value \in U256 /\ s.negative \in BOOLEAN
  BY <1>1 DEF SignedElements
<1>3. s.value \in Nat
  BY <1>2, WordFacts, SMT DEF U256
<1>4. /\ s.negative => IntOf(s) = 0 - s.value
      /\ ~s.negative => IntOf(s) = s.value
  BY DEF IntOf
<1> QED BY <1>1, <1>2, <1>3, <1>4

LEMMA ZeroIsNormal == ZERO \in Normal /\ IntOf(ZERO) = 0
<1>1. 0 \in U256
  BY WordFacts, SMT DEF U256
<1>2. ZERO = [value |-> 0, negative |-> FALSE] /\ ZERO.negative = FALSE
  BY DEF ZERO
<1>3. ZERO \in Normal
  BY <1>1, <1>2 DEF Normal, SignedElements
<1> QED BY <1>2, <1>3 DEF IntOf, ZERO

----------------------------------------------------------------------------
(* Addition is that of the integers whenever the result has a magnitude    *)
(* that fits (impl Add, signed_element.rs), and never makes a second zero. *)
THEOREM AddIsInteger ==
  ASSUME NEW s \in Normal, NEW t \in Normal,
         s.negative = t.negative => s.value + t.value \in U256
  PROVE  /\ Add(s, t) \in Normal
         /\ IntOf(Add(s, t)) = IntOf(s) + IntOf(t)
<1> DEFINE a == s.value
           b == t.value
<1>1. /\ a \in U256 /\ a \in Nat /\ s.negative \in BOOLEAN
      /\ b \in U256 /\ b \in Nat /\ t.negative \in BOOLEAN
      /\ s.negative => IntOf(s) = 0 - a
      /\ ~s.negative => IntOf(s) = a
      /\ t.negative => IntOf(t) = 0 - b
      /\ ~t.negative => IntOf(t) = b
  BY NormalParts
<1>2. /\ a - b \in Int /\ b - a \in Int /\ a + b \in Int
      /\ a > b => a - b \in U256 /\ a # b
      /\ a < b => b - a \in U256 /\ a # b /\ ~(a > b)
      /\ a = b \/ a > b \/ a < b
      /\ a = b => (0 - a) + b = 0 /\ a + (0 - b) = 0
      /\ (0 - (a + b)) = 0 - a + (0 - b)
      /\ (0 - (a - b)) = 0 - a + b /\ a - b = a + (0 - b)
      /\ (0 - (b - a)) = a + (0 - b) /\ b - a = 0 - a + b
  <2> HIDE DEF a, b
  <2> QED BY <1>1, WordFacts, SMT DEF U256
<1>3. s.negative # t.negative =>
        (s.negative /\ ~t.negative) \/ (~s.negative /\ t.negative)
  BY <1>1
<1>4. CASE s.negative = t.negative
  <2>1. a + b \in U256
    BY <1>4
  <2>2. Add(s, t) = signed(a + b, s.negative)
    BY <1>4, <2>1, WrapFits DEF Add, add
  <2> HIDE DEF a, b
  <2>3. /\ Add(s, t) \in Normal
        /\ s.negative => IntOf(Add(s, t)) = (0 - (a + b))
        /\ ~s.negative => IntOf(Add(s, t)) = a + b
    BY <2>1, <2>2, <1>1, SignedIsNormal
  <2> QED BY <2>3, <1>1, <1>2, <1>4, Zenon
<1>5. CASE s.negative # t.negative /\ a = b
  <2>1. Add(s, t) = ZERO
    BY <1>5 DEF Add
  <2> HIDE DEF a, b
  <2> QED BY <2>1, ZeroIsNormal, <1>1, <1>2, <1>5, <1>3, Zenon
<1>6. CASE s.negative # t.negative /\ a > b
  <2>1. Add(s, t) = signed(a - b, s.negative)
    BY <1>2, <1>6, WrapFits DEF Add, sub
  <2> HIDE DEF a, b
  <2>2. /\ Add(s, t) \in Normal
        /\ s.negative => IntOf(Add(s, t)) = (0 - (a - b))
        /\ ~s.negative => IntOf(Add(s, t)) = a - b
    BY <2>1, <1>1, <1>2, <1>6, SignedIsNormal
  <2> QED BY <2>2, <1>1, <1>2, <1>6, <1>3, Zenon
<1>7. CASE s.negative # t.negative /\ a < b
  <2>1. Add(s, t) = signed(b - a, t.negative)
    BY <1>2, <1>7, WrapFits DEF Add, sub
  <2> HIDE DEF a, b
  <2>2. /\ Add(s, t) \in Normal
        /\ t.negative => IntOf(Add(s, t)) = (0 - (b - a))
        /\ ~t.negative => IntOf(Add(s, t)) = b - a
    BY <2>1, <1>1, <1>2, <1>7, SignedIsNormal
  <2> QED BY <2>2, <1>1, <1>2, <1>7, <1>3, Zenon
<1> QED
  <2> HIDE DEF a, b
  <2> QED BY <1>2, <1>4, <1>5, <1>6, <1>7

LEMMA NegIsInteger ==
  ASSUME NEW t \in Normal
  PROVE  /\ Neg(t) \in Normal /\ Neg(t).value = t.value
         /\ IntOf(Neg(t)) = 0 - IntOf(t)
         /\ t.value # 0 => Neg(t).negative = ~t.negative
<1> DEFINE b == t.value
<1>1. /\ b \in U256 /\ b \in Nat /\ t.negative \in BOOLEAN
      /\ t.negative => b # 0
      /\ t.negative => IntOf(t) = 0 - b
      /\ ~t.negative => IntOf(t) = b
  BY NormalParts
<1>2. 0 - (0 - b) = b /\ (b = 0 => 0 - b = b)
  <2> HIDE DEF b
  <2> QED BY <1>1, SMT
<1>3. CASE b = 0
  <2>1. Neg(t) = t /\ ~t.negative
    BY <1>1, <1>3 DEF Neg
  <2> HIDE DEF b
  <2>2. IntOf(Neg(t)) = b /\ IntOf(t) = b
    BY <2>1, <1>1
  <2> QED BY <2>1, <2>2, <1>2, <1>3 DEF b
<1>4. CASE b # 0
  <2>1. Neg(t) = signed(b, ~t.negative)
    BY <1>4 DEF Neg
  <2>2. signed(b, ~t.negative).negative = ~t.negative
    BY <1>1, <1>4 DEF signed
  <2>3. /\ signed(b, ~t.negative) \in Normal /\ signed(b, ~t.negative).value = b
        /\ ~t.negative => IntOf(signed(b, ~t.negative)) = 0 - b
        /\ t.negative => IntOf(signed(b, ~t.negative)) = b
    <3>1. (~t.negative) \in BOOLEAN /\ (~~t.negative => t.negative) /\ (t.negative => ~~t.negative)
      OBVIOUS
    <3> HIDE DEF b
    <3> DEFINE m == ~t.negative
    <3>2. m \in BOOLEAN /\ (t.negative => ~m)
      BY <3>1
    <3> HIDE DEF m
    <3>3. /\ signed(b, m) \in Normal /\ signed(b, m).value = b
          /\ m => IntOf(signed(b, m)) = 0 - b
          /\ ~m => IntOf(signed(b, m)) = b
      BY <1>1, <3>2, SignedIsNormal
    <3> QED BY <3>2, <3>3 DEF m
  <2>4. IntOf(Neg(t)) = 0 - IntOf(t)
    <3> HIDE DEF b
    <3> QED BY <2>1, <2>3, <1>1, <1>2
  <2> QED BY <2>1, <2>2, <2>3, <2>4
<1> QED BY <1>3, <1>4

(* Subtraction, which the code writes as the addition of the negation      *)
(* (impl Sub): the magnitudes are added when the signs differ.             *)
THEOREM SubIsInteger ==
  ASSUME NEW s \in Normal, NEW t \in Normal,
         s.value + t.value \in U256
  PROVE  /\ Sub(s, t) \in Normal
         /\ IntOf(Sub(s, t)) = IntOf(s) - IntOf(t)
<1>1. Neg(t) \in Normal /\ Neg(t).value = t.value /\ IntOf(Neg(t)) = 0 - IntOf(t)
  BY NegIsInteger
<1>2. Add(s, Neg(t)) \in Normal /\ IntOf(Add(s, Neg(t))) = IntOf(s) + IntOf(Neg(t))
  <2>1. s.value + Neg(t).value \in U256
    BY <1>1
  <2> QED BY <1>1, <2>1, AddIsInteger
<1>3. IntOf(s) \in Int /\ IntOf(t) \in Int
  <2>1. \A u \in Normal : IntOf(u) \in Int
    <3> SUFFICES ASSUME NEW u \in Normal PROVE IntOf(u) \in Int
      OBVIOUS
    <3>1. u.value \in Nat
      BY NormalParts
    <3>2. 0 - u.value \in Int /\ u.value \in Int
      BY <3>1, SMT
    <3> QED BY <3>2 DEF IntOf
  <2> QED BY <2>1
<1>4. IntOf(s) + (0 - IntOf(t)) = IntOf(s) - IntOf(t)
  BY <1>3, SMT
<1> QED BY <1>1, <1>2, <1>4 DEF Sub

(* The order (impl Ord) is that of the integers on the pairs that new      *)
(* makes; a pair that new never makes, a negative zero, breaks it.         *)
THEOREM OrderIsInteger ==
  ASSUME NEW s \in Normal, NEW t \in Normal
  PROVE  cmp(s, t) = Compare(IntOf(s), IntOf(t))
<1> DEFINE a == s.value
           b == t.value
<1>1. /\ a \in Nat /\ s.negative \in BOOLEAN /\ (s.negative => a # 0)
      /\ b \in Nat /\ t.negative \in BOOLEAN /\ (t.negative => b # 0)
      /\ s.negative => IntOf(s) = 0 - a
      /\ ~s.negative => IntOf(s) = a
      /\ t.negative => IntOf(t) = 0 - b
      /\ ~t.negative => IntOf(t) = b
  BY NormalParts
<1>2. /\ Compare(0 - a, 0 - b) = Compare(b, a)
      /\ a # 0 => Compare(0 - a, b) = "Less"
      /\ b # 0 => Compare(a, 0 - b) = "Greater"
  <2> HIDE DEF a, b
  <2> QED BY <1>1, SMT DEF Compare
<1>3. CASE s.negative /\ t.negative
  <2>1. cmp(s, t) = Compare(b, a)
    BY <1>3 DEF cmp
  <2> HIDE DEF a, b
  <2> QED BY <2>1, <1>1, <1>2, <1>3
<1>4. CASE s.negative /\ ~t.negative
  <2>1. cmp(s, t) = "Less"
    BY <1>4 DEF cmp
  <2> HIDE DEF a, b
  <2> QED BY <2>1, <1>1, <1>2, <1>4
<1>5. CASE ~s.negative /\ t.negative
  <2>1. cmp(s, t) = "Greater"
    BY <1>5 DEF cmp
  <2> HIDE DEF a, b
  <2> QED BY <2>1, <1>1, <1>2, <1>5
<1>6. CASE ~s.negative /\ ~t.negative
  <2>1. cmp(s, t) = Compare(a, b)
    BY <1>6 DEF cmp
  <2> HIDE DEF a, b
  <2> QED BY <2>1, <1>1, <1>6
<1> QED BY <1>1, <1>3, <1>4, <1>5, <1>6

(* The comparison with a negative i64 looks at the lowest word of the      *)
(* magnitude only (as_u64 in PartialOrd<i64>): minus 2^64, which is below  *)
(* every i64, is answered to be above every negative one.                  *)
THEOREM NegativeComparisonTruncates ==
  ASSUME NEW i \in I64, i < 0
  PROVE  /\ signed(Word, TRUE) \in Normal
         /\ cmp(signed(Word, TRUE), from_i64(i)) = "Less"
         /\ cmp_i64(signed(Word, TRUE), i) = "Greater"
<1> DEFINE n == 0 - i
<1>1. Word \in U256 /\ Word \in Nat /\ Word # 0
  BY WordFacts, SMT DEF U256
<1>2. n \in Nat /\ n > 0 /\ n < Word /\ n # 0
  BY WordFacts, SMT DEF I64, Word
<1>3. signed(Word, TRUE) = [value |-> Word, negative |-> TRUE]
  BY <1>1 DEF signed
<1>4. unsigned_abs(i) = n
  BY DEF unsigned_abs
<1>5. from_i64(i) = [value |-> n, negative |-> TRUE]
  <2>1. from_i64(i) = signed(n, TRUE)
    BY <1>4 DEF from_i64
  <2> HIDE DEF n
  <2> QED BY <2>1, <1>2 DEF signed
<1>6. Compare(n, Word) = "Less" /\ Compare(n, 0) = "Greater" /\ Word % Word = 0
  <2> HIDE DEF n
  <2> QED BY <1>1, <1>2, SMT DEF Compare
<1> DEFINE s == signed(Word, TRUE)
           t == from_i64(i)
<1>7. s.value = Word /\ s.negative = TRUE /\ t.value = n /\ t.negative = TRUE
  <2>1. s = [value |-> Word, negative |-> TRUE] /\ t = [value |-> n, negative |-> TRUE]
    BY <1>3, <1>5
  <2> HIDE DEF s, t, n
  <2> QED BY <2>1
<1>8. s \in Normal
  BY <1>1, SignedIsNormal
<1> HIDE DEF n, s, t
<1>9. cmp(s, t) = Compare(n, Word)
  BY <1>7 DEF cmp
<1>10. cmp_i64(s, i) = Compare(n, 0)
  BY <1>4, <1>6, <1>7 DEF cmp_i64
<1> QED BY <1>6, <1>8, <1>9, <1>10 DEF s, t
=============================================================================
