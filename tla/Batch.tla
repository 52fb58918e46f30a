------------------------------- MODULE Batch -------------------------------
(***************************************************************************)
(* The request batcher (Batch of pkg/primitives/src/batch.rs).  call       *)
(* queues an item with a oneshot sender and, if nothing is under way,      *)
(* spawns a task that sleeps, takes the whole queue, hands it to the       *)
(* processor, answers the callers and goes on while new items have come in *)
(* meanwhile.  The mutex is held for the locked sections only: one action  *)
(* each.  The processor is the user's: it may fail, return too few results *)
(* or panic, which ends the task that called it.                           *)
(*                                                                         *)
(* A call is named for its caller; its item, its sender and the task it    *)
(* may spawn carry the same name.                                          *)
(***************************************************************************)
EXTENDS Integers, Sequences

CONSTANTS
  Calls,       \* the calls made
  Delays,      \* values of batch_delay_ms
  Intervals,   \* values of min_interval_ms
  MaxTime      \* bound on the clock

ASSUME BatchAssumption ==
  /\ Delays \subseteq Nat /\ Delays # {}
  /\ Intervals \subseteq Nat /\ Intervals # {}
  /\ MaxTime \in Nat

VARIABLES
  now,             \* the time
  config,          \* BatchConfig
  items,           \* BatchQueue.items: the calls queued
  next_execution,  \* BatchQueue: a time, or None
  last_execution,
  processing,
  pc,              \* per call, where the task it spawned is
  wake,            \* per task, the end of its sleep, 0 when it does not sleep
  batch,           \* per task, the senders it took from the queue
  answer,          \* per call: what its caller got so far
  plan,            \* history: how and with which config the next batch was scheduled
  shorted          \* history: the processor has returned too few results

vars == <<now, config, items, next_execution, last_execution, processing,
          pc, wake, batch, answer, plan, shorted>>

None == -1

queue == <<items, next_execution, last_execution, processing>>

BatchConfig == [batch_delay : Delays, min_interval : Intervals]

(* Where a task can be: it has not been spawned, it is about to read the   *)
(* queue, asleep, inside process_batch, about to update the queue, ended.  *)
Places == {"none", "spawned", "sleeping", "processing", "finishing", "ended", "panicked"}

(* An answer that is a call stands for the result of that call's item. *)
Outcomes == {"idle", "waiting", "error", "dropped", "cancelled"}

ASSUME CallsAssumption == Calls \cap Outcomes = {}

Unplanned == [by |-> "none", first |-> 0, delay |-> 0, interval |-> 0]

TypeOK ==
  /\ now \in 0..MaxTime
  /\ config \in BatchConfig
  /\ items \in Seq(Calls)
  /\ next_execution \in {None} \cup 0..MaxTime
  /\ last_execution \in {None} \cup 0..MaxTime
  /\ processing \in BOOLEAN
  /\ pc \in [Calls -> Places]
  /\ wake \in [Calls -> 0..MaxTime]
  /\ batch \in [Calls -> Seq(Calls)]
  /\ answer \in [Calls -> Calls \cup Outcomes]

Init ==
  /\ now = 0
  /\ config \in BatchConfig
  /\ items = <<>> /\ next_execution = None /\ last_execution = None
  /\ processing = FALSE
  /\ pc = [c \in Calls |-> "none"]
  /\ wake = [c \in Calls |-> 0]
  /\ batch = [c \in Calls |-> <<>>]
  /\ answer = [c \in Calls |-> "idle"]
  /\ plan = Unplanned
  /\ shorted = FALSE

Later(a, b) == IF a > b THEN a ELSE b

Tick ==
  /\ now < MaxTime
  /\ now' = now + 1
  /\ UNCHANGED <<config, queue, pc, wake, batch, answer, plan, shorted>>

----------------------------------------------------------------------------
(* Mutant: the time since the last batch is not looked at. *)
NextTime_slip == now + config.batch_delay

(* When the batch that a call schedules is to run. *)
NextTime ==
  LET batch_next == now + config.batch_delay
  IN IF last_execution # None
     THEN Later(last_execution + config.min_interval, batch_next)
     ELSE batch_next

(* Mutant: a batch that runs is not looked at. *)
ShouldSchedule_slip == next_execution = None

ShouldSchedule == next_execution = None /\ ~processing

(* call up to its await: the locked section and the spawn.  The bound      *)
(* leaves room for the batch within MaxTime.                               *)
Call(c) ==
  /\ answer[c] = "idle" /\ NextTime <= MaxTime
  /\ answer' = [answer EXCEPT ![c] = "waiting"]
  /\ items' = Append(items, c)
  /\ IF ShouldSchedule
     THEN /\ next_execution' = NextTime
          /\ pc' = [pc EXCEPT ![c] = "spawned"]
          /\ plan' = [by |-> "call", first |-> now, delay |-> config.batch_delay,
                      interval |-> config.min_interval]
     ELSE UNCHANGED <<next_execution, pc, plan>>
  /\ UNCHANGED <<now, config, last_execution, processing, wake, batch, shorted>>

(* The caller drops the future: its item stays where it is. *)
Cancel(c) ==
  /\ answer[c] = "waiting"
  /\ answer' = [answer EXCEPT ![c] = "cancelled"]
  /\ UNCHANGED <<now, config, queue, pc, wake, batch, plan, shorted>>

(* update_config, set_batch_delay and set_min_interval borrow the batch    *)
(* exclusively: no call is waiting, though a task may be under way.        *)
SetConfig(cfg) ==
  /\ \A c \in Calls : answer[c] # "waiting"
  /\ config' = cfg
  /\ UNCHANGED <<now, queue, pc, wake, batch, answer, plan, shorted>>

----------------------------------------------------------------------------
(* Mutant: the time of the batch is taken for the time to wait. *)
WaitUntil_slip == now + next_execution

(* sleep(next_time - now), or a sleep of zero. *)
WaitUntil == Later(next_execution, now)

(* schedule_next_batch: compute how long to sleep; return if nothing is    *)
(* scheduled.                                                              *)
Sleep(t) ==
  /\ pc[t] = "spawned"
  /\ IF next_execution = None
     THEN pc' = [pc EXCEPT ![t] = "ended"] /\ UNCHANGED wake
     ELSE /\ pc' = [pc EXCEPT ![t] = "sleeping"]
          /\ wake' = [wake EXCEPT ![t] = WaitUntil]
  /\ UNCHANGED <<now, config, queue, batch, answer, plan, shorted>>

(* Mutants: the items are copied and not taken; the task waits until there *)
(* are two.                                                                *)
TakeItems_slip(t) ==
  /\ pc[t] = "sleeping" /\ now >= wake[t]
  /\ next_execution' = None
  /\ processing' = TRUE
  /\ batch' = [batch EXCEPT ![t] = items]
  /\ pc' = [pc EXCEPT ![t] = IF items = <<>> THEN "finishing" ELSE "processing"]
  /\ wake' = [wake EXCEPT ![t] = 0] /\ plan' = Unplanned
  /\ UNCHANGED <<now, config, items, last_execution, answer, shorted>>

TakeItems_patient(t) ==
  /\ pc[t] = "sleeping" /\ now >= wake[t] /\ Len(items) > 1
  /\ next_execution' = None
  /\ processing' = TRUE
  /\ items' = <<>>
  /\ batch' = [batch EXCEPT ![t] = items]
  /\ pc' = [pc EXCEPT ![t] = "processing"]
  /\ wake' = [wake EXCEPT ![t] = 0] /\ plan' = Unplanned
  /\ UNCHANGED <<now, config, last_execution, answer, shorted>>

(* The sleep is over: take all items, skip the processor if there are none.*)
TakeItems(t) ==
  /\ pc[t] = "sleeping" /\ now >= wake[t]
  /\ next_execution' = None
  /\ processing' = TRUE
  /\ items' = <<>>
  /\ batch' = [batch EXCEPT ![t] = items]
  /\ pc' = [pc EXCEPT ![t] = IF items = <<>> THEN "finishing" ELSE "processing"]
  /\ wake' = [wake EXCEPT ![t] = 0] /\ plan' = Unplanned
  /\ UNCHANGED <<now, config, last_execution, answer, shorted>>

(* The answers after the senders of a batch were given theirs; a sender    *)
(* without one is dropped.  Only a caller that still waits sees it.        *)
Answered(senders, given) ==
  [c \in Calls |->
     IF answer[c] # "waiting" THEN answer[c]
     ELSE LET at == {i \in 1..Len(senders) : senders[i] = c}
          IN IF at = {} THEN "waiting" ELSE given[CHOOSE i \in at : TRUE]]

(* Mutant: the results are paired with the senders from the other end. *)
Zipped_slip(senders, k) ==
  Answered(senders,
           [i \in 1..Len(senders) |-> IF i <= k THEN senders[k + 1 - i] ELSE "dropped"])

(* zip of the senders with the first k results, in the order of the items. *)
Zipped(senders, k) ==
  Answered(senders,
           [i \in 1..Len(senders) |-> IF i <= k THEN senders[i] ELSE "dropped"])

(* The same answer for all senders of a batch. *)
All(senders, outcome) == Answered(senders, [i \in 1..Len(senders) |-> outcome])

ProcessOk(t, k) ==
  /\ pc[t] = "processing" /\ k \in 0..Len(batch[t])
  /\ answer' = Zipped(batch[t], k)
  /\ shorted' = (shorted \/ k < Len(batch[t]))
  /\ batch' = [batch EXCEPT ![t] = <<>>]
  /\ pc' = [pc EXCEPT ![t] = "finishing"]
  /\ UNCHANGED <<now, config, queue, wake, plan>>

(* An error of the processor goes to every caller of the batch. *)
ProcessErr(t) ==
  /\ pc[t] = "processing"
  /\ answer' = All(batch[t], "error")
  /\ batch' = [batch EXCEPT ![t] = <<>>]
  /\ pc' = [pc EXCEPT ![t] = "finishing"]
  /\ UNCHANGED <<now, config, queue, wake, plan, shorted>>

(* A panic in the processor unwinds the task: its senders are dropped, and *)
(* nobody resets processing.                                               *)
ProcessPanic(t) ==
  /\ pc[t] = "processing"
  /\ answer' = All(batch[t], "dropped")
  /\ batch' = [batch EXCEPT ![t] = <<>>]
  /\ pc' = [pc EXCEPT ![t] = "panicked"]
  /\ UNCHANGED <<now, config, queue, wake, plan, shorted>>

(* Mutant: the task always ends. *)
Finish_slip(t) ==
  /\ pc[t] = "finishing"
  /\ last_execution' = now
  /\ processing' = FALSE
  /\ pc' = [pc EXCEPT ![t] = "ended"]
  /\ UNCHANGED <<now, config, items, next_execution, wake, batch, answer, plan, shorted>>

(* The end of schedule_next_batch.  Items that came in meanwhile are       *)
(* scheduled for now: the time added to last_execution is the time elapsed *)
(* since then, not min_interval.                                           *)
Finish(t) ==
  /\ pc[t] = "finishing"
  /\ last_execution' = now
  /\ processing' = FALSE
  /\ IF items # <<>> /\ next_execution = None
     THEN /\ next_execution' = now
          /\ pc' = [pc EXCEPT ![t] = "spawned"]
          /\ plan' = [Unplanned EXCEPT !.by = "task"]
     ELSE /\ pc' = [pc EXCEPT ![t] = "ended"]
          /\ UNCHANGED <<next_execution, plan>>
  /\ UNCHANGED <<now, config, items, wake, batch, answer, shorted>>

TaskStep(t) ==
  \/ Sleep(t)
  \/ TakeItems(t)
  \/ \E k \in 0..Len(batch[t]) : ProcessOk(t, k)
  \/ ProcessErr(t)
  \/ ProcessPanic(t)
  \/ Finish(t)

Next ==
  \/ Tick
  \/ \E c \in Calls : Call(c) \/ Cancel(c)
  \/ \E cfg \in BatchConfig : SetConfig(cfg)
  \/ \E t \in Calls : TaskStep(t)

Spec == Init /\ [][Next]_vars

(* Time passes, sleeps end and the processor returns or panics. *)
FairSpec ==
  /\ Spec
  /\ WF_vars(Tick)
  /\ \A t \in Calls : WF_vars(TaskStep(t))

----------------------------------------------------------------------------
Alive(t) == pc[t] \in {"spawned", "sleeping", "processing", "finishing"}

Panicked == \E t \in Calls : pc[t] = "panicked"

(* Two batches are never under way at the same time, whoever calls while a *)
(* task sleeps, processes or updates the queue: the processor need not be  *)
(* reentrant.                                                              *)
OneTask == \A t, u \in Calls : Alive(t) /\ Alive(u) => t = u

(* As long as no processor has panicked, queued items always have a task   *)
(* that is going to take them: the check in call and the one at the end of *)
(* schedule_next_batch leave no gap between them.                          *)
NoItemStranded == items # <<>> /\ ~Panicked => \E t \in Calls : Alive(t)

Holders(c) ==
  {<<"queue", i>> : i \in {j \in 1..Len(items) : items[j] = c}} \cup
  UNION {{<<t, i>> : i \in {j \in 1..Len(batch[t]) : batch[t][j] = c}} : t \in Calls}

(* The sender of a waiting call is in exactly one place, in the queue or   *)
(* in the hands of one task: the item is neither lost nor processed twice. *)
SenderIsKept ==
  \A c \in Calls : answer[c] = "waiting" => \E h \in Holders(c) : Holders(c) = {h}

(* A caller gets the result of its own item, and is told that its task was *)
(* dropped only if a processor panicked or returned too few results.       *)
AnswersAreOwn ==
  \A c \in Calls :
    /\ answer[c] \in Calls => answer[c] = c
    /\ answer[c] = "dropped" => Panicked \/ shorted

(* BatchConfig: "Minimum time to wait before processing a batch after      *)
(* receiving the first item" and "Minimum time between batch executions".  *)
(* Both hold for a batch that a call scheduled, under the config of that   *)
(* call and whatever the config is now; a batch that follows directly on   *)
(* another one is not throttled.                                           *)
CalledBatchesArePaced ==
  [][\A t \in Calls :
       pc[t] = "sleeping" /\ pc'[t] # "sleeping" /\ plan.by = "call" =>
         /\ now >= plan.first + plan.delay
         /\ last_execution # None => now >= last_execution + plan.interval]_vars

(* Every call is answered in the end, unless a processor panics: after     *)
(* that, processing stays true and the queue is never taken again.         *)
CallsAreAnswered ==
  \A c \in Calls : answer[c] = "waiting" ~> (answer[c] # "waiting" \/ Panicked)
============================================================================
