--------------------------- MODULE BatchScheduler ---------------------------
(***************************************************************************)
(* BatchScheduler of crates/inference/src/batch_scheduler.rs: threads      *)
(* submit tick events to two bounded queues, the scheduler's thread takes  *)
(* them out in batches, and the statistics have a lock of their own.  An   *)
(* event is the number of its insertion; averages and latencies are left   *)
(* out.                                                                    *)
(***************************************************************************)
EXTENDS ThreadSteps, Integers, Sequences, FiniteSets, SequencesExt

CONSTANTS
    Scheduler,      \* the thread that start spawns
    NormalSize, UrgentSize,     \* capacities of the two queues
    MinBatch,       \* min_batch_size
    Targets,        \* values given to adjust_batch_size, clamped
    MaxSubmits,     \* bound on the events submitted
    MaxBatchCalls   \* bound on the other calls

ASSUME BatchAssumption ==
    /\ IsFiniteSet(Threads) /\ Scheduler \in Threads
    /\ NormalSize \in Nat \ {0} /\ UrgentSize \in Nat \ {0} /\ MinBatch \in Nat \ {0}
    /\ Targets \subseteq Nat /\ Targets # {}
    /\ \A n \in Targets : n >= MinBatch

VARIABLES
    queues,         \* event_queue and priority_queue, as "normal" and "urgent"
    working,        \* is_running
    target,         \* current_target_batch
    received, lostCount, batches,   \* of the statistics
    submission,     \* of each thread: the queue its event goes to
    submits,        \* number of submissions
    batchCalls,     \* number of other calls
    entered,        \* history: how many events entered a queue
    batched,        \* history: the events of all batches in order
    removed         \* history: the events that were dropped or cleared

batchStats == <<received, lostCount, batches>>
batchHistory == <<entered, batched, removed>>
batchVars == <<queues, working, target, batchStats, submission, submits, batchCalls, batchHistory>>

Priority == {"normal", "urgent"}
QueueSize(q) == IF q = "normal" THEN NormalSize ELSE UrgentSize

BatchInit ==
    /\ queues = [q \in Priority |-> <<>>]
    /\ working = FALSE
    /\ target = CHOOSE n \in Targets : TRUE
    /\ received = 0 /\ lostCount = 0 /\ batches = 0
    /\ submission = [t \in Threads |-> "normal"]
    /\ submits = 0 /\ batchCalls = 0
    /\ entered = 0 /\ batched = <<>> /\ removed = {}

-----------------------------------------------------------------------------
(* submit, when it finds is_running set.                                   *)
Submit(t) ==
    /\ t # Scheduler
    /\ Goto(t, "idle", "countReceived")
    /\ working
    /\ submits < MaxSubmits
    /\ submits' = submits + 1
    /\ \E q \in Priority : submission' = [submission EXCEPT ![t] = q]
    /\ UNCHANGED <<held, queues, working, target, batchStats, batchCalls, batchHistory>>

CountReceived(t) ==
    /\ Goto(t, "countReceived", "enqueue")
    /\ CanWrite("stats")
    /\ received' = received + 1
    /\ UNCHANGED <<held, queues, working, target, lostCount, batches, submission, submits,
                   batchCalls, batchHistory>>

Entering(t, old) ==
    /\ queues' = [queues EXCEPT ![submission[t]] = Append(old, entered + 1)]
    /\ entered' = entered + 1

Enqueue(t) ==
    LET q == submission[t] IN
    /\ Goto(t, "enqueue", "idle")
    /\ CanWrite(q)
    /\ Len(queues[q]) < QueueSize(q)
    /\ Entering(t, queues[q])
    /\ UNCHANGED <<held, working, target, batchStats, submission, submits, batchCalls,
                   batched, removed>>

(* A full queue loses its oldest event, and stays locked until the loss is *)
(* counted.                                                                *)
DropOldest(t) ==
    LET q == submission[t] IN
    /\ Goto(t, "enqueue", "countDropped")
    /\ Write(t, q)
    /\ Len(queues[q]) >= QueueSize(q)
    /\ queues' = [queues EXCEPT ![q] = Tail(@)]
    /\ removed' = removed \cup {Head(queues[q])}
    /\ UNCHANGED <<working, target, batchStats, submission, submits, batchCalls, entered, batched>>

CountDropped(t) ==
    /\ Goto(t, "countDropped", "idle")
    /\ CanWrite("stats")
    /\ lostCount' = lostCount + 1
    /\ Entering(t, queues[submission[t]])
    /\ ReleaseAll(t)
    /\ UNCHANGED <<working, target, received, batches, submission, submits, batchCalls,
                   batched, removed>>

-----------------------------------------------------------------------------
CallBatches(t) ==
    /\ t # Scheduler /\ ~ Busy(t)
    /\ batchCalls < MaxBatchCalls
    /\ batchCalls' = batchCalls + 1

(* start; the thread of an earlier start has ended.                        *)
StartScheduler(t) ==
    /\ CallBatches(t)
    /\ Goto(Scheduler, "idle", "look")
    /\ working' = TRUE
    /\ UNCHANGED <<held, queues, target, batchStats, submission, submits, batchHistory>>

(* stop; the scheduler's loop never looks at the flag.                     *)
StopScheduler(t) ==
    /\ CallBatches(t)
    /\ working' = FALSE
    /\ UNCHANGED <<pc, held, queues, target, batchStats, submission, submits, batchHistory>>

AdjustBatchSize(t) ==
    /\ CallBatches(t)
    /\ target' \in Targets \ {target}
    /\ UNCHANGED <<pc, held, queues, working, batchStats, submission, submits, batchHistory>>

(* clear empties one queue after the other.                                *)
Emptied(q) ==
    /\ CanWrite(q)
    /\ queues' = [queues EXCEPT ![q] = <<>>]
    /\ removed' = removed \cup ToSet(queues[q])
    /\ UNCHANGED <<held, working, target, batchStats, submission, submits, entered, batched>>

ClearNormal(t) == CallBatches(t) /\ Goto(t, "idle", "clearUrgent") /\ Emptied("normal")
ClearUrgent(t) == Goto(t, "clearUrgent", "idle") /\ Emptied("urgent") /\ UNCHANGED batchCalls

-----------------------------------------------------------------------------
(* The scheduler's thread: the condition of its loop looks at one queue    *)
(* after the other, each with its own lock.                                *)
Loop(from, to) ==
    /\ Goto(Scheduler, from, to)
    /\ UNCHANGED <<target, received, lostCount, submission, submits, batchCalls, entered>>

LookNormal ==
    /\ CanWrite("normal")
    /\ Loop("look", IF queues["normal"] # <<>> THEN "collect" ELSE "lookUrgent")
    /\ UNCHANGED <<held, queues, working, batches, batched, removed>>

LookUrgent ==
    /\ CanWrite("urgent")
    /\ Loop("lookUrgent", IF queues["urgent"] # <<>> THEN "collect" ELSE "ending")
    /\ UNCHANGED <<held, queues, working, batches, batched, removed>>

(* Both queues were empty, and the loop has ended.                         *)
EndScheduler ==
    /\ Loop("ending", "idle")
    /\ working' = FALSE
    /\ UNCHANGED <<held, queues, batches, batched, removed>>

(* try_create_batch, unless it is too soon after the last batch.           *)
TooSoon ==
    /\ Loop("collect", "report")
    /\ UNCHANGED <<held, queues, working, batches, batched, removed>>

CollectNormal ==
    /\ Loop("collect", "collectUrgent")
    /\ Write(Scheduler, "normal")
    /\ UNCHANGED <<queues, working, batches, batched, removed>>

First(s, n) == SubSeq(s, 1, IF n < Len(s) THEN n ELSE Len(s))

(* Mutant: one event too many is taken off the queue.                      *)
MutantRest(s, n) == SubSeq(s, n + 2, Len(s))

Rest(s, n) == SubSeq(s, n + 1, Len(s))

(* The room that the urgent events leave in the batch.                     *)
Room(urgent) == target - Len(urgent)

Collect ==
    LET urgent == First(queues["urgent"], target)
        normal == First(queues["normal"], Room(urgent))
    IN  /\ CanWrite("urgent")
        /\ urgent \o normal # <<>>
        /\ Loop("collectUrgent", "countBatch")
        /\ queues' = [q \in Priority |->
                         IF q = "urgent" THEN Rest(queues[q], target)
                                         ELSE Rest(queues[q], Room(urgent))]
        /\ batched' = Append(batched, urgent \o normal)
        /\ ReleaseAll(Scheduler)
        /\ UNCHANGED <<working, batches, removed>>

(* Too few events, none of which is stale.                                 *)
NotYet ==
    /\ CanWrite("urgent")
    /\ Len(queues["urgent"]) + Len(queues["normal"]) < MinBatch
    /\ Loop("collectUrgent", "report")
    /\ ReleaseAll(Scheduler)
    /\ UNCHANGED <<queues, working, batches, batched, removed>>

CountBatch ==
    /\ CanWrite("stats")
    /\ Loop("countBatch", "report")
    /\ batches' = batches + 1
    /\ UNCHANGED <<held, queues, working, batched, removed>>

(* Once a second the depth of the queues is written to the statistics.     *)
SkipReport ==
    /\ Loop("report", "look")
    /\ UNCHANGED <<held, queues, working, batches, batched, removed>>

Report ==
    /\ Loop("report", "depthNormal")
    /\ Write(Scheduler, "stats")
    /\ UNCHANGED <<queues, working, batches, batched, removed>>

DepthNormal ==
    /\ Loop("depthNormal", "depthUrgent")
    /\ Write(Scheduler, "normal")
    /\ UNCHANGED <<queues, working, batches, batched, removed>>

DepthUrgent ==
    /\ CanWrite("urgent")
    /\ Loop("depthUrgent", "look")
    /\ ReleaseAll(Scheduler)
    /\ UNCHANGED <<queues, working, batches, batched, removed>>

-----------------------------------------------------------------------------
SchedulerStep ==
    \/ LookNormal \/ LookUrgent \/ EndScheduler \/ TooSoon \/ CollectNormal \/ Collect \/ NotYet
    \/ CountBatch \/ SkipReport \/ Report \/ DepthNormal \/ DepthUrgent

BatchStep(t) ==
    \/ CountReceived(t) \/ Enqueue(t) \/ DropOldest(t) \/ CountDropped(t) \/ ClearUrgent(t)
    \/ t = Scheduler /\ SchedulerStep

BatchNext ==
    \E t \in Threads :
        \/ Submit(t) \/ StartScheduler(t) \/ StopScheduler(t) \/ AdjustBatchSize(t)
        \/ ClearNormal(t) \/ BatchStep(t)

(* A full queue is locked before the statistics, which the report locks    *)
(* before the queues.                                                      *)
BatchTangled ==
    /\ \E t \in Threads : pc[t] = "countDropped"
    /\ pc[Scheduler] \in {"depthNormal", "depthUrgent"}

-----------------------------------------------------------------------------
InBatches == FlattenSeq(batched)

(* However submissions, batches and clear interleave, an event that was    *)
(* taken is in one place: in a queue, in one batch, dropped or cleared.    *)
(* The queues keep their bounds, and when nobody is calling the statistics *)
(* agree.                                                                  *)
EventsConserved ==
    LET waiting == queues["urgent"] \o queues["normal"]
        places == InBatches \o waiting
    IN  /\ IsInjective(places)
        /\ ToSet(places) \cup removed = 1 .. entered
        /\ ToSet(places) \cap removed = {}
        /\ \A q \in Priority : Len(queues[q]) <= QueueSize(q)
        /\ Quiet => received = entered /\ lostCount <= Cardinality(removed)
                    /\ batches = Len(batched)
=============================================================================
