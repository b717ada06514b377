----------------------------- MODULE TaskQueue ------------------------------
(***************************************************************************)
(* LockFreePriorityQueue of crates/scheduler/src/priority_queue.rs.  The   *)
(* tasks are kept in a lock-free FIFO; pop and drop_below_priority take    *)
(* everything out, task by task, and put the rest back, and the size is a  *)
(* counter of its own, so calls of several threads interleave freely.      *)
(***************************************************************************)
EXTENDS ThreadSteps, Integers, Sequences, FiniteSets, SequencesExt

CONSTANTS
    Priorities,     \* the levels in use, numbers as in enum Priority
    MaxSize,        \* max_size
    MaxTasks,       \* bound on the number of tasks ever pushed
    Ops             \* the operations the threads call

ASSUME TaskQueueAssumption ==
    /\ IsFiniteSet(Threads) /\ Threads # {}
    /\ Priorities \subseteq Nat
    /\ MaxSize \in Nat /\ MaxTasks \in Nat
    /\ Ops \subseteq {"push", "pop", "peek", "clear", "drop", "shutdown"}

(* A task is [id, priority]; ids are given in the order of the timestamps. *)
Tasks == [id : 1 .. MaxTasks, priority : Priorities]

VARIABLES
    heap,       \* the SegQueue
    counter,    \* sequence_counter
    size,       \* current_size
    shutdown,   \* is_shutdown
    local,      \* tasks a thread holds: `tasks`, `kept`, or the one it pushes
    best,       \* the task pop returns
    least,      \* min_priority of drop_below_priority
    dropped,    \* `dropped` of drop_below_priority
    gone,       \* history: tasks returned by pop or dropped
    cleared     \* history: clear has been called

queueVars == <<heap, counter, size, shutdown, local, best, least, dropped, gone, cleared>>

NoTask == [id |-> 0, priority |-> 0]

QueueInit ==
    /\ heap = <<>>
    /\ counter = 0
    /\ size = 0
    /\ shutdown = FALSE
    /\ local = [t \in Threads |-> <<>>]
    /\ best = [t \in Threads |-> NoTask]
    /\ least = [t \in Threads |-> 0]
    /\ dropped = [t \in Threads |-> 0]
    /\ gone = {}
    /\ cleared = FALSE

Call(t, op, to) == op \in Ops /\ Goto(t, "idle", to)

(* The order of PrioritizedTask::cmp: smaller priority first, then later   *)
(* timestamp.                                                              *)
Before(a, b) ==
    a.priority < b.priority \/ (a.priority = b.priority /\ a.id > b.id)

(* The test of push.  size is unsigned: below zero it has wrapped around.  *)
Full == size < 0 \/ size >= MaxSize

(* The first task of the queue goes into the hands of the thread.          *)
Take(t) ==
    /\ heap # <<>>
    /\ local' = [local EXCEPT ![t] = Append(@, Head(heap))]
    /\ heap' = Tail(heap)
    /\ UNCHANGED <<counter, size, shutdown, best, least, dropped, gone, cleared>>

(* And the first in its hands to the end of the queue.                     *)
Put(t) ==
    /\ local[t] # <<>>
    /\ heap' = Append(heap, Head(local[t]))
    /\ local' = [local EXCEPT ![t] = Tail(@)]
    /\ UNCHANGED <<counter, size, shutdown, best, least, dropped, gone, cleared>>

-----------------------------------------------------------------------------
(* push after its two tests; one that returns an error changes nothing.    *)
Push(t) ==
    \E p \in Priorities :
        /\ ~ shutdown
        /\ ~ Full
        /\ counter < MaxTasks
        /\ Call(t, "push", "enqueue")
        /\ counter' = counter + 1
        /\ local' = [local EXCEPT ![t] = <<[id |-> counter + 1, priority |-> p]>>]
        /\ UNCHANGED <<heap, size, shutdown, best, least, dropped, gone, cleared>>

Enqueue(t) == Goto(t, "enqueue", "count") /\ Put(t)

(* Mutant: the new task is not counted.                                    *)
MutantCountPush(t) ==
    /\ Goto(t, "count", "idle")
    /\ UNCHANGED <<heap, counter, size, shutdown, local, best, least, dropped, gone, cleared>>

CountPush(t) ==
    /\ Goto(t, "count", "idle")
    /\ size' = size + 1
    /\ UNCHANGED <<heap, counter, shutdown, local, best, least, dropped, gone, cleared>>

-----------------------------------------------------------------------------
StartPop(t) ==
    /\ Call(t, "pop", "drain")
    /\ UNCHANGED <<heap, counter, size, shutdown, local, best, least, dropped, gone, cleared>>

(* Everything is taken out first.                                          *)
Drain(t) == Goto(t, "drain", "drain") /\ Take(t)

PopNothing(t) ==
    /\ heap = <<>>
    /\ local[t] = <<>>
    /\ Goto(t, "drain", "idle")
    /\ UNCHANGED <<heap, counter, size, shutdown, local, best, least, dropped, gone, cleared>>

(* tasks.sort_by(cmp), then tasks.remove(0).                               *)
Sorted(s) ==
    {r \in {[i \in DOMAIN s |-> s[p[i]]] : p \in Bijection(DOMAIN s, DOMAIN s)} :
        \A i, j \in DOMAIN s : i < j => ~ Before(r[j], r[i])}

Choose(t) ==
    /\ heap = <<>>
    /\ local[t] # <<>>
    /\ Goto(t, "drain", "putBack")
    /\ \E sorted \in Sorted(local[t]) :
          /\ best' = [best EXCEPT ![t] = Head(sorted)]
          /\ local' = [local EXCEPT ![t] = Tail(sorted)]
    /\ UNCHANGED <<heap, counter, size, shutdown, least, dropped, gone, cleared>>

(* The rest goes back task by task, in pop and in drop_below_priority.     *)
PutBack(t) == pc[t] \in {"putBack", "keep"} /\ UNCHANGED pc /\ Put(t)

PopReturn(t) ==
    /\ local[t] = <<>>
    /\ Goto(t, "putBack", "idle")
    /\ best' = [best EXCEPT ![t] = NoTask]
    /\ gone' = gone \cup {best[t]}
    /\ size' = size - 1
    /\ UNCHANGED <<heap, counter, shutdown, local, least, dropped, cleared>>

-----------------------------------------------------------------------------
(* drop_below_priority; what it drops is subtracted at the end.            *)
StartDrop(t) ==
    /\ Call(t, "drop", "sift")
    /\ \E min \in Priorities : least' = [least EXCEPT ![t] = min]
    /\ UNCHANGED <<heap, counter, size, shutdown, local, best, dropped, gone, cleared>>

Keep(t) == Goto(t, "sift", "sift") /\ Take(t) /\ Head(heap).priority >= least[t]

DropOne(t) ==
    /\ heap # <<>>
    /\ Goto(t, "sift", "sift")
    /\ Head(heap).priority < least[t]
    /\ gone' = gone \cup {Head(heap)}
    /\ dropped' = [dropped EXCEPT ![t] = @ + 1]
    /\ heap' = Tail(heap)
    /\ UNCHANGED <<counter, size, shutdown, local, best, least, cleared>>

Sifted(t) ==
    /\ heap = <<>>
    /\ Goto(t, "sift", "keep")
    /\ UNCHANGED <<heap, counter, size, shutdown, local, best, least, dropped, gone, cleared>>

DropReturn(t) ==
    /\ local[t] = <<>>
    /\ Goto(t, "keep", "idle")
    /\ size' = size - dropped[t]
    /\ dropped' = [dropped EXCEPT ![t] = 0]
    /\ least' = [least EXCEPT ![t] = 0]
    /\ UNCHANGED <<heap, counter, shutdown, local, best, gone, cleared>>

-----------------------------------------------------------------------------
(* peek pops a task, clones it and pushes it back until a pop finds the    *)
(* queue empty.                                                            *)
StartPeek(t) ==
    /\ Call(t, "peek", "peek")
    /\ UNCHANGED <<heap, counter, size, shutdown, local, best, least, dropped, gone, cleared>>

PeekTake(t) == Goto(t, "peek", "peekReturn") /\ Take(t)

PeekPut(t) == Goto(t, "peekReturn", "peek") /\ Put(t)

PeekEnd(t) ==
    /\ heap = <<>>
    /\ Goto(t, "peek", "idle")
    /\ UNCHANGED <<heap, counter, size, shutdown, local, best, least, dropped, gone, cleared>>

(* clear pops everything and stores 0 in the size.                         *)
StartClear(t) ==
    /\ Call(t, "clear", "clear")
    /\ cleared' = TRUE
    /\ UNCHANGED <<heap, counter, size, shutdown, local, best, least, dropped, gone>>

ClearOne(t) ==
    /\ heap # <<>>
    /\ Goto(t, "clear", "clear")
    /\ gone' = gone \cup {Head(heap)}
    /\ heap' = Tail(heap)
    /\ UNCHANGED <<counter, size, shutdown, local, best, least, dropped, cleared>>

ClearEnd(t) ==
    /\ heap = <<>>
    /\ Goto(t, "clear", "idle")
    /\ size' = 0
    /\ UNCHANGED <<heap, counter, shutdown, local, best, least, dropped, gone, cleared>>

Shutdown(t) ==
    /\ Call(t, "shutdown", "idle")
    /\ ~ shutdown
    /\ shutdown' = TRUE
    /\ UNCHANGED <<heap, counter, size, local, best, least, dropped, gone, cleared>>
-----------------------------------------------------------------------------
PushCall(t) == Push(t) \/ Enqueue(t) \/ CountPush(t)
PopCall(t) ==
    \/ StartPop(t) \/ Drain(t) \/ PopNothing(t) \/ Choose(t) \/ PutBack(t)
    \/ PopReturn(t)
DropCall(t) == StartDrop(t) \/ Keep(t) \/ DropOne(t) \/ Sifted(t) \/ DropReturn(t)
PeekCall(t) == StartPeek(t) \/ PeekTake(t) \/ PeekPut(t) \/ PeekEnd(t)
ClearCall(t) == StartClear(t) \/ ClearOne(t) \/ ClearEnd(t)

Step(t) ==
    PushCall(t) \/ PopCall(t) \/ DropCall(t) \/ PeekCall(t) \/ ClearCall(t) \/ Shutdown(t)

QueueNext == \E t \in Threads : Step(t)

-----------------------------------------------------------------------------
(* A pair for each of the first n[t] things of a thread t.                 *)
Pairs(n) == UNION {{t} \X (1 .. n[t]) : t \in Threads}
InHand ==
    Cardinality(Pairs([t \in Threads |-> Len(local[t])]))
    + Cardinality({t \in Threads : best[t] # NoTask})
Present ==
    ToSet(heap) \cup gone
    \cup (UNION {ToSet(local[t]) : t \in Threads})
    \cup {best[t] : t \in {u \in Threads : best[u] # NoTask}}

(* However the calls interleave, a task that was accepted is in one place  *)
(* only: in the queue, in the hands of one thread, popped or dropped.      *)
TaskConservation ==
    /\ {x.id : x \in Present} = 1 .. counter
    /\ Len(heap) + InHand + Cardinality(gone) = counter

(* The size test and the insertion are apart, so max_size can be exceeded, *)
(* but by no more than one task for every other thread; and when nobody is *)
(* calling, current_size is the number of tasks.  Only clear, which stores *)
(* 0 whatever the other threads hold, is excepted.                         *)
SizeIsBounded ==
    ~ cleared =>
        /\ Len(heap) + InHand <= MaxSize + Cardinality(Threads) - 1
        /\ Quiet => size = Len(heap)

(* Tasks and count, in one.                                                *)
QueueAccounted == TaskConservation /\ SizeIsBounded

(* "Pop the highest priority task", "earliest timestamp for ties", as      *)
(* test_priority_ordering expects: nothing that pop puts back was more     *)
(* important or older than what it returns.                                *)
PopHighest ==
    \A t \in Threads : pc[t] = "putBack" =>
        \A i \in DOMAIN local[t] :
            \/ best[t].priority > local[t][i].priority
            \/ best[t].priority = local[t][i].priority /\ best[t].id < local[t][i].id
=============================================================================
