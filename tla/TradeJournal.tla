---------------------------- MODULE TradeJournal ----------------------------
(***************************************************************************)
(* JournalWriter and EventRingBuffer of crates/journal/src/event_logger.rs.*)
(* One thread logs events into a batch and pushes the batch into the ring  *)
(* when it is full or late; another one pops them.  An event is its number.*)
(***************************************************************************)
EXTENDS ThreadSteps, Integers, Sequences, SequencesExt

CONSTANTS
    RingSlots,      \* CAPACITY
    BatchLimit,     \* length of the batch array, 64
    MaxEvents       \* bound on the events logged

ASSUME JournalAssumption ==
    RingSlots \in Nat \ {0} /\ BatchLimit \in Nat \ {0} /\ MaxEvents \in Nat

VARIABLES
    writer,         \* the thread that owns the JournalWriter
    batch,          \* batch[..batch_size]
    flushed,        \* `i` of flush
    ring,           \* buffer
    head, tail,
    count,          \* unsigned in the code: below zero it has wrapped
    down,           \* shutdown
    taken,          \* the event pop has read
    logged,         \* events logged so far
    popped,         \* history: what pop returned
    discarded       \* history: what flush dropped

journalVars ==
    <<writer, batch, flushed, ring, head, tail, count, down, taken, logged, popped, discarded>>

JournalInit ==
    /\ batch = <<>> /\ flushed = 0
    /\ ring = [i \in 0 .. (RingSlots - 1) |-> 0]
    /\ head = 0 /\ tail = 0 /\ count = 0
    /\ down = FALSE
    /\ taken = 0
    /\ logged = 0 /\ popped = <<>> /\ discarded = {}

(* log_event: the batch is flushed when it is full, or when the interval   *)
(* has elapsed, which may be at any event.                                 *)
LogEvent(t) ==
    /\ t = writer /\ logged < MaxEvents
    /\ logged' = logged + 1
    /\ batch' = Append(batch, logged + 1)
    /\ \/ Goto(t, "idle", "push") /\ flushed' = 0
       \/ Len(batch') < BatchLimit /\ pc[t] = "idle" /\ UNCHANGED <<pc, flushed>>
    /\ UNCHANGED <<writer, ring, head, tail, count, down, taken, popped, discarded>>

ForceFlush(t) ==
    /\ t = writer /\ batch # <<>>
    /\ Goto(t, "idle", "push") /\ flushed' = 0
    /\ UNCHANGED <<writer, batch, ring, head, tail, count, down, taken, logged, popped, discarded>>

(* Mutant: the test is off by one and the oldest event is overwritten.     *)
MutantRingFull == head - tail > RingSlots

RingFull == head - tail >= RingSlots

(* The tests of push.  When one fails, flush drops the rest of the batch.  *)
PushTest(t) ==
    /\ t = writer
    /\ IF down \/ RingFull
         THEN /\ Goto(t, "push", "idle")
              /\ discarded' = discarded \cup ToSet(SubSeq(batch, flushed + 1, Len(batch)))
              /\ batch' = <<>> /\ flushed' = 0
         ELSE Goto(t, "push", "write") /\ UNCHANGED <<batch, flushed, discarded>>
    /\ UNCHANGED <<writer, ring, head, tail, count, down, taken, logged, popped>>

WriteSlot(t) ==
    /\ t = writer /\ Goto(t, "write", "publish")
    /\ ring' = [ring EXCEPT ![head % RingSlots] = batch[flushed + 1]]
    /\ UNCHANGED <<writer, batch, flushed, head, tail, count, down, taken, logged, popped, discarded>>

Publish(t) ==
    /\ t = writer /\ Goto(t, "publish", "countPush")
    /\ head' = head + 1
    /\ flushed' = flushed + 1
    /\ UNCHANGED <<writer, batch, ring, tail, count, down, taken, logged, popped, discarded>>

CountWritten(t) ==
    /\ t = writer
    /\ count' = count + 1
    /\ IF flushed = Len(batch)
         THEN Goto(t, "countPush", "idle") /\ batch' = <<>> /\ flushed' = 0
         ELSE Goto(t, "countPush", "push") /\ UNCHANGED <<batch, flushed>>
    /\ UNCHANGED <<writer, ring, head, tail, down, taken, logged, popped, discarded>>

-----------------------------------------------------------------------------
(* pop, which drain_into repeats.                                          *)
ReadSlot(t) ==
    /\ t # writer /\ tail < head
    /\ Goto(t, "idle", "advance")
    /\ taken' = ring[tail % RingSlots]
    /\ UNCHANGED <<writer, batch, flushed, ring, head, tail, count, down, logged, popped, discarded>>

AdvanceTail(t) ==
    /\ t # writer /\ Goto(t, "advance", "countPop")
    /\ tail' = tail + 1
    /\ popped' = Append(popped, taken)
    /\ UNCHANGED <<writer, batch, flushed, ring, head, count, down, taken, logged, discarded>>

CountPopped(t) ==
    /\ t # writer /\ Goto(t, "countPop", "idle")
    /\ count' = count - 1
    /\ UNCHANGED <<writer, batch, flushed, ring, head, tail, down, taken, logged, popped, discarded>>

ShutDownRing(t) ==
    /\ t # writer /\ pc[t] = "idle" /\ ~ down
    /\ down' = TRUE
    /\ UNCHANGED <<pc, writer, batch, flushed, ring, head, tail, count, taken, logged, popped, discarded>>

JournalNext ==
    \E t \in Threads :
        \/ LogEvent(t) \/ ForceFlush(t) \/ PushTest(t) \/ WriteSlot(t) \/ Publish(t)
        \/ CountWritten(t) \/ ReadSlot(t) \/ AdvanceTail(t) \/ CountPopped(t) \/ ShutDownRing(t)

-----------------------------------------------------------------------------
InRing == [i \in 1 .. (head - tail) |-> ring[(tail + i - 1) % RingSlots]]
Journal == popped \o InRing \o SubSeq(batch, flushed + 1, Len(batch))

(* "Captures every microsecond of order lifecycle": the reader gets the    *)
(* events once each and in the order they were logged, whatever the        *)
(* interleaving; one that is missing was dropped by a flush that found the *)
(* ring full or shut down; len() is right between two calls.               *)
JournalIsComplete ==
    /\ \A i \in 1 .. (Len(Journal) - 1) : Journal[i] < Journal[i + 1]
    /\ ToSet(Journal) \cup discarded = 1 .. logged
    /\ ToSet(Journal) \cap discarded = {}
    /\ Quiet => count = Len(InRing)
=============================================================================
