------------------------------ MODULE TickRing ------------------------------
(***************************************************************************)
(* TickRingBuffer of crates/core-engine/src/event_bus.rs, the lock-free    *)
(* single-producer single-consumer ring between the network thread and the *)
(* strategy thread (crates/core-engine/src/main.rs).  Every load or store  *)
(* of an index and every access to a slot is a step of its own, so that    *)
(* push and pop interleave the way two threads do.                         *)
(*                                                                         *)
(* A tick is its sequence number: network_io_loop numbers the ticks from 1 *)
(* and the other fields never influence a decision.                        *)
(***************************************************************************)
EXTENDS Integers, Sequences

CONSTANTS
    Capacity,   \* number of slots, the argument of TickRingBuffer::new
    MaxTicks,   \* bound on the number of ticks the network thread produces
    NoTick      \* the None of a slot

ASSUME CapacityAssumption == Capacity \in Nat \ {0}
ASSUME MaxTicksAssumption == MaxTicks \in Nat
ASSUME NoTickAssumption == NoTick \notin Nat

VARIABLES
    slots,      \* the buffer
    head,       \* index of the oldest tick; stored by the consumer only
    tail,       \* index of the next free slot; stored by the producer only
    overflow,   \* overflow_count
    seq,        \* tick_count of network_io_loop: number of the current tick
    ppc,        \* where the network thread is in push
    held,       \* local `tick` of pop: what take() returned
    out,        \* sequence number of the last tick pop returned
    cpc,        \* where the strategy thread is in pop_tick
    processed   \* events_processed of the bus

pvars == <<tail, overflow, seq, ppc>>
cvars == <<head, held, out, cpc, processed>>
vars == <<slots, pvars, cvars>>

Slots == 0 .. (Capacity - 1)

Init ==
    /\ slots = [i \in Slots |-> NoTick]
    /\ head = 0
    /\ tail = 0
    /\ overflow = 0
    /\ seq = 0
    /\ ppc = "idle"
    /\ held = NoTick
    /\ out = 0
    /\ cpc = "idle"
    /\ processed = 0

NextIndex(i) == (i + 1) % Capacity

(* len(), of the current head and tail.                                    *)
Size == IF tail >= head THEN tail - head ELSE Capacity - (head - tail)

-----------------------------------------------------------------------------
(* The network thread.                                                     *)

(* The loop body up to the call of push, and push's load of its own tail.  *)
PushBegin ==
    /\ ppc = "idle"
    /\ seq < MaxTicks
    /\ seq' = seq + 1
    /\ ppc' = "check"
    /\ UNCHANGED <<slots, tail, overflow, cvars>>

(* Mutant, like every operator whose name starts so: a slip in the code    *)
(* that a property must notice.  Here the buffer is never found full.      *)
MutantPushCheckNeverFull ==
    /\ ppc = "check"
    /\ ppc' = "write"
    /\ UNCHANGED <<slots, tail, overflow, seq, cvars>>

(* Mutant: off by one, the buffer is called full a slot too early.         *)
MutantPushCheckEarlyFull ==
    /\ ppc = "check"
    /\ ppc' = IF NextIndex(NextIndex(tail)) = head THEN "overflow" ELSE "write"
    /\ UNCHANGED <<slots, tail, overflow, seq, cvars>>

(* Load of head (Acquire) and the test for a full buffer.                  *)
PushCheck ==
    /\ ppc = "check"
    /\ ppc' = IF NextIndex(tail) = head THEN "overflow" ELSE "write"
    /\ UNCHANGED <<slots, tail, overflow, seq, cvars>>

(* Mutant: a refused tick is not counted.                                  *)
MutantPushOverflow ==
    /\ ppc = "overflow"
    /\ ppc' = "idle"
    /\ UNCHANGED <<slots, tail, overflow, seq, cvars>>

PushOverflow ==
    /\ ppc = "overflow"
    /\ overflow' = overflow + 1
    /\ ppc' = "idle"
    /\ UNCHANGED <<slots, tail, seq, cvars>>

PushWrite ==
    /\ ppc = "write"
    /\ slots' = [slots EXCEPT ![tail] = seq]
    /\ ppc' = "publish"
    /\ UNCHANGED <<tail, overflow, seq, cvars>>

(* Mutant: the store of tail is forgotten.                                 *)
MutantPushPublish ==
    /\ ppc = "publish"
    /\ ppc' = "idle"
    /\ UNCHANGED <<slots, tail, overflow, seq, cvars>>

(* Store of tail (Release); push returns true.                             *)
PushPublish ==
    /\ ppc = "publish"
    /\ tail' = NextIndex(tail)
    /\ ppc' = "idle"
    /\ UNCHANGED <<slots, overflow, seq, cvars>>

-----------------------------------------------------------------------------
(* The strategy thread.                                                    *)

(* Load of tail (Acquire).  When the buffer is empty pop returns None and  *)
(* nothing changes.                                                        *)
PopCheck ==
    /\ cpc = "idle"
    /\ head # tail
    /\ cpc' = "take"
    /\ UNCHANGED <<slots, head, held, out, processed, pvars>>

PopTake ==
    /\ cpc = "take"
    /\ held' = slots[head]
    /\ slots' = [slots EXCEPT ![head] = NoTick]
    /\ cpc' = "advance"
    /\ UNCHANGED <<head, out, processed, pvars>>

(* Store of head (Release); pop returns what it took.                      *)
PopAdvance ==
    /\ cpc = "advance"
    /\ head' = NextIndex(head)
    /\ out' = IF held = NoTick THEN out ELSE held
    /\ cpc' = "count"
    /\ UNCHANGED <<slots, held, processed, pvars>>

(* EventBus::pop_tick counts the event if there was one.                   *)
PopCount ==
    /\ cpc = "count"
    /\ processed' = IF held = NoTick THEN processed ELSE processed + 1
    /\ held' = NoTick
    /\ cpc' = "idle"
    /\ UNCHANGED <<slots, head, out, pvars>>

-----------------------------------------------------------------------------
Producer == PushBegin \/ PushCheck \/ PushOverflow \/ PushWrite \/ PushPublish
Consumer == PopCheck \/ PopTake \/ PopAdvance \/ PopCount

Next == Producer \/ Consumer

Spec == Init /\ [][Next]_vars

-----------------------------------------------------------------------------
TypeOK ==
    /\ slots \in [Slots -> Nat \cup {NoTick}]
    /\ head \in Slots
    /\ tail \in Slots
    /\ overflow \in Nat
    /\ seq \in 0 .. MaxTicks
    /\ ppc \in {"idle", "check", "overflow", "write", "publish"}
    /\ held \in Nat \cup {NoTick}
    /\ out \in Nat
    /\ cpc \in {"idle", "take", "advance", "count"}
    /\ processed \in Nat

(* The two threads never touch the same slot: when the producer is about   *)
(* to write one and the consumer about to take one, the slots differ.      *)
(* Nothing but the two index protocols keeps the unsafe accesses apart.    *)
NoSlotRace ==
    ppc = "write" /\ cpc = "take" => head # tail

(* pop that saw a non-empty buffer really gets a tick, never the None of a *)
(* slot the producer has not filled yet.                                   *)
PopYieldsTick ==
    cpc \in {"advance", "count"} => held # NoTick

(* How many ticks push has dealt with and pop_tick has accounted for.      *)
Decided == seq - (IF ppc = "idle" THEN 0 ELSE 1)
Popped == processed + (IF cpc = "count" THEN 1 ELSE 0)

(* No tick vanishes: each one that went through push was popped, is in the *)
(* buffer or is counted by overflow_count.                                 *)
Conservation ==
    Decided = Popped + Size + overflow

(* A tick that was accepted leaves its slot in the end, however late the   *)
(* strategy thread is.                                                     *)
Delivery ==
    \A i \in Slots : (slots[i] # NoTick) ~> (slots[i] = NoTick)

-----------------------------------------------------------------------------
(* The ring implements TickQueue.  A tick counts as queued from the store  *)
(* of tail to the store of head; while pop is between take() and that      *)
(* store, the oldest tick is in its local variable.                        *)
Slot(k) == IF head + k >= Capacity THEN head + k - Capacity ELSE head + k

Contents ==
    [k \in 1 .. Size |->
        IF k = 1 /\ cpc = "advance" THEN held ELSE slots[Slot(k - 1)]]

Queue == INSTANCE TickQueue WITH
            Limit   <- Capacity - 1,
            queue   <- Contents,
            offered <- seq - (IF ppc \in {"check", "write", "publish"} THEN 1 ELSE 0),
            lost    <- overflow + (IF ppc = "overflow" THEN 1 ELSE 0)

(* Every behaviour of the ring is one of the bounded FIFO: ticks come out  *)
(* in the order they went in, none twice, and one is refused only when     *)
(* Capacity - 1 ticks are waiting.                                         *)
ImplementsQueue == Queue!Spec
=============================================================================
