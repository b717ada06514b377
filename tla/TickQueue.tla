----------------------------- MODULE TickQueue ------------------------------
(***************************************************************************)
(* What the tick buffer of the core engine promises its two users: a       *)
(* bounded FIFO of sequence-numbered ticks.  A tick that is offered is     *)
(* either appended or, if and only if the queue is full, refused and       *)
(* counted as lost.  TickRing shows that the lock-free ring buffer of      *)
(* crates/core-engine/src/event_bus.rs implements this specification, and  *)
(* TradingEngine uses it in the ring's place.                              *)
(***************************************************************************)
EXTENDS Naturals, Sequences

CONSTANTS
    Limit,      \* how many ticks fit: the capacity of the ring minus one
    MaxTicks    \* bound on the number of ticks the producer ever offers

VARIABLES
    queue,      \* the ticks accepted and not yet delivered, oldest first
    offered,    \* sequence number of the last tick that was offered
    out,        \* sequence number of the last tick that was delivered
    lost        \* how many ticks were refused

qvars == <<queue, offered, out, lost>>

Init ==
    /\ queue = <<>>
    /\ offered = 0
    /\ out = 0
    /\ lost = 0

(* TickRingBuffer::push that returns true.                                 *)
Accept ==
    /\ offered < MaxTicks
    /\ Len(queue) < Limit
    /\ offered' = offered + 1
    /\ queue' = Append(queue, offered + 1)
    /\ UNCHANGED <<out, lost>>

(* TickRingBuffer::push that returns false.                                *)
Refuse ==
    /\ offered < MaxTicks
    /\ Len(queue) = Limit
    /\ offered' = offered + 1
    /\ lost' = lost + 1
    /\ UNCHANGED <<queue, out>>

(* TickRingBuffer::pop that returns a tick.                                *)
Deliver ==
    /\ queue # <<>>
    /\ out' = Head(queue)
    /\ queue' = Tail(queue)
    /\ UNCHANGED <<offered, lost>>

Next == Accept \/ Refuse \/ Deliver

Spec == Init /\ [][Next]_qvars
=============================================================================
