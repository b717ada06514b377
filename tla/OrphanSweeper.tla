--------------------------- MODULE OrphanSweeper ----------------------------
(***************************************************************************)
(* OrphanOrderSweeper of crates/resilience/src/orphan_order_sweeper.rs:    *)
(* orders wait in a lock-free queue until a sweep takes them out one by    *)
(* one, keeps those to be cancelled and puts the others back.  An order is *)
(* its number.  A confirmation only goes to a queue that nothing reads:    *)
(* is_confirmed is always false, so it has no action here.                 *)
(***************************************************************************)
EXTENDS ThreadSteps, Integers, Sequences, SequencesExt

CONSTANTS
    AggressiveMode,     \* config.aggressive_mode
    MaxPending          \* bound on the orders registered

ASSUME SweeperAssumption == AggressiveMode \in BOOLEAN /\ MaxPending \in Nat

VARIABLES
    pendingOrders,      \* the queue
    registered,         \* orders registered so far
    late,               \* orders whose age is over their timeout_ms
    networkConnected,
    sweeperActive,      \* `active`
    lateAtStart,        \* of each thread: `late` at its `now`
    orphans,            \* of each thread
    stillPending,       \* of each thread
    removed,            \* history: orders that clear took out
    reported,           \* history: what the sweeps returned
    overlapped          \* history: another sweep was going on during this one

sweeperVars ==
    <<pendingOrders, registered, late, networkConnected, sweeperActive, lateAtStart,
      orphans, stillPending, removed, reported, overlapped>>

SweeperInit ==
    /\ pendingOrders = <<>> /\ registered = 0 /\ late = {}
    /\ networkConnected = TRUE /\ sweeperActive = TRUE
    /\ lateAtStart = [t \in Threads |-> {}]
    /\ orphans = [t \in Threads |-> {}]
    /\ stillPending = [t \in Threads |-> <<>>]
    /\ removed = {} /\ reported = {}
    /\ overlapped = [t \in Threads |-> FALSE]

Sweeping(t) == pc[t] \in {"sweep", "requeue"}

RegisterPending(t) ==
    /\ pc[t] = "idle" /\ registered < MaxPending
    /\ registered' = registered + 1
    /\ pendingOrders' = Append(pendingOrders, registered + 1)
    /\ UNCHANGED <<pc, late, networkConnected, sweeperActive, lateAtStart, orphans,
                   stillPending, removed, reported, overlapped>>

(* Each order has its own timeout: any one left may be the next to run out.*)
TimeOut ==
    /\ \E o \in (1 .. registered) \ (late \cup removed \cup reported) :
         late' = late \cup {o}
    /\ UNCHANGED <<pc, pendingOrders, registered, networkConnected, sweeperActive,
                   lateAtStart, orphans, stillPending, removed, reported, overlapped>>

(* on_network_drop and on_network_restore, from the thread that notices.   *)
NetworkTurns(t) ==
    /\ pc[t] = "idle"
    /\ networkConnected' = ~ networkConnected
    /\ UNCHANGED <<pc, pendingOrders, registered, late, sweeperActive, lateAtStart, orphans,
                   stillPending, removed, reported, overlapped>>

SetActive(t) ==
    /\ pc[t] = "idle"
    /\ sweeperActive' = ~ sweeperActive
    /\ UNCHANGED <<pc, pendingOrders, registered, late, networkConnected, lateAtStart,
                   orphans, stillPending, removed, reported, overlapped>>

-----------------------------------------------------------------------------
(* sweep: the clock is read once, before the first order is taken.         *)
StartSweep(t) ==
    /\ sweeperActive
    /\ Goto(t, "idle", "sweep")
    /\ lateAtStart' = [lateAtStart EXCEPT ![t] = late]
    /\ overlapped' = [u \in Threads |->
         IF u = t THEN \E v \in Threads : Sweeping(v)
                  ELSE overlapped[u] \/ Sweeping(u)]
    /\ UNCHANGED <<pendingOrders, registered, late, networkConnected, sweeperActive,
                   orphans, stillPending, removed, reported>>

(* Mutant: with the aggressive mode on, only the network counts.           *)
MutantIsOrphan(t, o) ==
    IF AggressiveMode THEN ~ networkConnected ELSE o \in lateAtStart[t]

IsOrphan(t, o) == o \in lateAtStart[t] \/ (AggressiveMode /\ ~ networkConnected)

SweepOne(t) ==
    /\ pc[t] = "sweep" /\ pendingOrders # <<>>
    /\ LET o == Head(pendingOrders) IN
         IF IsOrphan(t, o)
           THEN /\ orphans' = [orphans EXCEPT ![t] = @ \cup {o}]
                /\ UNCHANGED stillPending
           ELSE /\ stillPending' = [stillPending EXCEPT ![t] = Append(@, o)]
                /\ UNCHANGED orphans
    /\ pendingOrders' = Tail(pendingOrders)
    /\ UNCHANGED <<pc, registered, late, networkConnected, sweeperActive, lateAtStart,
                   removed, reported, overlapped>>

SweptAll(t) ==
    /\ pendingOrders = <<>>
    /\ Goto(t, "sweep", "requeue")
    /\ UNCHANGED sweeperVars

Requeue(t) ==
    /\ pc[t] = "requeue" /\ stillPending[t] # <<>>
    /\ pendingOrders' = Append(pendingOrders, Head(stillPending[t]))
    /\ stillPending' = [stillPending EXCEPT ![t] = Tail(@)]
    /\ UNCHANGED <<pc, registered, late, networkConnected, sweeperActive, lateAtStart,
                   orphans, removed, reported, overlapped>>

(* The caller gets the orphans.                                            *)
SweepReturns(t) ==
    /\ stillPending[t] = <<>>
    /\ Goto(t, "requeue", "idle")
    /\ reported' = reported \cup orphans[t]
    /\ orphans' = [orphans EXCEPT ![t] = {}]
    /\ lateAtStart' = [lateAtStart EXCEPT ![t] = {}]
    /\ overlapped' = [overlapped EXCEPT ![t] = FALSE]
    /\ UNCHANGED <<pendingOrders, registered, late, networkConnected, sweeperActive,
                   stillPending, removed>>

(* clear pops until the queue is empty.                                    *)
ClearPending(t) ==
    /\ \/ pendingOrders # <<>> /\ Goto(t, "idle", "clearPending")
       \/ pendingOrders # <<>> /\ Goto(t, "clearPending", "clearPending")
       \/ pendingOrders = <<>> /\ Goto(t, "clearPending", "idle")
    /\ pendingOrders' = IF pendingOrders = <<>> THEN <<>> ELSE Tail(pendingOrders)
    /\ removed' = removed \cup (IF pendingOrders = <<>> THEN {} ELSE {Head(pendingOrders)})
    /\ UNCHANGED <<registered, late, networkConnected, sweeperActive, lateAtStart, orphans,
                   stillPending, reported, overlapped>>

SweeperNext ==
    \/ TimeOut
    \/ \E t \in Threads :
         \/ RegisterPending(t) \/ NetworkTurns(t) \/ SetActive(t)
         \/ StartSweep(t) \/ SweepOne(t) \/ SweptAll(t) \/ Requeue(t) \/ SweepReturns(t)
         \/ ClearPending(t)

-----------------------------------------------------------------------------
Waiting == ToSet(pendingOrders)
InHands(t) == orphans[t] \cup ToSet(stillPending[t])

(* "Collect all pending orders", "Re-queue non-orphaned orders": sweeps,   *)
(* registrations and clear may interleave as they like, an order stays in  *)
(* one place, none is forgotten and none is reported for cancellation      *)
(* twice.  And a sweep with no other one beside it leaves nothing behind   *)
(* that was late when it looked at the clock.                              *)
SweepAccounted ==
    /\ Waiting \cup removed \cup reported \cup (UNION {InHands(t) : t \in Threads})
         = 1 .. registered
    /\ IsInjective(pendingOrders) /\ removed \cap reported = {}
    /\ Waiting \cap (removed \cup reported) = {}
    /\ \A t \in Threads :
         /\ InHands(t) \cap (Waiting \cup removed \cup reported) = {}
         /\ \A u \in Threads \ {t} : InHands(t) \cap InHands(u) = {}
         /\ pc[t] = "requeue" /\ ~ overlapped[t]
              => lateAtStart[t] \cap (Waiting \cup ToSet(stillPending[t])) = {}
=============================================================================
