------------------------- MODULE EmergencyFlattener -------------------------
(***************************************************************************)
(* EmergencyFlattener of crates/circuit_breaker/src/emergency_flattener.rs:*)
(* trigger cancels all open orders, then closes all positions at market.   *)
(* Nothing keeps two threads from triggering at once.  The exchange is     *)
(* external: orders are placed and filled while the flattener works, and   *)
(* each of its calls may fail.  The counters of get_stats are left out.    *)
(***************************************************************************)
EXTENDS Integers, FiniteSets, Sequences, SequencesExt

CONSTANTS
    Threads,
    Symbols,
    RetryCount,     \* retry_count
    SmallBelow,     \* positions of fewer units are skipped; 0 for "skip none"
    MaxOrders,      \* bound on the orders ever placed
    MaxTriggers,    \* bound on the calls of trigger
    MaxFaults       \* bound on the exchange's failures

ASSUME FlattenerAssumption ==
    /\ IsFiniteSet(Symbols)
    /\ RetryCount \in Nat /\ SmallBelow \in Nat
    /\ MaxOrders \in Nat /\ MaxTriggers \in Nat /\ MaxFaults \in Nat

VARIABLES
    open,       \* external: open orders, of one unit each
    position,   \* external: units held, negative for short
    placed,     \* external: number of orders placed
    faults,     \* external: number of failures
    phase,
    armed,
    active,
    triggers,   \* number of calls of trigger
    pc,         \* where each thread is
    orders,     \* the orders a thread has still to cancel
    held,       \* the positions it fetched
    todo,       \* the symbols it has still to close
    attempts,   \* failed attempts for the first of them
    undisturbed       \* history: since it began, the last trigger ran alone, no call
                \* failed for good and no order was placed

exchange == <<open, position, placed, faults>>
control == <<armed, active, triggers>>
local == <<orders, held, todo, attempts>>
flattenerVars == <<exchange, control, phase, pc, local, undisturbed>>

Orders == [id : 1 .. MaxOrders, symbol : Symbols, side : {1, -1}]
Alone(t) == \A u \in Threads \ {t} : pc[u] = "idle"
Small(n) == n = 0 \/ (-SmallBelow < n /\ n < SmallBelow)

FlattenerInit ==
    /\ open = {}
    /\ position = [s \in Symbols |-> 0]
    /\ placed = 0
    /\ faults = 0
    /\ phase = "idle"
    /\ armed = TRUE
    /\ active = TRUE
    /\ triggers = 0
    /\ pc = [t \in Threads |-> "idle"]
    /\ orders = [t \in Threads |-> {}]
    /\ held = [t \in Threads |-> [s \in Symbols |-> 0]]
    /\ todo = [t \in Threads |-> <<>>]
    /\ attempts = [t \in Threads |-> 0]
    /\ undisturbed = FALSE

Goto(t, to) == pc' = [pc EXCEPT ![t] = to]
Fault == faults < MaxFaults /\ faults' = faults + 1

-----------------------------------------------------------------------------
(* External: the strategies go on placing orders, the orders are filled.   *)
Place ==
    /\ placed < MaxOrders
    /\ placed' = placed + 1
    /\ \E s \in Symbols, d \in {1, -1} :
          open' = open \cup {[id |-> placed + 1, symbol |-> s, side |-> d]}
    /\ undisturbed' = FALSE
    /\ UNCHANGED <<position, faults, phase, control, pc, local>>

Fill ==
    /\ \E o \in open :
          /\ open' = open \ {o}
          /\ position' = [position EXCEPT ![o.symbol] = @ + o.side]
    /\ UNCHANGED <<placed, faults, phase, control, pc, local, undisturbed>>

-----------------------------------------------------------------------------
(* arm, disarm and set_active.                                             *)
SetArmed ==
    /\ armed' = ~ armed
    /\ UNCHANGED <<exchange, phase, active, triggers, pc, local, undisturbed>>

SetActive ==
    /\ active' = ~ active
    /\ UNCHANGED <<exchange, phase, armed, triggers, pc, local, undisturbed>>

(* reset may be called in the middle of a trigger.                         *)
Reset ==
    /\ phase # "idle"
    /\ phase' = "idle"
    /\ UNCHANGED <<exchange, control, pc, local, undisturbed>>

-----------------------------------------------------------------------------
(* trigger past its two tests; a refused one changes nothing.              *)
Trigger(t) ==
    /\ pc[t] = "idle"
    /\ triggers < MaxTriggers
    /\ active /\ armed
    /\ triggers' = triggers + 1
    /\ phase' = "triggered"
    /\ undisturbed' = Alone(t)
    /\ Goto(t, "fetchOrders")
    /\ UNCHANGED <<exchange, armed, active, local>>

FetchOrders(t) ==
    /\ pc[t] = "fetchOrders"
    /\ phase' = "cancelling"
    /\ orders' = [orders EXCEPT ![t] = open]
    /\ Goto(t, "cancel")
    /\ UNCHANGED <<exchange, control, held, todo, attempts, undisturbed>>

(* cancel_all_orders_async gives up, but trigger goes on to the positions. *)
FetchOrdersFails(t) ==
    /\ pc[t] = "fetchOrders"
    /\ Fault
    /\ phase' = "failed"
    /\ undisturbed' = FALSE
    /\ Goto(t, "cancel")
    /\ UNCHANGED <<open, position, placed, control, local>>

(* The result of cancel_order is ignored; a filled order cannot be         *)
(* canceled.                                                               *)
CancelOne(t) ==
    /\ pc[t] = "cancel"
    /\ \E o \in orders[t] :
          /\ orders' = [orders EXCEPT ![t] = @ \ {o}]
          /\ \/ open' = open \ {o} /\ UNCHANGED <<faults, undisturbed>>
             \/ o \in open /\ Fault /\ undisturbed' = FALSE /\ UNCHANGED open
    /\ UNCHANGED <<position, placed, phase, control, pc, held, todo, attempts>>

(* Mutant: the orders after the first chunk are not canceled.              *)
MutantFetchPositions(t) ==
    /\ pc[t] = "cancel"
    /\ phase' = "closing"
    /\ held' = [held EXCEPT ![t] = position]
    /\ \E s \in SetToSeqs(Symbols) : todo' = [todo EXCEPT ![t] = s]
    /\ Goto(t, "close")
    /\ UNCHANGED <<exchange, control, orders, attempts, undisturbed>>

FetchPositions(t) ==
    /\ pc[t] = "cancel" /\ orders[t] = {}
    /\ phase' = "closing"
    /\ held' = [held EXCEPT ![t] = position]
    /\ \E s \in SetToSeqs(Symbols) : todo' = [todo EXCEPT ![t] = s]
    /\ Goto(t, "close")
    /\ UNCHANGED <<exchange, control, orders, attempts, undisturbed>>

FetchPositionsFails(t) ==
    /\ pc[t] = "cancel" /\ orders[t] = {}
    /\ Fault
    /\ phase' = "failed"
    /\ undisturbed' = FALSE
    /\ Goto(t, "idle")
    /\ UNCHANGED <<open, position, placed, control, local>>

-----------------------------------------------------------------------------
(* The loop over the positions.                                            *)
Closing(t) == pc[t] = "close" /\ todo[t] # <<>>
Quantity(t) == held[t][Head(todo[t])]

(* The next position, with no attempt made.                                *)
Advance(t) ==
    /\ todo' = [todo EXCEPT ![t] = Tail(@)]
    /\ attempts' = [attempts EXCEPT ![t] = 0]

(* Mutant: the loop stays at a position that it skips.                     *)
MutantSkip(t) ==
    /\ Closing(t)
    /\ Small(Quantity(t))
    /\ UNCHANGED flattenerVars

Skip(t) ==
    /\ Closing(t)
    /\ Small(Quantity(t))
    /\ Advance(t)
    /\ UNCHANGED <<exchange, phase, control, pc, orders, held, undisturbed>>

(* Mutant: the order has the side of the position.                         *)
MutantExecuted(t) == [position EXCEPT ![Head(todo[t])] = @ + Quantity(t)]

(* The exchange executes the market order for the fetched quantity.        *)
Executed(t) == [position EXCEPT ![Head(todo[t])] = @ - Quantity(t)]

Attempt(t) == Closing(t) /\ ~ Small(Quantity(t)) /\ attempts[t] < RetryCount

Submit(t) ==
    /\ Attempt(t)
    /\ position' = Executed(t)
    /\ Advance(t)
    /\ UNCHANGED <<open, placed, faults, phase, control, pc, orders, held, undisturbed>>

Failed(t) == [attempts EXCEPT ![t] = @ + 1]

(* A failed submission; one that timed out may have been executed.         *)
SubmitFails(t) ==
    /\ Attempt(t)
    /\ Fault
    /\ \/ UNCHANGED <<position, undisturbed>>
       \/ position' = Executed(t) /\ undisturbed' = FALSE
    /\ attempts' = Failed(t)
    /\ UNCHANGED <<open, placed, phase, control, pc, orders, held, todo>>

(* After the last attempt the position is left as it is.                   *)
GiveUp(t) ==
    /\ Closing(t)
    /\ ~ Small(Quantity(t))
    /\ attempts[t] >= RetryCount
    /\ Advance(t)
    /\ undisturbed' = FALSE
    /\ UNCHANGED <<exchange, phase, control, pc, orders, held>>

Complete(t) ==
    /\ pc[t] = "close" /\ todo[t] = <<>>
    /\ phase' = "completed"
    /\ held' = [held EXCEPT ![t] = [s \in Symbols |-> 0]]
    /\ Goto(t, "idle")
    /\ UNCHANGED <<exchange, control, orders, todo, attempts, undisturbed>>

Flatten(t) ==
    \/ FetchOrders(t) \/ FetchOrdersFails(t) \/ CancelOne(t)
    \/ FetchPositions(t) \/ FetchPositionsFails(t)
    \/ Skip(t) \/ Submit(t) \/ SubmitFails(t) \/ GiveUp(t) \/ Complete(t)

FlattenerNext ==
    \/ Place \/ Fill
    \/ SetArmed \/ SetActive \/ Reset
    \/ \E t \in Threads : Trigger(t) \/ Flatten(t)

-----------------------------------------------------------------------------
(* "market-closes all positions and cancels all open orders": a trigger    *)
(* that completed undisturbed leaves no order open and no position that is *)
(* not small, whatever was filled meanwhile and however often a submission *)
(* had to be repeated.                                                     *)
CleanFinishIsFlat ==
    phase = "completed" /\ undisturbed => open = {} /\ \A s \in Symbols : Small(position[s])

(* A close order closes: it leaves its position at zero, although its      *)
(* quantity was fetched earlier, unless something disturbed the trigger.   *)
(* (A fill takes an order from the book, a close order does not.)          *)
CloseLandsAtZero ==
    [][ undisturbed' /\ open' = open =>
          \A s \in Symbols : position'[s] # position[s] => position'[s] = 0 ]_flattenerVars
=============================================================================
