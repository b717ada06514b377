----------------------------- MODULE ChildOrders -----------------------------
(***************************************************************************)
(* Around the algorithms of crates/execution: the driver, which sends one  *)
(* child order at a time, of the size the algorithm names, once every call *)
(* that records a fill has returned; and the venue, which fills it in one  *)
(* or more pieces, each reported on a thread of its own.  Neither is in the*)
(* repository.  `algo` says which algorithm works the order.               *)
(***************************************************************************)
EXTENDS Integers, FiniteSetsExt

CONSTANTS
    Algos,
    Quantity,   \* total_quantity of the parent order
    Handlers,   \* threads that report fills
    MaxFilled   \* bound on what the venue fills, above Quantity

ASSUME ChildAssumption ==
    /\ Algos \subseteq {"iceberg", "plain", "twap", "vwap", "adaptive", "cvd",
                       "reserve", "discretionary", "pegged"}
    /\ Quantity \in Nat \ {0} /\ MaxFilled \in Nat

VARIABLES
    algo,
    working,    \* what is open of the child order at the venue
    filled,     \* history: what the venue has filled
    executed,   \* executed_quantity of the algorithm
    pc,         \* where each handler is in the recording of its fill
    qty,        \* the fill it records
    held,       \* what it has computed and not yet stored
    overlapped  \* history: two fills have been recorded at the same time

childVars == <<algo, working, filled, executed, pc, qty, held, overlapped>>

ChildInit ==
    /\ algo \in Algos
    /\ working = 0 /\ filled = 0 /\ executed = 0
    /\ pc = [h \in Handlers |-> "idle"]
    /\ qty = [h \in Handlers |-> 0]
    /\ held = [h \in Handlers |-> 0]
    /\ overlapped = FALSE

Remaining == Quantity - executed
Quiet == \A h \in Handlers : pc[h] = "idle"

Goto(h, from, to) == pc[h] = from /\ pc' = [pc EXCEPT ![h] = to]

Place(size) ==
    /\ Quiet /\ working = 0 /\ filled < MaxFilled
    /\ size > 0
    /\ working' = size
    /\ UNCHANGED <<algo, filled, executed, pc, qty, held, overlapped>>

VenueFills(h) ==
    \E q \in 1 .. working :
        /\ Goto(h, "idle", "report")
        /\ qty' = [qty EXCEPT ![h] = q]
        /\ working' = working - q
        /\ filled' = filled + q
        /\ overlapped' = (overlapped \/ ~Quiet)
        /\ UNCHANGED <<algo, executed, held>>

(* What has been filled and is not in executed_quantity yet.               *)
Unrecorded == filled - executed
=============================================================================
