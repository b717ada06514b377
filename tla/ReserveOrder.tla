---------------------------- MODULE ReserveOrder -----------------------------
(***************************************************************************)
(* Orders that show a part of themselves: ReserveOrder with                *)
(* ReserveOrderManager of crates/execution/src/discretionary_orders.rs     *)
(* (algo "reserve"), which has the order to itself while it records a fill,*)
(* and DiscretionaryOrder of pegged_orders.rs (algo "discretionary"), made *)
(* of atomics that several threads may change at once.  Fill and volume      *)
(* statistics are left out.                                                *)
(***************************************************************************)
EXTENDS ChildOrders

CONSTANTS
    Display,    \* display_qty
    MaxToggles  \* bound on the calls of set_enabled

ASSUME ReserveAssumption == Display \in Nat /\ MaxToggles \in Nat

VARIABLES
    reserve,        \* hidden_qty, or reserve_qty
    isActive,       \* is_active of the order
    enabled,        \* of the manager
    activeCount,    \* active_count of the manager
    toggles,
    dropped         \* history: fills that process_fill has returned without

reserveVars == <<reserve, isActive, enabled, activeCount, toggles, dropped>>

ReserveInit ==
    /\ reserve = Max({Quantity - Display, 0})
    /\ isActive = TRUE
    /\ enabled = TRUE
    /\ activeCount = 1
    /\ toggles = 0
    /\ dropped = 0

(* current_visible, visible_qty.                                           *)
CurrentVisible == Min({Remaining, Display})

PlaceReserve ==
    /\ algo \in {"reserve", "discretionary"}
    /\ isActive
    /\ Place(CurrentVisible)
    /\ UNCHANGED reserveVars

(* The early return of process_fill.                                       *)
Ignores == ~isActive \/ ~enabled

DropFill(h) ==
    /\ algo = "reserve" /\ Ignores
    /\ Goto(h, "report", "idle")
    /\ dropped' = dropped + qty[h]
    /\ UNCHANGED <<algo, working, filled, executed, qty, held, overlapped,
                   reserve, isActive, enabled, activeCount, toggles>>

(* process_fill and ReserveOrder.fill.                                     *)
ProcessFill(h) ==
    /\ algo = "reserve" /\ ~Ignores
    /\ Goto(h, "report", "idle")
    /\ LET actual == Min({qty[h], Remaining})
           left == Remaining - actual
       IN  /\ executed' = executed + actual
           /\ reserve' = reserve - Max({0, Min({Display - left, reserve})})
           /\ isActive' = (left > 0)
           /\ activeCount' = IF left > 0 THEN activeCount ELSE activeCount - 1
    /\ UNCHANGED <<algo, working, filled, qty, held, overlapped, enabled, toggles, dropped>>

(* ReserveOrder.cancel: the manager is not told.                           *)
CancelReserve ==
    /\ algo = "reserve"
    /\ isActive' = FALSE
    /\ UNCHANGED <<childVars, reserve, enabled, activeCount, toggles, dropped>>

SetReserveEnabled ==
    /\ algo = "reserve" /\ toggles < MaxToggles
    /\ enabled' = ~enabled
    /\ toggles' = toggles + 1
    /\ UNCHANGED <<childVars, reserve, isActive, activeCount, dropped>>

-----------------------------------------------------------------------------
(* DiscretionaryOrder.fill.                                                *)
LoadRemaining(h) ==
    /\ algo = "discretionary"
    /\ Goto(h, "report", "take")
    /\ held' = [held EXCEPT ![h] = Remaining]
    /\ UNCHANGED <<algo, working, filled, executed, qty, overlapped, reserveVars>>

LeftAfter(h) == held[h] - Min({qty[h], held[h]})

TakeFromRemaining(h) ==
    /\ algo = "discretionary"
    /\ Goto(h, "take", IF Display > LeftAfter(h) THEN "load reserve" ELSE "idle")
    /\ executed' = executed + Min({qty[h], held[h]})
    /\ UNCHANGED <<algo, working, filled, qty, held, overlapped, reserveVars>>

LoadReserve(h) ==
    /\ Goto(h, "load reserve", "sub reserve")
    /\ held' = [held EXCEPT ![h] = Min({Display - LeftAfter(h), reserve})]
    /\ UNCHANGED <<algo, working, filled, executed, qty, overlapped, reserveVars>>

SubReserve(h) ==
    /\ Goto(h, "sub reserve", "idle")
    /\ reserve' = reserve - held[h]
    /\ UNCHANGED <<algo, working, filled, executed, qty, held, overlapped, isActive,
                   enabled, activeCount, toggles, dropped>>

ReserveStep(h) ==
    DropFill(h) \/ ProcessFill(h) \/ LoadRemaining(h) \/ TakeFromRemaining(h)
    \/ LoadReserve(h) \/ SubReserve(h)

ReserveNext ==
    PlaceReserve \/ CancelReserve \/ SetReserveEnabled \/ \E h \in Handlers : ReserveStep(h)

(* As long as no two fills were recorded at once, no reserve is negative,  *)
(* every fill is in the executed quantity or was ignored by the manager,   *)
(* and the manager never counts fewer orders than are active.              *)
ReserveBooks ==
    algo \in {"reserve", "discretionary"} /\ Quiet /\ ~overlapped =>
        /\ reserve >= 0
        /\ algo = "reserve" => filled = executed + dropped
        /\ isActive => activeCount = 1
=============================================================================
