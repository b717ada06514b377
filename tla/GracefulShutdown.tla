-------------------------- MODULE GracefulShutdown --------------------------
(***************************************************************************)
(* BackendGracefulShutdown of python/system/backend_graceful_shutdown.py:  *)
(* a sequence of awaited callbacks, each of which may return success,      *)
(* return failure or raise, while the strategies trade on until it is      *)
(* their turn to be stopped.  Callbacks, strategies and exchange are       *)
(* external; progress reports are left out.                                *)
(***************************************************************************)
EXTENDS Naturals

CONSTANTS
    MaxOpen,        \* bound on open orders
    MaxChanges      \* bound on what strategies and exchange do

ASSUME ShutdownAssumption == MaxOpen \in Nat /\ MaxChanges \in Nat

VARIABLES
    shutdown,       \* [phase, by]; the phase is "none" before the first request
    callback,       \* of the current phase: "called" or "acted"
    failed,         \* phases with an entry in errors
    openOrders, exposed, strategiesUp, rayUp,
    changes,        \* version of the state in memory
    saved,          \* version on disk
    late            \* history: orders were placed after the cancellation

tradingVars == <<openOrders, exposed, changes>>
shutdownVars == <<shutdown, callback, failed, tradingVars, strategiesUp, rayUp, saved, late>>

ShutdownInit ==
    /\ shutdown = [phase |-> "none", by |-> "nobody"]
    /\ callback = "called" /\ failed = {}
    /\ openOrders = 0 /\ exposed = FALSE /\ changes = 0
    /\ strategiesUp = TRUE /\ rayUp = TRUE
    /\ saved = 0 /\ late = FALSE

Busy == shutdown.phase \notin {"none", "completed"}

(* initiate_shutdown, of a signal or of the kill switch: the first request *)
(* decides, every later one is told that a shutdown is in progress.        *)
InitiateShutdown(by) ==
    /\ shutdown.phase = "none"
    /\ shutdown' = [phase |-> "canceling", by |-> by]
    /\ UNCHANGED <<callback, failed, tradingVars, strategiesUp, rayUp, saved, late>>

PhaseAfter(phase) ==
    CASE phase = "canceling" -> IF shutdown.by = "ui_kill" THEN "flattening" ELSE "flushing"
      [] phase = "flattening" -> "flushing"
      [] phase = "flushing" -> "stopping"
      [] phase = "stopping" -> "teardown"
      [] phase = "teardown" -> "completed"

(* What the callback of the phase does when it works.                      *)
CallbackActs ==
    /\ Busy /\ callback = "called" /\ callback' = "acted"
    /\ openOrders' = IF shutdown.phase = "canceling" THEN 0 ELSE openOrders
    /\ exposed' = (exposed /\ shutdown.phase # "flattening")
    /\ saved' = IF shutdown.phase = "flushing" THEN changes ELSE saved
    /\ strategiesUp' = (strategiesUp /\ shutdown.phase # "stopping")
    /\ rayUp' = (rayUp /\ shutdown.phase # "teardown")
    /\ UNCHANGED <<shutdown, failed, changes, late>>

(* Mutant: a callback is called and not awaited.                           *)
MutantEndPhase ==
    /\ Busy
    /\ shutdown' = [shutdown EXCEPT !.phase = PhaseAfter(@)]
    /\ callback' = "called"
    /\ UNCHANGED <<failed, tradingVars, strategiesUp, rayUp, saved, late>>

(* A failure is recorded and the next phase begins all the same.           *)
EndPhase ==
    /\ Busy
    /\ \/ callback = "acted" /\ UNCHANGED failed
       \/ failed' = failed \cup {shutdown.phase}
    /\ shutdown' = [shutdown EXCEPT !.phase = PhaseAfter(@)]
    /\ callback' = "called"
    /\ UNCHANGED <<tradingVars, strategiesUp, rayUp, saved, late>>

Cancelled == Busy /\ (shutdown.phase # "canceling" \/ callback = "acted")

PlaceOrder ==
    /\ strategiesUp /\ openOrders < MaxOpen /\ changes < MaxChanges
    /\ openOrders' = openOrders + 1
    /\ changes' = changes + 1
    /\ late' = (late \/ Cancelled)
    /\ UNCHANGED <<shutdown, callback, failed, exposed, strategiesUp, rayUp, saved>>

OrderFills ==
    /\ openOrders > 0 /\ changes < MaxChanges
    /\ openOrders' = openOrders - 1
    /\ exposed' = TRUE
    /\ changes' = changes + 1
    /\ UNCHANGED <<shutdown, callback, failed, strategiesUp, rayUp, saved, late>>

ShutdownNext ==
    \/ \E by \in {"signal", "ui_kill"} : InitiateShutdown(by)
    \/ CallbackActs \/ EndPhase \/ PlaceOrder \/ OrderFills

-----------------------------------------------------------------------------
(* A shutdown that completes without an error leaves no open order, no     *)
(* position if the kill switch asked for it, nothing in memory that is not *)
(* on disk and nothing running, as long as the strategies, which are       *)
(* stopped last but one, placed no order after the cancellation.           *)
CompletedIsClean ==
    shutdown.phase = "completed" /\ failed = {} =>
        /\ ~strategiesUp /\ ~rayUp
        /\ ~late => /\ openOrders = 0 /\ saved = changes
                    /\ shutdown.by = "ui_kill" => ~exposed
=============================================================================
