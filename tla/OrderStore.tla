----------------------------- MODULE OrderStore ------------------------------
(***************************************************************************)
(* LmdbStore of crates/state/src/lmdb_store.rs and CrashRecoveryDaemon of  *)
(* crash_recovery.rs: the orders of a trading process are kept in a store  *)
(* that survives its crashes, and the daemon settles them with an exchange *)
(* that has gone on without it.  The trading process and the exchange are  *)
(* external: an order is stored before it is sent, and what the exchange   *)
(* reports is stored when the process happens to be running.               *)
(***************************************************************************)
EXTENDS Naturals, FiniteSets

CONSTANTS
    Orders,
    Exchanges,
    Clients,            \* exchange_clients: exchanges that were registered
    ExchangeStatuses,   \* those the exchanges give to orders
    AutoCancelOrphans,  \* auto_cancel_orphans
    MaxCalls,           \* bound on the calls of the daemon
    Absent

(* What the daemon takes for active, and what the store lists as open: an  *)
(* order stored as PENDING_NEW is not listed.                              *)
Active == {"PENDING_NEW", "NEW", "PARTIALLY_FILLED"}
ListedAsOpen == {"NEW", "PARTIALLY_FILLED"}

Ended == {"CANCELED", "REJECTED", "FILLED", "EXPIRED"}

ASSUME StoreAssumption ==
    /\ AutoCancelOrphans \in BOOLEAN /\ Clients \subseteq Exchanges
    /\ ExchangeStatuses \subseteq Active \cup Ended
    /\ Absent \notin Active \cup Ended \cup {"error"}

VARIABLES
    status,     \* external: of each order at the exchange, or Absent
    store,      \* the status in the store, or Absent
    venue,      \* order.exchange
    trading,    \* external: the trading process is running
    call,       \* "idle", "recover" or "shutdown": what the daemon does
    toVisit,    \* clients emergency_shutdown has not come to
    todo,       \* orders of its list that it has not asked about
    asking,     \* [order, answer] of the request under way
    missed,     \* history: orders for which a step of the call failed
    expected,   \* history: orders the call has to settle
    calls

daemonVars == <<call, toVisit, todo, asking, missed, expected, calls>>
storeVars == <<status, store, venue, trading, daemonVars>>

Nothing == [order |-> Absent, answer |-> Absent]

StoreInit ==
    /\ status = [o \in Orders |-> Absent]
    /\ store = [o \in Orders |-> Absent]
    /\ venue \in [Orders -> Exchanges]
    /\ trading = TRUE
    /\ call = "idle" /\ toVisit = {} /\ todo = {} /\ asking = Nothing
    /\ missed = {} /\ expected = {} /\ calls = 0

-----------------------------------------------------------------------------
(* The trading process and the exchange.                                   *)
PutNewOrder(o) ==
    /\ trading /\ store[o] = Absent /\ status[o] = Absent
    /\ \E s \in {"PENDING_NEW", "NEW"} : store' = [store EXCEPT ![o] = s]
    /\ UNCHANGED <<status, venue, trading, daemonVars>>

ExchangeOpens(o) ==
    /\ store[o] \in Active /\ status[o] = Absent
    /\ \E s \in {"PENDING_NEW", "NEW"} : status' = [status EXCEPT ![o] = s]
    /\ UNCHANGED <<store, venue, trading, daemonVars>>

ExchangeMoves(o) ==
    /\ status[o] \in Active
    /\ \E s \in ExchangeStatuses \ {"PENDING_NEW"} : status' = [status EXCEPT ![o] = s]
    /\ UNCHANGED <<store, venue, trading, daemonVars>>

PutReport(o) ==
    /\ trading /\ status[o] # Absent
    /\ store' = [store EXCEPT ![o] = status[o]]
    /\ UNCHANGED <<status, venue, trading, daemonVars>>

(* The daemon dies with the process, and is run before trading resumes.    *)
ProcessDies ==
    /\ trading
    /\ trading' = FALSE
    /\ call' = "idle" /\ toVisit' = {} /\ todo' = {} /\ asking' = Nothing
    /\ missed' = {} /\ expected' = {}
    /\ UNCHANGED <<status, store, venue, calls>>

TradingResumes ==
    /\ ~trading
    /\ trading' = TRUE
    /\ UNCHANGED <<status, store, venue, daemonVars>>

-----------------------------------------------------------------------------
(* get_all_open_orders.                                                    *)
OpenOrders == {o \in Orders : store[o] \in ListedAsOpen}

Begin(what) ==
    /\ call = "idle" /\ calls < MaxCalls
    /\ call' = what
    /\ calls' = calls + 1
    /\ UNCHANGED <<missed, asking>>

(* run_recovery: recover_orders is all of it that changes the store.  If   *)
(* the store cannot be listed, the call ends at once with an error.        *)
BeginRecovery ==
    /\ Begin("recover")
    /\ toVisit' = {} /\ todo' = OpenOrders
    /\ expected' = {o \in OpenOrders : status[o] \in Ended}
    /\ UNCHANGED <<status, store, venue, trading>>

(* emergency_shutdown: it cancels the orders that the store lists, of one  *)
(* client after another, and passes over those of other exchanges.         *)
BeginShutdown ==
    /\ Begin("shutdown")
    /\ toVisit' = Clients /\ todo' = {}
    /\ expected' = {o \in OpenOrders : status[o] \in ListedAsOpen /\ venue[o] \in Clients}
    /\ UNCHANGED <<status, store, venue, trading>>

(* cancel_all_orders lists the store anew.  An error ends up in the report *)
(* and the next exchange has its turn.                                     *)
CancelAllOrders(x) ==
    /\ call = "shutdown" /\ todo = {} /\ asking = Nothing /\ x \in toVisit
    /\ toVisit' = toVisit \ {x}
    /\ \/ todo' = {o \in OpenOrders : venue[o] = x} /\ UNCHANGED missed
       \/ missed' = missed \cup {o \in Orders : venue[o] = x} /\ UNCHANGED todo
    /\ UNCHANGED <<status, store, venue, trading, call, asking, expected, calls>>

(* The request travels, and is answered at some moment.  An exchange that  *)
(* does not know the order, no answer and no client are errors.            *)
Ask(o, answer) ==
    /\ asking = Nothing /\ o \in todo
    /\ todo' = todo \ {o}
    /\ asking' = [order |-> o, answer |-> answer]
    /\ UNCHANGED <<store, venue, trading, call, toVisit, missed, expected, calls>>

AskStatus(o) ==
    /\ call = "recover"
    /\ \/ Ask(o, "error")
       \/ venue[o] \in Clients /\ status[o] # Absent /\ Ask(o, status[o])
    /\ UNCHANGED status

(* The answer to a cancel may be lost after it took effect.                *)
AskCancel(o) ==
    /\ call = "shutdown"
    /\ \/ /\ status[o] \in Active
          /\ status' = [status EXCEPT ![o] = "CANCELED"]
          /\ Ask(o, "CANCELED") \/ Ask(o, "error")
       \/ Ask(o, "error") /\ UNCHANGED status

(* Mutant: an order that the exchange does not find is taken for gone.     *)
MutantIsSettled(answer) == answer \in Ended \cup {"error"}

(* NotFoundOrCancelled, or Ok of cancel_order.                             *)
IsSettled(answer) == answer \in Ended

(* Mutant: recovery only reports what it finds.                            *)
MutantDeletes == call = "shutdown"

Deletes == call = "shutdown" \/ AutoCancelOrphans

(* The result of delete is not looked at.  An error of the exchange stands *)
(* in the report of a recovery; of a shutdown it is only logged.           *)
HandleAnswer ==
    /\ asking # Nothing
    /\ asking' = Nothing
    /\ \/ /\ IsSettled(asking.answer) /\ Deletes
          /\ store' = [store EXCEPT ![asking.order] = Absent]
          /\ UNCHANGED missed
       \/ /\ asking.answer = "error" \/ (IsSettled(asking.answer) /\ Deletes)
          /\ missed' = missed \cup {asking.order}
          /\ UNCHANGED store
       \/ /\ asking.answer # "error" /\ ~(IsSettled(asking.answer) /\ Deletes)
          /\ UNCHANGED <<store, missed>>
    /\ UNCHANGED <<status, venue, trading, call, toVisit, todo, expected, calls>>

EndCall ==
    /\ call # "idle" /\ toVisit = {} /\ todo = {} /\ asking = Nothing
    /\ call' = "idle" /\ missed' = {} /\ expected' = {}
    /\ UNCHANGED <<status, store, venue, trading, toVisit, todo, asking, calls>>

StoreNext ==
    \/ \E o \in Orders :
        \/ PutNewOrder(o) \/ ExchangeOpens(o) \/ ExchangeMoves(o) \/ PutReport(o)
        \/ AskStatus(o) \/ AskCancel(o)
    \/ \E x \in Clients : CancelAllOrders(x)
    \/ ProcessDies \/ TradingResumes \/ BeginRecovery \/ BeginShutdown \/ HandleAnswer \/ EndCall

-----------------------------------------------------------------------------
(* Crashes, answers that are late or missing, and a trading process that   *)
(* goes on storing: an order that is active at the exchange is in the      *)
(* store and never as ended.  So the next recovery or shutdown finds it,   *)
(* unless the store has it as PENDING_NEW: such orders are active, but     *)
(* get_all_open_orders does not list them.                                 *)
LiveIsKept ==
    \A o \in Orders :
        status[o] \in Active => store[o] \in ListedAsOpen \cup {"PENDING_NEW"}

(* A call that runs to its end settles all it had to, but the orders for   *)
(* which one of its steps failed.  A recovery: what had ended is no longer *)
(* listed as open.  A shutdown: what was live and listed as open, and of   *)
(* an exchange with a client, is ended.  No more can be said: a shutdown   *)
(* passes over exchanges without a client and orders that are PENDING_NEW, *)
(* and neither its failed cancels nor a failed delete is in the report.    *)
CallsAreThorough ==
    [][EndCall =>
        \A o \in expected \ missed :
            IF call = "recover"
            THEN AutoCancelOrphans => store[o] \notin ListedAsOpen
            ELSE status[o] \notin Active]_storeVars
=============================================================================
