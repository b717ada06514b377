-------------------------- MODULE ModelHotSwapper ---------------------------
(***************************************************************************)
(* ModelHotSwapper of crates/deployment/src/model_hot_swapper.rs: threads  *)
(* replace the active model, or go back to the previous one, while others  *)
(* read it.  The models are behind two RwLocks; a swap is validated under  *)
(* a lock that it gives up before it installs.  Versions are numbers; the  *)
(* time of the last swap is left out, and no lock is ever poisoned.        *)
(***************************************************************************)
EXTENDS ThreadSteps, Integers

CONSTANTS
    Shapes,         \* input_shape
    NoModel,        \* None
    MaxVersion,     \* bound on the versions
    MaxSwapCalls    \* bound on the calls of load_initial, swap and rollback

Models == [version : 1 .. MaxVersion, shape : Shapes]

ASSUME SwapperAssumption ==
    MaxVersion \in Nat \ {0} /\ MaxSwapCalls \in Nat /\ NoModel \notin Models

VARIABLES
    active,         \* active_model
    previous,       \* previous_model
    mine,           \* the model that each thread is going to install
    base,           \* history: the active model it was validated against
    swapCount, failedSwaps,
    swapCalls,      \* number of calls
    newest,         \* history: the latest version installed since the last load
    raced           \* history: since the last load, a thread installed a model
                    \* that it had validated against another one, or rolled back

counters == <<swapCount, failedSwaps>>
swapHistory == <<newest, raced>>
swapperVars == <<active, previous, mine, base, counters, swapCalls, swapHistory>>

SwapperInit ==
    /\ active = NoModel
    /\ previous = NoModel
    /\ mine = [t \in Threads |-> NoModel]
    /\ base = [t \in Threads |-> NoModel]
    /\ swapCount = 0 /\ failedSwaps = 0
    /\ swapCalls = 0
    /\ newest = 0
    /\ raced = FALSE

CallSwapper(t, to) ==
    /\ Goto(t, "idle", to)
    /\ swapCalls < MaxSwapCalls
    /\ swapCalls' = swapCalls + 1

-----------------------------------------------------------------------------
(* load_initial validates nothing and does not ask for a loaded model.     *)
LoadInitial(t) ==
    /\ CallSwapper(t, "idle")
    /\ CanWrite("active")
    /\ \E m \in Models : active' = m /\ newest' = m.version
    /\ raced' = FALSE
    /\ UNCHANGED <<held, previous, mine, base, counters>>

(* Mutant: the version is not compared.                                    *)
MutantValid(m) == active # NoModel => m.shape = active.shape

(* validate_model, but for the hash.                                       *)
Valid(m) ==
    active # NoModel => m.version > active.version /\ m.shape = active.shape

(* swap, its validation passed under the read lock of active_model.        *)
StartSwap(t) ==
    /\ CallSwapper(t, "lockToSwap")
    /\ CanRead("active")
    /\ \E m \in Models : Valid(m) /\ mine' = [mine EXCEPT ![t] = m]
    /\ base' = [base EXCEPT ![t] = active]
    /\ UNCHANGED <<held, active, previous, counters, swapHistory>>

(* Any model is refused that lacks its hash.                               *)
RefuseSwap(t) ==
    /\ CallSwapper(t, "idle")
    /\ CanRead("active")
    /\ failedSwaps' = failedSwaps + 1
    /\ UNCHANGED <<held, active, previous, mine, base, swapCount, swapHistory>>

(* rollback with a previous model to go back to.                           *)
StartRollback(t) ==
    /\ CallSwapper(t, "copy")
    /\ Read(t, "previous")
    /\ previous # NoModel
    /\ UNCHANGED <<active, previous, mine, base, counters, swapHistory>>

CopyTo(t) ==
    /\ Goto(t, "copy", "lockToRollback")
    /\ mine' = [mine EXCEPT ![t] = previous]
    /\ UNCHANGED <<active, previous, base, counters, swapCalls, swapHistory>>

(* Mutant: the read guard lives to the end of the function.                *)
MutantCopyPrevious(t) == CopyTo(t) /\ UNCHANGED held

(* The unwrapped guard is dropped with the statement that clones.          *)
CopyPrevious(t) == CopyTo(t) /\ ReleaseAll(t)

-----------------------------------------------------------------------------
(* swap and rollback install in the same way: both locks, active first.    *)
LockActive(t) ==
    /\ Goto(t, "lockToSwap", "takeSwap") \/ Goto(t, "lockToRollback", "takeRollback")
    /\ Write(t, "active")
    /\ UNCHANGED swapperVars

TakeActive(t) ==
    /\ Goto(t, "takeSwap", "putSwap") \/ Goto(t, "takeRollback", "putRollback")
    /\ Write(t, "previous")
    /\ previous' = active
    /\ active' = NoModel
    /\ UNCHANGED <<mine, base, counters, swapCalls, swapHistory>>

PutSwap(t) ==
    /\ Goto(t, "putSwap", "count")
    /\ active' = mine[t]
    /\ newest' = IF mine[t].version > newest THEN mine[t].version ELSE newest
    /\ raced' = (raced \/ previous # base[t])
    /\ ReleaseAll(t)
    /\ UNCHANGED <<previous, mine, base, counters, swapCalls>>

PutRollback(t) ==
    /\ Goto(t, "putRollback", "idle")
    /\ active' = mine[t]
    /\ raced' = TRUE
    /\ ReleaseAll(t)
    /\ UNCHANGED <<previous, mine, base, counters, swapCalls, newest>>

CountSwap(t) ==
    /\ Goto(t, "count", "idle")
    /\ swapCount' = swapCount + 1
    /\ UNCHANGED <<held, active, previous, mine, base, failedSwaps, swapCalls, swapHistory>>

SwapperStep(t) ==
    \/ CopyPrevious(t) \/ LockActive(t) \/ TakeActive(t)
    \/ PutSwap(t) \/ PutRollback(t) \/ CountSwap(t)

SwapperNext ==
    \E t \in Threads :
        LoadInitial(t) \/ StartSwap(t) \/ RefuseSwap(t) \/ StartRollback(t) \/ SwapperStep(t)

-----------------------------------------------------------------------------
(* "zero dropped packets or interrupted orders during swap": from the      *)
(* first load on, whoever gets the read lock finds a model.  "Check        *)
(* version is newer": it is the newest one installed, as long as every     *)
(* swap installs over the model it was validated against and nobody rolls  *)
(* back.                                                                   *)
NewestServes ==
    newest > 0 /\ CanRead("active") =>
        active # NoModel /\ (~ raced => active.version = newest)
=============================================================================
