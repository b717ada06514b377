---------------------------- MODULE StateRecovery ----------------------------
(***************************************************************************)
(* What survives a crash, what is made of it and who starts again: the     *)
(* write-ahead log, the order store with the recovery daemon, the          *)
(* rebuilder of positions and the supervisor of the Python workers.  The   *)
(* repository has no code that joins the four; each has the stage for      *)
(* itself.                                                                 *)
(***************************************************************************)
EXTENDS WriteAheadLog, OrderStore, PositionRebuilder, Supervisor

VARIABLE subject    \* "log", "store", "rebuilder" or "supervisor"

recoveryVars == <<walVars, storeVars, rebuildVars, supervisorVars, subject>>

RecoveryInit ==
    /\ subject \in {"log", "store", "rebuilder", "supervisor"}
    /\ WalInit /\ StoreInit /\ RebuildInit /\ SupervisorInit
    /\ subject # "log" => syncMode = CHOOSE m \in SyncModes : TRUE
    /\ subject # "store" => venue = CHOOSE f \in [Orders -> Exchanges] : TRUE
    /\ subject # "rebuilder" => ~newestFirst
    /\ subject # "supervisor" => ~privileged

Logging(action) ==
    /\ subject = "log" /\ action
    /\ UNCHANGED <<storeVars, rebuildVars, supervisorVars, subject>>
OrdersNext ==
    /\ subject = "store" /\ StoreNext
    /\ UNCHANGED <<walVars, rebuildVars, supervisorVars, subject>>
PositionsNext ==
    /\ subject = "rebuilder" /\ RebuildNext
    /\ UNCHANGED <<walVars, storeVars, supervisorVars, subject>>
Supervising(action) ==
    /\ subject = "supervisor" /\ action
    /\ UNCHANGED <<walVars, storeVars, rebuildVars, subject>>

RecoveryNext ==
    Logging(WalNext) \/ OrdersNext \/ PositionsNext \/ Supervising(SupervisorNext)

(* The background task of the log and the two threads of the supervisor    *)
(* are scheduled for ever; the timer of the log finds in the end a disk    *)
(* that takes the data.                                                    *)
RecoverySpec ==
    /\ RecoveryInit /\ [][RecoveryNext]_recoveryVars
    /\ WF_recoveryVars(Logging(Writer))
    /\ WF_recoveryVars(Logging(TimerFlushes))
    /\ WF_recoveryVars(Supervising(MainThread))
    /\ WF_recoveryVars(Supervising(MonitorThread))
=============================================================================
