--------------------------- MODULE LiveOperations ---------------------------
(***************************************************************************)
(* The three ways to take the trading out of the strategies' hands: the    *)
(* operators' handoff, the flattener and the graceful shutdown.  They      *)
(* share no state, so a behaviour is about one of them.                    *)
(***************************************************************************)
EXTENDS ControlHandoff, EmergencyFlattener, GracefulShutdown

VARIABLE intervention   \* "handoff", "flattening" or "shutdown"

operationVars == <<vars, flattenerVars, shutdownVars, intervention>>

OperationInit ==
    /\ Init /\ FlattenerInit /\ ShutdownInit
    /\ intervention \in {"handoff", "flattening", "shutdown"}

Handing(action) ==
    /\ intervention = "handoff" /\ action
    /\ UNCHANGED <<flattenerVars, shutdownVars, intervention>>
Flattening(action) ==
    /\ intervention = "flattening" /\ action
    /\ UNCHANGED <<vars, shutdownVars, intervention>>
ShuttingDown(action) ==
    /\ intervention = "shutdown" /\ action
    /\ UNCHANGED <<vars, flattenerVars, intervention>>

OperationNext == Handing(Next) \/ Flattening(FlattenerNext) \/ ShuttingDown(ShutdownNext)

(* Every callback returns or raises, and its caller goes on; so does a     *)
(* thread that is in trigger, and every call that it makes returns.        *)
OperationSpec ==
    /\ OperationInit /\ [][OperationNext]_operationVars
    /\ WF_operationVars(Handing(Proceed))
    /\ \A t \in Threads : WF_operationVars(Flattening(Flatten(t)))
    /\ WF_operationVars(ShuttingDown(EndPhase))

-----------------------------------------------------------------------------
(* No handoff leaves the state TRANSITIONING for ever, the panic button    *)
(* returns and a shutdown completes, whatever callbacks and exchange do.   *)
InterventionsEnd ==
    /\ Busy ~> shutdown.phase = "completed"
    /\ state = "transitioning" ~> state # "transitioning"
    /\ \A t \in Threads : pc[t] # "idle" ~> pc[t] = "idle"
=============================================================================
