--------------------------- MODULE ControlHandoff ---------------------------
(***************************************************************************)
(* ManualOverrideHandoff of python/recovery/manual_override_handoff.py: it *)
(* moves control between the automated system and the operators by calling *)
(* four components in turn.  Every operation holds _state_lock from its    *)
(* first test to its return, so calls of different threads follow each     *)
(* other; the lock is an RLock, so a component may call emergency_halt     *)
(* while it is itself being called.  All four callbacks are set.  A        *)
(* refused call changes nothing but the audit log and is left out, with    *)
(* the expiry of requests, the log and the statistics.                     *)
(***************************************************************************)
EXTENDS Integers, Sequences, SequencesExt

CONSTANTS
    Operators,
    NoOne,
    MaxDepth        \* bound on the calls nested in one another

ASSUME HandoffAssumption ==
    NoOne \notin Operators /\ MaxDepth \in Nat \ {0}

VARIABLES
    state,
    emergency,      \* _emergency_active
    session,        \* the operator of _active_session
    authorized,     \* _authorized_operators
    recent,         \* the last handoff is less than a minute old
    calls,          \* the calls that hold the lock, the innermost last
    told,           \* external: the mode each component last put into effect;
                    \* "declined" if the gateway answered a handoff or return
                    \* with False since
    clean           \* history: in the last outermost call no callback failed,
                    \* did nothing or called back, and no resume came since

vars == <<state, emergency, session, authorized, recent, calls, told, clean>>

(* ControlState; no caller requests TRANSITIONING.                         *)
Modes == {"automated", "manual", "paused", "emergency"}

Components == <<"ml", "gateway", "positions", "risk">>

(* Mutant: the positions are not locked for PAUSED either.                 *)
MutantVisits(op, target) ==
    IF op # "halt" /\ target \in {"automated", "paused"}
    THEN <<"ml", "gateway", "risk">> ELSE Components

(* The components that a call for the given mode visits, in order.         *)
Visits(op, target) ==
    IF op # "halt" /\ target = "automated"
    THEN <<"ml", "gateway", "risk">> ELSE Components

Call(op, target, by) ==
    [op |-> op, target |-> target, by |-> by, left |-> Visits(op, target), nested |-> FALSE]

Init ==
    /\ state = "automated"
    /\ emergency = FALSE
    /\ session = NoOne
    /\ authorized = {}
    /\ recent = FALSE
    /\ calls = <<>>
    /\ told = [c \in ToSet(Components) |-> "automated"]
    /\ clean = TRUE

Idle == calls = <<>>
Current == Last(calls)
Return == calls' = Front(calls)

-----------------------------------------------------------------------------
(* register_authorized_operator takes no lock.                             *)
Register(o) ==
    /\ authorized' = authorized \cup {o}
    /\ UNCHANGED <<state, emergency, session, recent, calls, told, clean>>

MinutePasses ==
    /\ recent
    /\ recent' = FALSE
    /\ UNCHANGED <<state, emergency, session, authorized, calls, told, clean>>

(* request_handoff past its tests.                                         *)
RequestHandoff(o, target) ==
    /\ Idle
    /\ o \in authorized
    /\ state # target
    /\ ~ recent
    /\ state' = "transitioning"
    /\ calls' = <<Call("handoff", target, o)>>
    /\ clean' = TRUE
    /\ UNCHANGED <<emergency, session, authorized, recent, told>>

(* Any authorized operator may return; the state is left until the end.    *)
ReturnToAutomated(o) ==
    /\ Idle
    /\ state = "manual"
    /\ o \in authorized
    /\ calls' = <<Call("return", "automated", o)>>
    /\ clean' = TRUE
    /\ UNCHANGED <<state, emergency, session, authorized, recent, told>>

(* emergency_halt before its callbacks.                                    *)
Halt ==
    /\ emergency' = TRUE
    /\ state' = "emergency"
    /\ UNCHANGED <<session, authorized, recent, told>>

EmergencyHalt ==
    /\ Idle
    /\ Halt
    /\ calls' = <<Call("halt", "emergency", NoOne)>>
    /\ clean' = TRUE

(* A component that is being called halts first, then does as told.        *)
HaltFromCallback ==
    /\ ~ Idle /\ Len(calls) < MaxDepth
    /\ Current.left # <<>> /\ ~ Current.nested
    /\ Halt
    /\ calls' = Append([calls EXCEPT ![Len(calls)].nested = TRUE],
                       Call("halt", "emergency", NoOne))
    /\ clean' = FALSE

(* The components are not called.                                          *)
ResumeFromEmergency(o) ==
    /\ Idle
    /\ emergency
    /\ o \in authorized
    /\ emergency' = FALSE
    /\ state' = "paused"
    /\ clean' = FALSE
    /\ UNCHANGED <<session, authorized, recent, calls, told>>

-----------------------------------------------------------------------------
(* _execute_handoff and the loop of emergency_halt, one callback a step.   *)
NextComponent == calls' = [calls EXCEPT ![Len(calls)].left = Tail(@),
                                        ![Len(calls)].nested = FALSE]

CallbackReturns ==
    /\ ~ Idle /\ Current.left # <<>>
    /\ told' = [told EXCEPT ![Head(Current.left)] = Current.target]
    /\ NextComponent
    /\ UNCHANGED <<state, emergency, session, authorized, recent, clean>>

(* Mutant: a failing order gateway is logged like the others.              *)
MutantRefuses == FALSE

(* Only the order gateway can refuse a handoff, by an exception.           *)
Refuses == Current.op # "halt" /\ Head(Current.left) = "gateway"

(* An exception is logged and an answer of False goes unnoticed, here and  *)
(* in a halt; the component is left as it was.                             *)
CallbackFails ==
    /\ ~ Idle /\ Current.left # <<>>
    /\ ~ Refuses
    /\ NextComponent
    /\ clean' = FALSE
    /\ UNCHANGED <<state, emergency, session, authorized, recent, told>>

(* The gateway locks nothing and says so.  Its answer is read as a number  *)
(* of cancelled orders, and the handoff goes on.                           *)
GatewayDeclines ==
    /\ ~ Idle /\ Current.left # <<>>
    /\ Refuses
    /\ told' = [told EXCEPT !["gateway"] = "declined"]
    /\ NextComponent
    /\ clean' = FALSE
    /\ UNCHANGED <<state, emergency, session, authorized, recent>>

(* The mode after a refused handoff, whatever it was before.               *)
AfterRefusal == IF Current.op = "handoff" THEN "automated" ELSE state

GatewayFails ==
    /\ ~ Idle /\ Current.left # <<>>
    /\ Refuses
    /\ state' = AfterRefusal
    /\ Return
    /\ clean' = FALSE
    /\ UNCHANGED <<emergency, session, authorized, recent, told>>

Finished(op) == ~ Idle /\ Current.left = <<>> /\ Current.op = op

HandoffCompletes ==
    /\ Finished("handoff")
    /\ state' = Current.target
    /\ recent' = TRUE
    /\ session' = IF Current.target = "manual" THEN Current.by ELSE session
    /\ Return
    /\ UNCHANGED <<emergency, authorized, told, clean>>

ReturnCompletes ==
    /\ Finished("return")
    /\ state' = "automated"
    /\ session' = NoOne
    /\ recent' = TRUE
    /\ Return
    /\ UNCHANGED <<emergency, authorized, told, clean>>

HaltCompletes ==
    /\ Finished("halt")
    /\ Return
    /\ UNCHANGED <<state, emergency, session, authorized, recent, told, clean>>

Proceed ==
    \/ CallbackReturns \/ CallbackFails \/ GatewayDeclines \/ GatewayFails
    \/ HandoffCompletes \/ ReturnCompletes \/ HaltCompletes

Next ==
    \/ \E o \in Operators :
          \/ Register(o) \/ ReturnToAutomated(o) \/ ResumeFromEmergency(o)
          \/ \E target \in Modes : RequestHandoff(o, target)
    \/ MinutePasses \/ EmergencyHalt \/ HaltFromCallback \/ Proceed

-----------------------------------------------------------------------------
Calls == [op : {"handoff", "return", "halt"}, target : Modes,
          by : Operators \cup {NoOne}, left : Seq(ToSet(Components)), nested : BOOLEAN]

TypeOK ==
    /\ state \in Modes \cup {"transitioning"}
    /\ emergency \in BOOLEAN /\ recent \in BOOLEAN /\ clean \in BOOLEAN
    /\ session \in Operators \cup {NoOne}
    /\ authorized \subseteq Operators
    /\ calls \in Seq(Calls) /\ Len(calls) <= MaxDepth
    /\ told \in [ToSet(Components) -> Modes \cup {"declined"}]

(* "locks order gateways": while the state is MANUAL between two calls     *)
(* there is an operator's session, and the order gateway is in manual mode *)
(* although exceptions, refused returns and halts from within a callback   *)
(* may have come before.  Two cases are outside: a halt is in force, or    *)
(* the gateway answered False when it was last asked, which the code does  *)
(* not look at (manual_override_handoff.py:251-252).                       *)
ManualIsHeld ==
    Idle /\ state = "manual" =>
        session # NoOne /\ (emergency \/ told["gateway"] \in {"manual", "declined"})

(* A handoff, return or halt in which every callback did what it was told  *)
(* and none called back leaves the components it visits in the mode of the *)
(* controller.                                                             *)
ComponentsAgree ==
    Idle /\ clean =>
        \A c \in ToSet(Components) :
            told[c] = state \/ (c = "positions" /\ state = "automated")
=============================================================================
