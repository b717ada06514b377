-------------------------- MODULE StateSynchronizer --------------------------
(***************************************************************************)
(* StateSynchronizer of crates/crosschain/src/state_sync.rs: cross-chain   *)
(* events by time and by id, and a watermark for every chain, each behind  *)
(* a lock of its own.  The queries that only read one map are left out,    *)
(* and the parameters of the chains stay as they are.                      *)
(***************************************************************************)
EXTENDS ThreadSteps, Integers, FiniteSetsExt

CONSTANTS
    ChainEvents,    \* [id, time, chain, block]
    Finality,       \* confirmations that lift the status of an event by one
    MaxBlock,       \* bound on the block numbers
    MaxEventsKept,  \* max_events
    MaxChainCalls   \* bound on the calls

ASSUME SynchronizerAssumption ==
    /\ IsFiniteSet(Threads) /\ \A e \in ChainEvents : e.time \in Nat
    /\ Finality \subseteq Nat \ {0} /\ MaxBlock \in Nat
    /\ MaxEventsKept \in Nat \ {0} /\ MaxChainCalls \in Nat

VARIABLES
    byTime,         \* events_by_time: a sequence of [event, status]s, as a set of
                    \* [event, status, copy]
    byId,           \* events_by_id, its keys
    marks,          \* watermarks
    globalMark,     \* global_watermark
    eventCount,
    adding,         \* of each thread: [event, status]
    chainCalls,     \* number of calls
    doubled         \* history: two threads were adding the same event at once

chainVars ==
    <<byTime, byId, marks, globalMark, eventCount, adding, chainCalls, doubled>>

Chains == {e.chain : e \in ChainEvents}
NoAddition == [event |-> CHOOSE e \in ChainEvents : TRUE, status |-> 0]

ChainInit ==
    /\ byTime = {} /\ byId = {}
    /\ marks = [c \in Chains |-> 0]
    /\ globalMark = 0
    /\ eventCount = 0
    /\ adding = [t \in Threads |-> NoAddition]
    /\ chainCalls = 0
    /\ doubled = FALSE

CallChain(t, to) ==
    /\ Goto(t, "idle", to)
    /\ chainCalls < MaxChainCalls
    /\ chainCalls' = chainCalls + 1

-----------------------------------------------------------------------------
(* add_event past its test for duplicates, under a lock that it gives up.  *)
AddEvent(t) ==
    /\ CallChain(t, "status")
    /\ CanRead("byId")
    /\ \E e \in ChainEvents :
          /\ e.id \notin byId
          /\ adding' = [adding EXCEPT ![t] = [event |-> e, status |-> 0]]
          /\ doubled' = (doubled \/ \E u \in Threads \ {t} :
                            pc[u] \in {"status", "insertId"} /\ adding[u].event.id = e.id)
    /\ UNCHANGED <<held, byTime, byId, marks, globalMark, eventCount>>

(* calculate_finality_status: how many of the thresholds are passed.       *)
StatusOf(e) ==
    IF marks[e.chain] = 0 THEN 0
    ELSE Cardinality({n \in Finality : marks[e.chain] >= e.block + n})

TakeStatus(t) ==
    /\ Goto(t, "status", "insertId")
    /\ CanRead("marks")
    /\ adding' = [adding EXCEPT ![t].status = StatusOf(adding[t].event)]
    /\ UNCHANGED <<held, byTime, byId, marks, globalMark, eventCount, chainCalls, doubled>>

InsertId(t) ==
    /\ Goto(t, "insertId", "insertTime")
    /\ CanWrite("byId")
    /\ byId' = byId \cup {adding[t].event.id}
    /\ UNCHANGED <<held, byTime, marks, globalMark, eventCount, adding, chainCalls, doubled>>

InsertTime(t) ==
    LET e == adding[t].event IN
    /\ Goto(t, "insertTime", "count")
    /\ CanWrite("byTime")
    /\ byTime' = byTime \cup {[event |-> e, status |-> adding[t].status,
                               copy |-> Cardinality({x \in byTime : x.event = e})]}
    /\ UNCHANGED <<held, byId, marks, globalMark, eventCount, adding, chainCalls, doubled>>

(* The count is that before the event; it never goes down.                 *)
MustPrune == eventCount >= MaxEventsKept

CountEventAdded(t) ==
    /\ Goto(t, "count", IF MustPrune THEN "prune" ELSE "idle")
    /\ eventCount' = eventCount + 1
    /\ UNCHANGED <<held, byTime, byId, marks, globalMark, adding, chainCalls, doubled>>

Prune(t) ==
    /\ Goto(t, "prune", "pruneIds")
    /\ Write(t, "byTime")
    /\ UNCHANGED chainVars

Times(events) == {x.event.time : x \in events}

(* The newest times stay, a tenth of the limit.                            *)
Kept ==
    {x \in byTime : Cardinality({s \in Times(byTime) : s > x.event.time}) < MaxEventsKept \div 10}

IdsLeft == byId \ {x.event.id : x \in byTime \ Kept}

PruneIds(t) ==
    /\ Goto(t, "pruneIds", "idle")
    /\ CanWrite("byId")
    /\ byTime' = Kept
    /\ byId' = IdsLeft
    /\ ReleaseAll(t)
    /\ UNCHANGED <<marks, globalMark, eventCount, adding, chainCalls, doubled>>

-----------------------------------------------------------------------------
(* update_watermark keeps the watermarks locked to its end.                *)
UpdateWatermark(t) ==
    /\ CallChain(t, "refresh")
    /\ Write(t, "marks")
    /\ \E c \in Chains, b \in 1 .. MaxBlock :
          /\ marks' = [marks EXCEPT ![c] = IF b > @ THEN b ELSE @]
          /\ globalMark' = Min({marks'[x] : x \in {y \in Chains : marks'[y] > 0}})
    /\ UNCHANGED <<byTime, byId, eventCount, adding, doubled>>

(* refresh_finality_statuses locks the events ...                          *)
LockEvents(t) ==
    /\ Goto(t, "refresh", "refreshEach")
    /\ Write(t, "byTime")
    /\ UNCHANGED chainVars

(* ... and reads the watermarks for each, if there is any.                 *)
RefreshEach(t) ==
    /\ Goto(t, "refreshEach", "idle")
    /\ byTime # {} => CanRead("marks")
    /\ byTime' = {[x EXCEPT !.status = StatusOf(x.event)] : x \in byTime}
    /\ ReleaseAll(t)
    /\ UNCHANGED <<byId, marks, globalMark, eventCount, adding, chainCalls, doubled>>

(* get_stats holds the locks it has while it takes the next.               *)
StatsByTime(t) ==
    /\ CallChain(t, "statsIds")
    /\ Read(t, "byTime")
    /\ UNCHANGED <<byTime, byId, marks, globalMark, eventCount, adding, doubled>>

StatsById(t) ==
    /\ Goto(t, "statsIds", "statsMarks")
    /\ Read(t, "byId")
    /\ UNCHANGED chainVars

StatsMarks(t) ==
    /\ Goto(t, "statsMarks", "idle")
    /\ CanRead("marks")
    /\ ReleaseAll(t)
    /\ UNCHANGED chainVars

-----------------------------------------------------------------------------
ChainStep(t) ==
    \/ TakeStatus(t) \/ InsertId(t) \/ InsertTime(t) \/ CountEventAdded(t) \/ Prune(t)
    \/ PruneIds(t) \/ LockEvents(t) \/ RefreshEach(t) \/ StatsById(t) \/ StatsMarks(t)

ChainNext ==
    \E t \in Threads : AddEvent(t) \/ UpdateWatermark(t) \/ StatsByTime(t) \/ ChainStep(t)

(* update_watermark waits for itself, or for get_stats that waits for it;  *)
(* all others wait for it.                                                 *)
ChainTangled ==
    \E t \in Threads :
        \/ pc[t] = "refreshEach" /\ byTime # {}
        \/ pc[t] = "refresh" /\ \E u \in Threads : pc[u] \in {"statsIds", "statsMarks"}

-----------------------------------------------------------------------------
(* When nobody is adding, the ids are those of the events, so that nothing *)
(* is refused that is not there nor added twice, and no more times are     *)
(* kept than allowed: unless two threads added the same event at once.     *)
MapsAgree ==
    (\A t \in Threads : pc[t] \in {"idle", "status", "insertId"}) /\ ~ doubled =>
        /\ byId = {x.event.id : x \in byTime}
        /\ Cardinality(byTime) = Cardinality(byId)
        /\ Cardinality(Times(byTime)) <= MaxEventsKept

(* "Update finality status for all events": a watermark that was taken     *)
(* over reaches the events.                                                *)
WatermarkReturns == \A t \in Threads : pc[t] = "refreshEach" ~> pc[t] = "idle"
=============================================================================
