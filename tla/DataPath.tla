------------------------------ MODULE DataPath -------------------------------
(***************************************************************************)
(* What happens between the exchange's streams and the orders: the market  *)
(* data feed of one symbol, the lock-free ring of ticks, the engine's      *)
(* threads, the tree of single orders and the book the backtest matches    *)
(* against.  The repository does not join them (the engine makes its own   *)
(* ticks, the tree and the backtest get their orders from their callers),  *)
(* and the engine uses the ring through what the ring implements, so a     *)
(* behaviour is about one of them.                                         *)
(***************************************************************************)
EXTENDS MarketDataFeed, TickRing, TradingEngine, OrderTree, MatchingBook

VARIABLE section        \* "feed", "ring", "engine", "tree" or "matching"

pathVars == <<feedVars, vars, engineVars, treeVars, matchVars, section>>

PathInit ==
    /\ FeedInit /\ Init /\ EngineInit /\ TreeInit /\ MatchingInit
    /\ section \in {"feed", "ring", "engine", "tree", "matching"}

Feeding(action) ==
    /\ section = "feed" /\ action
    /\ UNCHANGED <<vars, engineVars, treeVars, matchVars, section>>
Ringing(action) ==
    /\ section = "ring" /\ action
    /\ UNCHANGED <<feedVars, engineVars, treeVars, matchVars, section>>
Trading(action) ==
    /\ section = "engine" /\ action
    /\ UNCHANGED <<feedVars, vars, treeVars, matchVars, section>>
KeepingOrders ==
    /\ section = "tree" /\ TreeNext
    /\ UNCHANGED <<feedVars, vars, engineVars, matchVars, section>>
Matching ==
    /\ section = "matching" /\ MatchingNext
    /\ UNCHANGED <<feedVars, vars, engineVars, treeVars, section>>

PathNext ==
    Feeding(FeedNext) \/ Ringing(Next) \/ Trading(EngineNext) \/ KeepingOrders \/ Matching

(* The network carries what is sent, the caller asks, the client runs.     *)
FeedFairness ==
    /\ WF_pathVars(Feeding(Publish)) /\ WF_pathVars(Feeding(TakeSnapshot))
    /\ WF_pathVars(Feeding(ApplySnapshot))
    /\ WF_pathVars(Feeding(ApplyUpdate \/ RefuseUpdate))
    /\ WF_pathVars(Feeding(Connect \/ ConnectFails))
    /\ WF_pathVars(Feeding(LeaveQuietStream \/ RestartTimer))
    /\ WF_pathVars(Feeding(FeedTick))

(* Both threads of the ring run for ever; each takes its next step if it   *)
(* has one, with no fairness between them beyond that.                     *)
RingFairness == WF_pathVars(Ringing(Producer)) /\ WF_pathVars(Ringing(Consumer))

(* The three loops never end; send_standard and stop need never be called. *)
EngineFairness ==
    /\ WF_pathVars(Trading(NetworkThread))
    /\ WF_pathVars(Trading(StrategyThread))
    /\ WF_pathVars(Trading(EventThread))

PathSpec ==
    PathInit /\ [][PathNext]_pathVars /\ FeedFairness /\ RingFairness /\ EngineFairness

-----------------------------------------------------------------------------
(* The books that orders are kept in agree with the orders, in the tree    *)
(* while ids ascend, in the backtest within what its comments name.        *)
OrderBooksAgree == TreeFollowsOrders /\ BookAgrees
=============================================================================
