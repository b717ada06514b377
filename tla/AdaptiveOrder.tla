---------------------------- MODULE AdaptiveOrder ----------------------------
(***************************************************************************)
(* AdaptiveExecutor and its CvdTracker, crates/execution/src/              *)
(* adaptive_algos.rs (algo "adaptive" and "cvd").  record_fill and         *)
(* record_trade load, compute and store; each such step is one here.  The  *)
(* urgency and the slippage of a strategy are numbers nothing here depends *)
(* on, and so is the shortfall, which follows from the average price.      *)
(***************************************************************************)
EXTENDS ChildOrders

CONSTANTS
    Prices,     \* of fills
    MaxVolume   \* bound on the volume the tracker sees

ASSUME AdaptiveAssumption == Prices \subseteq Nat /\ MaxVolume \in Nat

VARIABLES
    average,    \* avg_price, as the cost and the quantity it is of
    heldAvg,    \* new_avg of each handler
    paid,       \* history: what the fills have cost
    volume,     \* buy_volume and sell_volume
    cvd         \* cvd_value

adaptiveVars == <<average, heldAvg, paid, volume, cvd>>

Sides == {"buy", "sell"}
NoAverage == [cost |-> 0, over |-> 0]

(* A price that is the average of no set of fills.                         *)
Torn == [cost |-> -1, over |-> 0]

AdaptiveInit ==
    /\ average = NoAverage
    /\ heldAvg = [h \in Handlers |-> NoAverage]
    /\ paid = 0
    /\ volume = [s \in Sides |-> 0]
    /\ cvd = 0

PlaceAdaptive ==
    /\ algo = "adaptive"
    /\ Place(Remaining)
    /\ UNCHANGED adaptiveVars

NewAverage(h, p) ==
    IF average = Torn \/ average.over # executed THEN Torn
    ELSE [cost |-> average.cost + p * qty[h], over |-> executed + qty[h]]

(* executed and avg are loaded, and new_executed and new_avg computed.     *)
LoadFill(h) ==
    /\ algo = "adaptive"
    /\ \E p \in Prices :
        /\ Goto(h, "report", "take")
        /\ heldAvg' = [heldAvg EXCEPT ![h] = NewAverage(h, p)]
        /\ paid' = paid + p * qty[h]
    /\ held' = [held EXCEPT ![h] = executed + qty[h]]
    /\ UNCHANGED <<algo, working, filled, executed, qty, overlapped, average, volume, cvd>>

StoreExecuted(h) ==
    /\ algo = "adaptive"
    /\ Goto(h, "take", "average")
    /\ executed' = held[h]
    /\ UNCHANGED <<algo, working, filled, qty, held, overlapped, adaptiveVars>>

StoreAverage(h) ==
    /\ Goto(h, "average", "idle")
    /\ average' = heldAvg[h]
    /\ UNCHANGED <<algo, working, filled, executed, qty, held, overlapped,
                   heldAvg, paid, volume, cvd>>

-----------------------------------------------------------------------------
(* CvdTracker.record_trade, called for each trade of the market.           *)
TradeArrives(h) ==
    /\ algo = "cvd" /\ volume["buy"] + volume["sell"] < MaxVolume
    /\ Goto(h, "idle", "cvd buy")
    /\ \E s \in Sides : volume' = [volume EXCEPT ![s] = @ + 1]
    /\ overlapped' = (overlapped \/ ~Quiet)
    /\ UNCHANGED <<algo, working, filled, executed, qty, held, average, heldAvg, paid, cvd>>

LoadVolume(h, from, to, s, sign) ==
    /\ Goto(h, from, to)
    /\ held' = [held EXCEPT ![h] = (IF s = "buy" THEN 0 ELSE @) + sign * volume[s]]
    /\ UNCHANGED <<algo, working, filled, executed, qty, overlapped, adaptiveVars>>

LoadBuys(h) == LoadVolume(h, "cvd buy", "cvd sell", "buy", 1)
LoadSells(h) == LoadVolume(h, "cvd sell", "cvd store", "sell", -1)

StoreCvd(h) ==
    /\ Goto(h, "cvd store", "idle")
    /\ cvd' = held[h]
    /\ UNCHANGED <<algo, working, filled, executed, qty, held, overlapped,
                   average, heldAvg, paid, volume>>

ResetCvd ==
    /\ algo = "cvd" /\ Quiet
    /\ volume' = [s \in Sides |-> 0]
    /\ cvd' = 0
    /\ UNCHANGED <<childVars, average, heldAvg, paid>>

AdaptiveStep(h) ==
    LoadFill(h) \/ StoreExecuted(h) \/ StoreAverage(h) \/ LoadBuys(h) \/ LoadSells(h)
    \/ StoreCvd(h)

AdaptiveNext ==
    PlaceAdaptive \/ ResetCvd \/ \E h \in Handlers : AdaptiveStep(h) \/ TradeArrives(h)

(* As long as no two fills were recorded at once, the executed quantity,   *)
(* the average price and the volume delta are those of the fills and the   *)
(* trades there were.                                                      *)
AdaptiveBooks ==
    algo \in {"adaptive", "cvd"} /\ Quiet /\ ~overlapped =>
        /\ algo = "adaptive" => average = [cost |-> paid, over |-> filled]
        /\ cvd = volume["buy"] - volume["sell"]
=============================================================================
