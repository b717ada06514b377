---------------------------- MODULE OrderTracking ----------------------------
(***************************************************************************)
(* BinanceOrderManager of crates/exchange/src/binance_order_manager.rs:    *)
(* the local picture of the orders, built from the execution reports of    *)
(* the user data stream.  The exchange and the stream are external: an     *)
(* exchange order moves on by itself and every move sends a report; the    *)
(* stream is in order, and a scenario says what else can happen.           *)
(***************************************************************************)
EXTENDS Naturals, Sequences, FiniteSets

CONSTANTS
    Orders,     \* client order ids
    Quantity,   \* the size of every order, filled one unit at a time
    Scenarios   \* bounds: [orders, faults, most, audits], the orders that are
                \* placed, which faults happen and how often in all, and the
                \* number of reconciliations

ASSUME OrderTrackingAssumption ==
    /\ IsFiniteSet(Orders)
    /\ Quantity \in Nat \ {0}
    /\ \A s \in Scenarios :
          /\ s.orders \subseteq Orders
          /\ s.faults \subseteq {"lose", "repeat", "restart", "inactive"}
          /\ s.most \in Nat /\ s.audits \in Nat

VARIABLES
    exchange,   \* external: what the exchange knows of each order
    stream,     \* external: reports on their way, oldest first
    submitted,  \* external: the orders that were sent to the exchange
    sent,       \* external: every report the exchange ever sent
    scenario,   \* external: the scenario
    faults,     \* external: how many faults there were
    local,      \* local_orders
    listed,     \* the ids in orders_by_symbol
    pending,    \* the keys of pending_orders
    finished,   \* filled_orders, with the status they were stored with
    placed,     \* orders_today
    fills,      \* fills_today
    active      \* is_active

world == <<exchange, stream, submitted, sent, scenario, faults>>
manager == <<local, listed, pending, finished, placed, fills, active>>
vars == <<world, manager>>

Open == {"new", "partial"}
Ended == {"filled", "canceled", "rejected", "expired"}
Unknown == [status |-> "none", filled |-> 0, fills |-> 0]
States == [status : Open \cup Ended \cup {"none"}, filled : 0 .. Quantity,
           fills : 0 .. Quantity]
Reports == [order : Orders, status : Open \cup Ended, filled : 0 .. Quantity,
            traded : BOOLEAN]

Init ==
    /\ exchange = [o \in Orders |-> Unknown]
    /\ stream = <<>>
    /\ submitted = {}
    /\ sent = {}
    /\ scenario \in Scenarios
    /\ faults = 0
    /\ local = [o \in Orders |-> Unknown]
    /\ listed = {}
    /\ pending = {}
    /\ finished = [o \in Orders |-> "none"]
    /\ placed = 0
    /\ fills = 0
    /\ active = TRUE

-----------------------------------------------------------------------------
(* External: the exchange.                                                 *)
Moved(o, state, traded) ==
    LET report == [order |-> o, status |-> state.status, filled |-> state.filled,
                   traded |-> traded]
    IN  /\ exchange' = [exchange EXCEPT ![o] = state]
        /\ stream' = Append(stream, report)
        /\ sent' = sent \cup {report}
        /\ UNCHANGED <<submitted, scenario, faults, manager>>

(* The order that was sent after it was registered arrives.                *)
ExchangeAccepts(o) ==
    /\ exchange[o].status = "none"
    /\ o \in submitted
    /\ \E s \in {"new", "rejected"} : Moved(o, [Unknown EXCEPT !.status = s], FALSE)

ExchangeTrades(o) ==
    /\ exchange[o].status \in Open
    /\ LET n == exchange[o].filled + 1 IN
       Moved(o, [status |-> IF n = Quantity THEN "filled" ELSE "partial",
                 filled |-> n, fills |-> n], TRUE)

ExchangeEnds(o) ==
    /\ exchange[o].status \in Open
    /\ \E s \in {"canceled", "expired"} : Moved(o, [exchange[o] EXCEPT !.status = s], FALSE)

Exchange == \E o \in Orders : ExchangeAccepts(o) \/ ExchangeTrades(o) \/ ExchangeEnds(o)

MayFail(fault) == fault \in scenario.faults /\ faults < scenario.most

(* External: a disconnect loses the reports on their way; an overlapping   *)
(* second connection delivers an old one again.                            *)
StreamLoses ==
    /\ MayFail("lose")
    /\ stream # <<>>
    /\ stream' = <<>>
    /\ faults' = faults + 1
    /\ UNCHANGED <<exchange, submitted, sent, scenario, manager>>

StreamRepeats ==
    /\ MayFail("repeat")
    /\ \E r \in sent : stream' = Append(stream, r)
    /\ faults' = faults + 1
    /\ UNCHANGED <<exchange, submitted, sent, scenario, manager>>

-----------------------------------------------------------------------------
(* register_outgoing_order; every order has an id of its own.              *)
Register(o) ==
    /\ o \in scenario.orders \ submitted
    /\ submitted' = submitted \cup {o}
    /\ local' = [local EXCEPT ![o] = [Unknown EXCEPT !.status = "new"]]
    /\ pending' = pending \cup {o}
    /\ listed' = listed \cup {o}
    /\ placed' = placed + 1
    /\ UNCHANGED <<exchange, stream, sent, scenario, faults, finished, fills, active>>

(* Mutant: the fill count is set where it should be incremented.           *)
MutantApplied(l, r) ==
    [status |-> r.status, filled |-> r.filled,
     fills |-> IF r.traded THEN 1 ELSE l.fills]

(* Mutant: the amounts are added up.                                       *)
MutantAppliedSum(l, r) ==
    [status |-> r.status, filled |-> l.filled + r.filled,
     fills |-> IF r.traded THEN l.fills + 1 ELSE l.fills]

(* What a report makes of the local state: it replaces it.                 *)
Applied(l, r) ==
    [status |-> r.status, filled |-> r.filled,
     fills |-> IF r.traded THEN l.fills + 1 ELSE l.fills]

Unconfirmed(r) == pending \ {r.order}

(* Mutant: only filled orders go to the history.                           *)
MutantEnds(r) == r.status = "filled"

Ends(r) == r.status \in Ended

(* process_execution_report; a report of an unknown order creates it.  The *)
(* discrepancy it may return changes nothing.                              *)
ProcessReport ==
    /\ active
    /\ stream # <<>>
    /\ stream' = Tail(stream)
    /\ LET r == Head(stream)
           l == IF local[r.order].status = "none"
                  THEN [Unknown EXCEPT !.status = "new"] ELSE local[r.order]
       IN  /\ pending' = Unconfirmed(r)
           /\ local' = [local EXCEPT ![r.order] = Applied(l, r)]
           /\ fills' = IF r.traded THEN fills + 1 ELSE fills
           /\ finished' = IF Ends(r)
                            THEN [finished EXCEPT ![r.order] = r.status] ELSE finished
    /\ UNCHANGED <<exchange, submitted, sent, scenario, faults, listed, placed, active>>

(* "Order manager inactive": the report is dropped.                        *)
DropReport ==
    /\ ~ active
    /\ stream # <<>>
    /\ stream' = Tail(stream)
    /\ UNCHANGED <<exchange, submitted, sent, scenario, faults, manager>>

(* cleanup_filled_orders forgets the filled orders that are old enough.    *)
Cleanup ==
    \E old \in SUBSET {o \in Orders : local[o].status = "filled"} :
        /\ old # {}
        /\ local' = [o \in Orders |-> IF o \in old THEN Unknown ELSE local[o]]
        /\ UNCHANGED <<world, listed, pending, finished, placed, fills, active>>

(* deactivate and activate.                                                *)
Deactivate ==
    /\ MayFail("inactive")
    /\ active
    /\ active' = FALSE
    /\ faults' = faults + 1
    /\ UNCHANGED <<exchange, stream, submitted, sent, scenario, local, listed, pending,
                   finished, placed, fills>>

Activate ==
    /\ ~ active
    /\ active' = TRUE
    /\ UNCHANGED <<world, local, listed, pending, finished, placed, fills>>

(* A new process starts with a new manager and a new stream.               *)
Restart ==
    /\ MayFail("restart")
    /\ faults' = faults + 1
    /\ stream' = <<>>
    /\ local' = [o \in Orders |-> Unknown]
    /\ listed' = {}
    /\ pending' = {}
    /\ finished' = [o \in Orders |-> "none"]
    /\ placed' = 0
    /\ fills' = 0
    /\ active' = TRUE
    /\ UNCHANGED <<exchange, submitted, sent, scenario>>

Next ==
    \/ Exchange \/ StreamLoses \/ StreamRepeats
    \/ \E o \in Orders : Register(o)
    \/ ProcessReport \/ DropReport \/ Cleanup
    \/ Deactivate \/ Activate \/ Restart

-----------------------------------------------------------------------------
(* Whatever is lost, repeated or restarted, the local picture never runs   *)
(* ahead of the exchange: no fill is believed that did not happen.         *)
NeverAhead ==
    \A o \in Orders :
        /\ local[o].filled <= exchange[o].filled
        /\ local[o].status \in Ended => exchange[o].status = local[o].status

(* The trades of an order whose reports are on their way.                  *)
OnTheWay(o) == {i \in DOMAIN stream : stream[i].order = o /\ stream[i].traded}

(* Until the first fault every trade is counted once, those whose report   *)
(* is on its way included; and when all reports were read, the manager and *)
(* the exchange agree on every order that was confirmed.                   *)
PictureIsExact ==
    faults = 0 => \A o \in Orders : local[o].status # "none" =>
        /\ local[o].fills + Cardinality(OnTheWay(o)) = exchange[o].fills
        /\ stream = <<>> /\ o \notin pending =>
              /\ local[o].status = exchange[o].status
              /\ local[o].filled = exchange[o].filled

(* An order that ends on the exchange ends in the manager, too, where it   *)
(* is kept in the history, unless there is a fault meanwhile.              *)
EndIsNoticed ==
    \A o \in Orders :
        exchange[o].status \in Ended ~> finished[o] = exchange[o].status \/ faults > 0
=============================================================================
