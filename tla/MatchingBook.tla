---------------------------- MODULE MatchingBook ----------------------------
(***************************************************************************)
(* LOBSimulator of crates/backtest/src/lob_simulator.rs, the order book    *)
(* the backtest matches against: levels of queued orders on two sides and  *)
(* the best prices read from them.  Calls come one after the other.        *)
(* Prices and quantities are integers; the spread, the mid price and the   *)
(* statistics, which follow from the rest, are left out.                   *)
(***************************************************************************)
EXTENDS Integers, Sequences, FiniteSetsExt, Functions, SequencesExt

CONSTANTS
    RawPrices,      \* limit prices orders ask for
    TickSize,
    Lots,           \* quantities of new orders
    MaxOrders       \* bound on the orders

ASSUME MatchingAssumption ==
    /\ RawPrices \subseteq Nat \ {0} /\ TickSize \in Nat \ {0}
    /\ Lots \subseteq Nat \ {0} /\ MaxOrders \in Nat

BookSides == {"buy", "sell"}
Other(side) == IF side = "buy" THEN "sell" ELSE "buy"
Infinity == 2 * Max(RawPrices \cup {TickSize}) + TickSize

VARIABLES
    levels,     \* bids and asks: for each price with a level, its volume, count and orders
    bestPrice,
    submitted,  \* orders so far; the next order has the next id
    shaved,     \* history: a buy took part of an ask
    misplaced   \* history: an order off the grid went to the other side

matchVars == <<levels, bestPrice, submitted, shaved, misplaced>>

NoLevels == [p \in {} |-> 0]
NoPrice(side) == IF side = "buy" THEN 0 ELSE Infinity

MatchingInit ==
    /\ levels = [s \in BookSides |-> NoLevels]
    /\ bestPrice = [s \in BookSides |-> NoPrice(s)]
    /\ submitted = 0 /\ shaved = FALSE /\ misplaced = FALSE

SnapToTick(price) == ((2 * price + TickSize) \div (2 * TickSize)) * TickSize

(* An order at this price can trade with one of the other side.            *)
Reaches(side, price, other) == IF side = "buy" THEN price >= other ELSE price <= other

BestOf(side, book) ==
    IF DOMAIN book = {} THEN NoPrice(side)
    ELSE IF side = "buy" THEN Max(DOMAIN book) ELSE Min(DOMAIN book)

UpdateBestPrices == bestPrice' = [s \in BookSides |-> BestOf(s, levels'[s])]

Quantity(orders) == FoldSeq(LAMBDA o, total : o.quantity + total, 0, orders)

(* A level whose volume is used up goes, with the orders it still has.     *)
WithLevel(book, price, level) ==
    IF level.volume <= 0 THEN Restrict(book, DOMAIN book \ {price})
    ELSE [p \in DOMAIN book \cup {price} |-> IF p = price THEN level ELSE book[p]]

AddLimitOrder(side, price, q) ==
    LET old == IF price \in DOMAIN levels[side] THEN levels[side][price]
               ELSE [volume |-> 0, count |-> 0, orders |-> <<>>]
        new == [volume |-> old.volume + q, count |-> old.count + 1,
                orders |-> Append(old.orders, [id |-> submitted + 1, quantity |-> q])]
    IN  levels' = [levels EXCEPT ![side] = WithLevel(@, price, new)]

-----------------------------------------------------------------------------
(* process_new_order                                                       *)
Crosses(side, raw) ==
    /\ DOMAIN levels[Other(side)] # {}
    /\ Reaches(side, SnapToTick(raw), bestPrice[Other(side)])

Rest(side, raw, q) ==
    /\ ~Crosses(side, raw)
    /\ AddLimitOrder(side, SnapToTick(raw), q)
    /\ UpdateBestPrices
    /\ UNCHANGED <<shaved, misplaced>>

(* The order reaches the other side by its rounded price and not by its    *)
(* own: its limit order is added there.                                    *)
RestMisplaced(side, raw, q) ==
    /\ Crosses(side, raw) /\ ~Reaches(side, raw, bestPrice[Other(side)])
    /\ AddLimitOrder(Other(side), raw, q)
    /\ UpdateBestPrices
    /\ misplaced' = TRUE
    /\ UNCHANGED shaved

(* One trade at the best price; what it leaves of the order is dropped.    *)
(* A buy takes what it fills of an order's part from the volume twice.     *)
ExecuteMarket(side, raw, q) ==
    LET price == bestPrice[Other(side)]
        level == levels[Other(side)][price]
        fill == Min({q, level.volume})
        whole == Max({k \in 0 .. Len(level.orders) : Quantity(SubSeq(level.orders, 1, k)) <= fill})
        part == fill - Quantity(SubSeq(level.orders, 1, whole))
        queue == SubSeq(level.orders, whole + 1, Len(level.orders))
        left == IF queue = <<>> THEN <<>> ELSE [queue EXCEPT ![1].quantity = @ - part]
        twice == IF side = "buy" /\ queue # <<>> THEN part ELSE 0
        new == [volume |-> level.volume - fill - twice, count |-> level.count - whole,
                orders |-> left]
    IN  /\ Crosses(side, raw) /\ Reaches(side, raw, price)
        /\ levels' = [levels EXCEPT ![Other(side)] = WithLevel(@, price, new)]
        /\ UpdateBestPrices
        /\ shaved' = (shaved \/ twice > 0)
        /\ UNCHANGED misplaced

NewOrder(side, raw, q) ==
    /\ submitted < MaxOrders /\ submitted' = submitted + 1
    /\ Rest(side, raw, q) \/ RestMisplaced(side, raw, q) \/ ExecuteMarket(side, raw, q)

IdsAt(level) == {level.orders[i].id : i \in DOMAIN level.orders}
Without(level, id) ==
    LET i == CHOOSE k \in DOMAIN level.orders : level.orders[k].id = id
    IN  [volume |-> level.volume - level.orders[i].quantity, count |-> level.count - 1,
         orders |-> RemoveAt(level.orders, i)]

(* Mutant: the best prices are not looked up again.                        *)
MutantCancelOrder(id) ==
    /\ \E side \in BookSides : \E p \in DOMAIN levels[side] :
        /\ id \in IdsAt(levels[side][p])
        /\ levels' = [levels EXCEPT ![side] = WithLevel(@, p, Without(@[p], id))]
    /\ UNCHANGED <<bestPrice, submitted, shaved, misplaced>>

CancelOrder(id) ==
    /\ \E side \in BookSides : \E p \in DOMAIN levels[side] :
        /\ id \in IdsAt(levels[side][p])
        /\ levels' = [levels EXCEPT ![side] = WithLevel(@, p, Without(@[p], id))]
    /\ UpdateBestPrices
    /\ UNCHANGED <<submitted, shaved, misplaced>>

MatchingNext ==
    \/ \E side \in BookSides, raw \in RawPrices, q \in Lots : NewOrder(side, raw, q)
    \/ \E id \in 1 .. MaxOrders : CancelOrder(id)

MatchingSpec == MatchingInit /\ [][MatchingNext]_matchVars

-----------------------------------------------------------------------------
LevelsAreExact(side) ==
    \A p \in DOMAIN levels[side] :
        levels[side][p].volume = Quantity(levels[side][p].orders)
CountsAreExact ==
    \A side \in BookSides : \A p \in DOMAIN levels[side] :
        LET level == levels[side][p] IN level.count = Len(level.orders) /\ level.orders # <<>>

(* After any calls the best prices are those of the levels, every level's  *)
(* count and volume are those of its orders (asks': until a buy has taken  *)
(* part of one), and no bid reaches an ask (until an order off the price   *)
(* grid was put on the other side).                                        *)
BookAgrees ==
    /\ \A side \in BookSides : bestPrice[side] = BestOf(side, levels[side])
    /\ CountsAreExact
    /\ LevelsAreExact("buy")
    /\ ~shaved => LevelsAreExact("sell")
    /\ ~misplaced => \A bid \in DOMAIN levels["buy"], ask \in DOMAIN levels["sell"] : bid < ask
=============================================================================
