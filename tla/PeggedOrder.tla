----------------------------- MODULE PeggedOrder -----------------------------
(***************************************************************************)
(* PeggedOrderManager of crates/execution/src/pegged_orders.rs and one     *)
(* order of it.  At each move of the market the caller passes the new book *)
(* to update_on_market_move, and sends the venue the price it is given.    *)
(* FixedOffset is the same as MidPrice.                                    *)
(***************************************************************************)
EXTENDS Integers

CONSTANTS
    PegTypes,
    Offset,
    LowBound, HighBound,    \* min_price and max_price, 0 for none
    Books,                  \* [bid, ask, primary]
    TickSizes

ASSUME PegAssumption ==
    /\ PegTypes \subseteq {"mid", "primary", "bid", "ask"}
    /\ Offset \in Int /\ LowBound \in Nat /\ HighBound \in Nat
    /\ TickSizes \subseteq Nat
    /\ \A b \in Books :
          /\ b.bid \in Nat /\ b.ask \in Nat /\ b.primary \in Nat
          /\ 0 < b.bid /\ b.bid < b.ask

VARIABLES
    peg,            \* [type, isBuy]
    book,           \* the book of the last move
    current,        \* current_price
    pegActive,
    pegEnabled,
    tick,           \* tick_size
    pegCount,       \* active_count
    venuePrice,     \* external: the price at the venue, 0 before the first
    fresh           \* history: current_price was computed from `book` and `tick`

pegVars == <<peg, book, current, pegActive, pegEnabled, tick, pegCount, venuePrice, fresh>>

PegInit ==
    /\ peg \in [type : PegTypes, isBuy : BOOLEAN]
    /\ book \in Books
    /\ current = 0
    /\ pegActive = TRUE
    /\ pegEnabled = TRUE
    /\ tick \in TickSizes
    /\ pegCount = 1
    /\ venuePrice = 0
    /\ fresh = FALSE

Reference(b) ==
    CASE peg.type = "mid" -> (b.bid + b.ask) \div 2
      [] peg.type = "primary" -> b.primary
      [] peg.type = "bid" -> b.bid
      [] peg.type = "ask" -> b.ask

(* Division of integers goes towards zero.                                 *)
RoundedToTick(p) ==
    IF tick = 0 THEN p ELSE IF p >= 0 THEN (p \div tick) * tick ELSE -(((-p) \div tick) * tick)

Bounded(p) ==
    LET low == IF LowBound > 0 /\ p < LowBound THEN LowBound ELSE p
    IN  IF HighBound > 0 /\ low > HighBound THEN HighBound ELSE low

NotCrossing(p, b) ==
    IF peg.isBuy /\ p >= b.ask THEN b.ask - tick
    ELSE IF ~peg.isBuy /\ p <= b.bid THEN b.bid + tick ELSE p

(* Mutant: the bounds come last.                                           *)
MutantPeggedPrice(b) == Bounded(NotCrossing(RoundedToTick(Reference(b) + Offset), b))

PeggedPrice(b) == NotCrossing(Bounded(RoundedToTick(Reference(b) + Offset)), b)

OutOfBounds(p) ==
    \/ LowBound > 0 /\ p < LowBound
    \/ HighBound > 0 /\ p > HighBound

Distance(p, q) == IF p > q THEN p - q ELSE q - p

Reprice(b) ==
    LET p == PeggedPrice(b)
    IN  IF OutOfBounds(p)
        THEN /\ pegActive' = FALSE
             /\ fresh' = FALSE
             /\ UNCHANGED <<current, venuePrice>>
        ELSE /\ current' = p
             /\ fresh' = TRUE
             /\ venuePrice' = IF p # 0 /\ Distance(p, current) > tick THEN p ELSE venuePrice
             /\ UNCHANGED pegActive

(* The active count is left alone when the bounds end the order.           *)
MarketMoves ==
    /\ book' \in Books
    /\ IF pegActive /\ pegEnabled THEN Reprice(book')
       ELSE fresh' = FALSE /\ UNCHANGED <<current, pegActive, venuePrice>>
    /\ UNCHANGED <<peg, pegEnabled, tick, pegCount>>

CancelPeg ==
    /\ pegActive
    /\ pegActive' = FALSE
    /\ pegCount' = pegCount - 1
    /\ UNCHANGED <<peg, book, current, pegEnabled, tick, venuePrice, fresh>>

SetTickSize ==
    /\ tick' \in TickSizes
    /\ fresh' = FALSE
    /\ UNCHANGED <<peg, book, current, pegActive, pegEnabled, pegCount, venuePrice>>

SetPegEnabled ==
    /\ pegEnabled' = ~pegEnabled
    /\ UNCHANGED <<peg, book, current, pegActive, tick, pegCount, venuePrice, fresh>>

PegNext == MarketMoves \/ CancelPeg \/ SetTickSize \/ SetPegEnabled

BestOpposite == IF peg.isBuy THEN book.ask ELSE book.bid

(* A price computed from the current book is within the bounds of the      *)
(* order and not beyond the best price of the other side, in whatever      *)
(* order bounds, ticks and the other side bite, and the venue is sent no   *)
(* price out of bounds.  "avoid crossing" (pegged_orders.rs:141) also      *)
(* wants it short of the other side's best price; that holds with a tick   *)
(* size above 0 only.  With 0, which set_tick_size takes, the order is     *)
(* moved back by nothing and may stand at that price and trade.            *)
PegIsSafe ==
    /\ pegActive /\ fresh =>
        /\ ~OutOfBounds(current)
        /\ IF peg.isBuy THEN current <= BestOpposite ELSE current >= BestOpposite
        /\ tick > 0 => current # BestOpposite
    /\ venuePrice # 0 => ~OutOfBounds(venuePrice)
=============================================================================
