-------------------------- MODULE PositionRebuilder --------------------------
(***************************************************************************)
(* PositionRebuilder of crates/recovery/src/position_rebuilder.rs for one  *)
(* symbol: it fetches the trade history page by page while trading may go  *)
(* on, and folds the fills into a position.  The exchange and the order in *)
(* which it lists the history are external.  total_cost and fill_count,    *)
(* which no other field depends on, are left out.                          *)
(***************************************************************************)
EXTENDS Integers, SequencesExt

CONSTANTS
    FillPrices,
    FillSizes,
    Commissions,    \* of fills; a rebate is negative
    BatchSize,      \* batch_size
    PageLimit,      \* the safety limit, in pages: 1000
    MaxFills        \* bound on the fills of the exchange

ASSUME RebuilderAssumption ==
    /\ FillPrices \subseteq Nat \ {0} /\ FillSizes \subseteq Nat \ {0} /\ Commissions \subseteq Int
    /\ BatchSize \in Nat \ {0} /\ PageLimit \in Nat /\ MaxFills \in Nat

VARIABLES
    history,    \* external: the fills of the exchange, the oldest first
    newestFirst,\* external: the order of get_trade_history
    rebuilder,  \* "idle", "fetching", "done"
    offset,
    allFills,   \* all_fills
    atStart     \* history: the fills there were when the rebuild began

rebuildVars == <<history, newestFirst, rebuilder, offset, allFills, atStart>>

RebuildInit ==
    /\ history = << >>
    /\ newestFirst \in BOOLEAN
    /\ rebuilder = "idle"
    /\ offset = 0
    /\ allFills = << >>
    /\ atStart = << >>

ExchangeFills ==
    /\ Len(history) < MaxFills
    /\ \E side \in {1, -1}, price \in FillPrices, quantity \in FillSizes, commission \in Commissions :
        history' = Append(history, [side |-> side, price |-> price, quantity |-> quantity,
                                    commission |-> commission, id |-> Len(history)])
    /\ UNCHANGED <<newestFirst, rebuilder, offset, allFills, atStart>>

StartRebuild ==
    /\ rebuilder = "idle"
    /\ rebuilder' = "fetching"
    /\ atStart' = history
    /\ UNCHANGED <<history, newestFirst, offset, allFills>>

Listed == IF newestFirst THEN Reverse(history) ELSE history

Page == SubSeq(Listed, offset + 1, Min({offset + BatchSize, Len(history)}))

(* The offset advances by a whole page, however short the page was.        *)
FetchPage ==
    /\ rebuilder = "fetching"
    /\ IF Page = << >>
         THEN rebuilder' = "done" /\ UNCHANGED <<offset, allFills>>
         ELSE /\ allFills' = allFills \o Page
              /\ offset' = offset + BatchSize
              /\ rebuilder' = IF offset' > BatchSize * PageLimit THEN "done" ELSE rebuilder
    /\ UNCHANGED <<history, newestFirst, atStart>>

(* An error of the exchange ends the rebuild and what was fetched is lost. *)
FetchFails ==
    /\ rebuilder = "fetching"
    /\ rebuilder' = "idle" /\ offset' = 0 /\ allFills' = << >> /\ atStart' = << >>
    /\ UNCHANGED <<history, newestFirst>>

RebuildNext == ExchangeFills \/ StartRebuild \/ FetchPage \/ FetchFails

-----------------------------------------------------------------------------
(* The position, its side as +1, -1 or 0.  Amounts of money are fractions. *)
Fraction(n, d) == [n |-> n, d |-> d]
Plus(a, b) == Fraction(a.n * b.d + b.n * a.d, a.d * b.d)
Times(a, k) == Fraction(a.n * k, a.d)
Equal(a, b) == a.n * b.d = b.n * a.d

Flat == [side |-> 0, quantity |-> 0, average |-> Fraction(0, 1), realized |-> Fraction(0, 1)]

Add(p, fill) ==
    LET total == p.quantity + fill.quantity
        paid == Plus(Times(p.average, p.quantity), Fraction(fill.price * fill.quantity, 1))
    IN  [p EXCEPT !.side = fill.side, !.quantity = total,
                  !.average = Fraction(paid.n, paid.d * total)]

(* Commissions are charged to what a closing fill realizes.                *)
Gain(p, fill, quantity) ==
    Plus(Times(Plus(Fraction(fill.price, 1), Times(p.average, -1)), p.side * quantity),
         Fraction(-fill.commission, 1))

Reduce(p, fill) ==
    [p EXCEPT !.realized = Plus(@, Gain(p, fill, fill.quantity)),
              !.quantity = @ - fill.quantity]

(* Mutant: a flipped position is given the whole fill.                     *)
MutantCloseOrFlip(p, fill) ==
    LET closed == [Flat EXCEPT !.realized = Plus(p.realized, Gain(p, fill, p.quantity))]
    IN  IF fill.quantity > p.quantity
        THEN [closed EXCEPT !.side = fill.side, !.quantity = fill.quantity,
                            !.average = Fraction(fill.price, 1)]
        ELSE closed

CloseOrFlip(p, fill) ==
    LET closed == [Flat EXCEPT !.realized = Plus(p.realized, Gain(p, fill, p.quantity))]
    IN  IF fill.quantity > p.quantity
        THEN [closed EXCEPT !.side = fill.side, !.quantity = fill.quantity - p.quantity,
                            !.average = Fraction(fill.price, 1)]
        ELSE closed

ApplyFill(p, fill) ==
    IF p.side \in {0, fill.side} THEN Add(p, fill)
    ELSE IF fill.quantity < p.quantity THEN Reduce(p, fill) ELSE CloseOrFlip(p, fill)

(* process_fills, one fill after another.                                  *)
Folded(fills) ==
    LET after[n \in 0 .. Len(fills)] ==
            IF n = 0 THEN Flat ELSE ApplyFill(after[n - 1], fills[n])
    IN  after[Len(fills)]

(* The result has no flat position, nor what it has realized.              *)
Rebuilt(fills) == {p \in {Folded(fills)} : p.side # 0}

-----------------------------------------------------------------------------
(* What the fills bought and what they paid and earned, one by one; and    *)
(* the commissions of those that closed a part of what was held.           *)
Bought(f) == f.side * f.quantity
Earned(f) == -(f.side * f.quantity * f.price)
Charge(holding, f) == IF holding * f.side < 0 THEN f.commission ELSE 0

Holding(fills) ==
    LET sum[n \in 0 .. Len(fills)] == IF n = 0 THEN 0 ELSE sum[n - 1] + Bought(fills[n])
    IN  sum
Signed(fills) == Holding(fills)[Len(fills)]
Cash(fills) ==
    LET sum[n \in 0 .. Len(fills)] == IF n = 0 THEN 0 ELSE sum[n - 1] + Earned(fills[n])
    IN  sum[Len(fills)]
Charges(fills) ==
    LET sum[n \in 0 .. Len(fills)] ==
            IF n = 0 THEN 0 ELSE sum[n - 1] + Charge(Holding(fills)[n - 1], fills[n])
    IN  sum[Len(fills)]

(* What is fetched before the safety limit ends the loop.                  *)
Reach == BatchSize * (PageLimit + 1)

(* However trading goes on, a fill of a history that is listed from its    *)
(* beginning is never counted twice, nor one missed that was there when    *)
(* the rebuild began.                                                      *)
HistoryIsCovered ==
    rebuilder = "done" /\ ~newestFirst =>
        /\ IsInjective(allFills)
        /\ Len(atStart) <= Reach => ToSet(atStart) \subseteq ToSet(allFills)

(* If nothing was traded while the history was fetched, the result has a   *)
(* position exactly if the exchange has one, and of the same size, however *)
(* often it was turned over on the way.  What it has realized and what it  *)
(* holds at its average price add up to the money paid and received, less  *)
(* the commissions of closing fills, in the order they are listed; those   *)
(* of opening fills are not in realized_pnl, and of a position that ended  *)
(* flat nothing is left to compare.  If something was traded, the history  *)
(* is covered all the same.                                                *)
RebuildIsExact ==
    /\ rebuilder = "done" /\ history = atStart /\ Len(history) <= Reach =>
         /\ Rebuilt(allFills) = {} <=> Signed(history) = 0
         /\ \A p \in Rebuilt(allFills) :
              /\ p.side * p.quantity = Signed(history)
              /\ Equal(Plus(p.realized, Times(p.average, -(p.side * p.quantity))),
                       Fraction(Cash(history) - Charges(allFills), 1))
    /\ HistoryIsCovered
=============================================================================
