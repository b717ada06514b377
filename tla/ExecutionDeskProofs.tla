------------------------ MODULE ExecutionDeskProofs ------------------------
(***************************************************************************)
(* Theorems about the execution algorithms, for a parent order of any size,*)
(* any number of threads that report fills and any books and prices.       *)
(***************************************************************************)
EXTENDS ExecutionDesk, FiniteSetTheorems, TLAPS

(* The pegged order: its parameters have their types, and its prices are   *)
(* safe.                                                                   *)
PegInv ==
    /\ peg \in [type : PegTypes, isBuy : BOOLEAN]
    /\ tick \in TickSizes /\ book \in Books
    /\ current \in Int /\ venuePrice \in Int
    /\ PegIsSafe
-----------------------------------------------------------------------------
(* Rounding to the tick size, up or down from zero, gives a price.         *)
LEMMA RoundedIsInteger ==
    ASSUME NEW p \in Int, PegInv
    PROVE  RoundedToTick(p) \in Int
<1>1. tick \in Nat
  BY PegAssumption DEF PegInv
<1>2. CASE tick = 0
  BY <1>2 DEF RoundedToTick
<1>3. CASE tick # 0
  <2>1. p \div tick \in Int /\ (-p) \div tick \in Int
    BY <1>1, <1>3
  <2>2. (p \div tick) * tick \in Int /\ -(((-p) \div tick) * tick) \in Int
    BY <1>1, <2>1
  <2> QED BY <1>3, <2>2 DEF RoundedToTick
<1> QED BY <1>2, <1>3

(* The pegged price is an integer before it is kept from crossing.         *)
LEMMA BoundedIsInteger ==
    ASSUME NEW b \in Books, PegInv
    PROVE  Bounded(RoundedToTick(Reference(b) + Offset)) \in Int
<1>1. b.bid \in Int /\ b.ask \in Int /\ b.primary \in Int
  BY PegAssumption
<1>2. peg.type \in {"mid", "primary", "bid", "ask"}
  BY PegAssumption DEF PegInv
<1>3. (b.bid + b.ask) \div 2 \in Int
  BY <1>1
<1>4. Reference(b) + Offset \in Int
  BY <1>1, <1>2, <1>3, PegAssumption DEF Reference
<1>5. RoundedToTick(Reference(b) + Offset) \in Int
  BY <1>4, RoundedIsInteger
<1> QED BY <1>5, PegAssumption DEF Bounded

(* What keeps a price from crossing the book gives one that is not beyond  *)
(* the other side, and short of it with a tick above zero.                 *)
LEMMA NotCrossingIsSafe ==
    ASSUME NEW b \in Books, NEW p \in Int, PegInv
    PROVE  /\ NotCrossing(p, b) \in Int
           /\ IF peg.isBuy THEN NotCrossing(p, b) <= b.ask ELSE NotCrossing(p, b) >= b.bid
           /\ tick > 0 => NotCrossing(p, b) # (IF peg.isBuy THEN b.ask ELSE b.bid)
<1>1. b.bid \in Int /\ b.ask \in Int /\ tick \in Nat
  BY PegAssumption DEF PegInv
<1>2. peg.isBuy \in BOOLEAN
  BY DEF PegInv
<1> QED BY <1>1, <1>2 DEF NotCrossing

(* A repricing ends the order or takes a price that is within the bounds   *)
(* and not beyond the new book's other side.                               *)
LEMMA RepriceIsSafe ==
    ASSUME PegInv, book' \in Books, Reprice(book'), pegActive,
           UNCHANGED <<peg, pegEnabled, tick, pegCount>>
    PROVE  PegInv'
<1> DEFINE b == book'
           p == PeggedPrice(b)
<1>1. /\ p \in Int
      /\ IF peg.isBuy THEN p <= b.ask ELSE p >= b.bid
      /\ tick > 0 => p # (IF peg.isBuy THEN b.ask ELSE b.bid)
  BY BoundedIsInteger, NotCrossingIsSafe DEF PeggedPrice
<1>2. peg' \in [type : PegTypes, isBuy : BOOLEAN] /\ tick' \in TickSizes
  BY DEF PegInv
<1> HIDE DEF b, p
<1>3. CASE OutOfBounds(p)
  <2>1. ~ pegActive' /\ current' = current /\ venuePrice' = venuePrice
    BY <1>3 DEF Reprice, p, b
  <2> QED BY <1>2, <2>1 DEF PegInv, PegIsSafe, BestOpposite, OutOfBounds
<1>4. CASE ~ OutOfBounds(p)
  <2>1. current' = p /\ venuePrice' \in {p, venuePrice}
    BY <1>4 DEF Reprice, p, b
  <2>2. ~ OutOfBounds(current)' /\ (venuePrice # 0 => ~ OutOfBounds(venuePrice))'
    BY <1>4, <2>1 DEF PegInv, PegIsSafe, BestOpposite, OutOfBounds
  <2>3. /\ BestOpposite' = IF peg.isBuy THEN b.ask ELSE b.bid
        /\ IF peg'.isBuy THEN current' <= BestOpposite' ELSE current' >= BestOpposite'
        /\ tick' > 0 => current' # BestOpposite'
    BY <1>1, <2>1 DEF b, BestOpposite
  <2>4. current' \in Int /\ venuePrice' \in Int
    BY <1>1, <2>1 DEF PegInv
  <2> QED BY <1>2, <2>2, <2>3, <2>4 DEF PegInv, PegIsSafe
<1> QED BY <1>3, <1>4

(* No step of the desk breaks the invariant of the pegged order.           *)
LEMMA PegStep ==
    ASSUME PegInv, DeskNext
    PROVE  PegInv'
<1>1. CASE UNCHANGED pegVars
  BY <1>1 DEF PegInv, PegIsSafe, pegVars, OutOfBounds, BestOpposite
<1>2. CASE MarketMoves
  <2>1. CASE pegActive /\ pegEnabled
    BY <1>2, <2>1, RepriceIsSafe DEF MarketMoves
  <2>2. CASE ~ (pegActive /\ pegEnabled)
    BY <1>2, <2>2 DEF MarketMoves, PegInv, PegIsSafe, BestOpposite, OutOfBounds
  <2> QED BY <2>1, <2>2
<1>3. CASE CancelPeg
  BY <1>3 DEF CancelPeg, PegInv, PegIsSafe, BestOpposite, OutOfBounds
<1>4. CASE SetTickSize
  BY <1>4 DEF SetTickSize, PegInv, PegIsSafe, BestOpposite, OutOfBounds
<1>5. CASE SetPegEnabled
  BY <1>5 DEF SetPegEnabled, PegInv, PegIsSafe, BestOpposite, OutOfBounds
<1>6. UNCHANGED pegVars \/ PegNext
  BY DEF DeskNext, VenueNext, algoVars, Icebergs, Slices, Adaptives, Reserves, Pegging
<1> QED BY <1>1, <1>2, <1>3, <1>4, <1>5, <1>6 DEF PegNext

(* A price computed from the current book is within the bounds of the      *)
(* order and not beyond the best price of the other side, short of it if   *)
(* the tick size is above 0, and the venue is sent no price out of bounds, *)
(* for any books, bounds, offset and tick sizes from 0 on.                 *)
THEOREM PeggedPricesAreSafe == DeskSpec => []PegIsSafe
<1>1. DeskInit => PegInv
  BY DEF DeskInit, PegInit, PegInv, PegIsSafe
<1>2. PegInv /\ [DeskNext]_deskVars => PegInv'
  <2>1. ASSUME PegInv, UNCHANGED deskVars PROVE PegInv'
    BY <2>1 DEF deskVars, algoVars, pegVars, PegInv, PegIsSafe, BestOpposite, OutOfBounds
  <2> QED BY <2>1, PegStep
<1>3. PegInv => PegIsSafe
  BY DEF PegInv
<1> QED BY <1>1, <1>2, <1>3, PTL DEF DeskSpec
-----------------------------------------------------------------------------
(* The algorithms whose accounts are exact: what the venue has filled and  *)
(* the executed quantity does not have is what the handlers are about to   *)
(* record, but for the fills the manager of reserve orders ignored.        *)
Accounted == Exact \cup {"reserve"}

(* What a handler still owes the executed quantity.                        *)
Owed(h) == IF pc[h] \in {"report", "take"} THEN qty[h] ELSE 0

(* Each unit that is filled and not accounted for has one handler.         *)
UnitsOwed ==
    \E U \in SUBSET (1 .. filled) : \E owner \in [U -> Handlers] :
        /\ Cardinality(U) = filled - executed - dropped
        /\ \A h \in Handlers : Cardinality({u \in U : owner[u] = h}) = Owed(h)

Places == {"idle", "report", "clip", "keep", "reload", "refill", "hide", "stamp", "take",
           "average", "cvd buy", "cvd sell", "cvd store", "load reserve", "sub reserve"}

ChildTypes ==
    /\ algo \in Algos
    /\ working \in Nat /\ filled \in Nat /\ executed \in Int
    /\ pc \in [Handlers -> Places] /\ qty \in [Handlers -> Nat] /\ held \in [Handlers -> Int]
    /\ overlapped \in BOOLEAN /\ dropped \in Nat

(* Where the handlers of each algorithm may be.                            *)
MayBe(p) ==
    \/ p = "idle"
    \/ p = "report" /\ algo \notin {"cvd", "pegged"}
    \/ p \in {"clip", "keep", "reload", "refill", "hide"} /\ algo \in {"iceberg", "plain"}
    \/ p = "stamp" /\ algo = "twap"
    \/ p = "take" /\ algo \in {"adaptive", "discretionary"}
    \/ p = "average" /\ algo = "adaptive"
    \/ p \in {"cvd buy", "cvd sell", "cvd store"} /\ algo = "cvd"
    \/ p \in {"load reserve", "sub reserve"} /\ algo = "discretionary"

Accounts ==
    /\ UnitsOwed
    /\ working + filled <= Quantity + dropped
    /\ algo # "reserve" => dropped = 0
    /\ \A h \in Handlers :
        /\ pc[h] \in {"report", "take"} => qty[h] > 0
        /\ pc[h] = "take" => held[h] >= qty[h]

Located ==
    /\ \A h \in Handlers : MayBe(pc[h])
    /\ algo \in {"cvd", "pegged"} => working = 0

-----------------------------------------------------------------------------
(* The smaller of two integers.                                            *)
LEMMA MinOfTwo ==
    ASSUME NEW a \in Int, NEW b \in Int
    PROVE  Min({a, b}) = IF a <= b THEN a ELSE b
<1> DEFINE m == IF a <= b THEN a ELSE b
<1>1. m \in {a, b} /\ \A y \in {a, b} : m <= y
  OBVIOUS
<1>2. \A x \in {a, b} : (\A y \in {a, b} : x <= y) => x = m
  OBVIOUS
<1> QED BY <1>1, <1>2 DEF Min

(* The greater of two integers.                                            *)
LEMMA MaxOfTwo ==
    ASSUME NEW a \in Int, NEW b \in Int
    PROVE  Max({a, b}) = IF a >= b THEN a ELSE b
<1> DEFINE m == IF a >= b THEN a ELSE b
<1>1. m \in {a, b} /\ \A y \in {a, b} : m >= y
  OBVIOUS
<1>2. \A x \in {a, b} : (\A y \in {a, b} : x >= y) => x = m
  OBVIOUS
<1> QED BY <1>1, <1>2 DEF Max

(* Sets of units are finite, and a part has no more units than the whole.  *)
LEMMA UnitsAreFinite ==
    ASSUME NEW n \in Nat, NEW U \in SUBSET (1 .. n), NEW V \in SUBSET U
    PROVE  IsFiniteSet(U) /\ IsFiniteSet(V) /\ Cardinality(V) <= Cardinality(U)
           /\ Cardinality(U) \in Nat /\ Cardinality(V) \in Nat
<1>1. IsFiniteSet(1 .. n)
  BY FS_Interval
<1>2. IsFiniteSet(U)
  BY <1>1, FS_Subset
<1>3. IsFiniteSet(V) /\ Cardinality(V) <= Cardinality(U)
  BY <1>2, FS_Subset
<1> QED BY <1>2, <1>3, FS_CardinalityType

(* No handler owes more than what is filled and not accounted for, and if  *)
(* none owes anything all is accounted for.                                *)
LEMMA OwedIsUnrecorded ==
    ASSUME ChildTypes, UnitsOwed
    PROVE  /\ \A h \in Handlers : Owed(h) <= filled - executed - dropped
           /\ filled - executed - dropped >= 0
           /\ (\A h \in Handlers : Owed(h) = 0) => filled - executed - dropped = 0
<1>1. PICK U \in SUBSET (1 .. filled) : \E owner \in [U -> Handlers] :
        /\ Cardinality(U) = filled - executed - dropped
        /\ \A h \in Handlers : Cardinality({u \in U : owner[u] = h}) = Owed(h)
  BY DEF UnitsOwed
<1>2. PICK owner \in [U -> Handlers] :
        /\ Cardinality(U) = filled - executed - dropped
        /\ \A h \in Handlers : Cardinality({u \in U : owner[u] = h}) = Owed(h)
  BY <1>1
<1>3. filled \in Nat
  BY DEF ChildTypes
<1>4. \A h \in Handlers : Owed(h) <= filled - executed - dropped
  <2> TAKE h \in Handlers
  <2>1. Cardinality({u \in U : owner[u] = h}) <= Cardinality(U)
    BY <1>3, UnitsAreFinite
  <2> QED BY <1>2, <2>1
<1>5. filled - executed - dropped >= 0
  <2>1. Cardinality(U) \in Nat
    BY <1>3, UnitsAreFinite
  <2> QED BY <1>2, <2>1
<1>6. ASSUME \A h \in Handlers : Owed(h) = 0 PROVE filled - executed - dropped = 0
  <2>1. \A h \in Handlers : {u \in U : owner[u] = h} = {}
    <3> TAKE h \in Handlers
    <3>1. IsFiniteSet({u \in U : owner[u] = h})
      BY <1>3, UnitsAreFinite
    <3>2. Cardinality({u \in U : owner[u] = h}) = 0
      BY <1>2, <1>6
    <3> QED BY <3>1, <3>2, FS_EmptySet
  <2>2. U = {}
    BY <2>1
  <2>3. Cardinality(U) = 0
    BY <2>2, FS_EmptySet
  <2> QED BY <1>2, <2>3
<1> QED BY <1>4, <1>5, <1>6
(* A step that fills, records and drops nothing keeps the units.           *)
LEMMA UnitsStay ==
    ASSUME UnitsOwed, filled' = filled,
           filled' - executed' - dropped' = filled - executed - dropped,
           \A h \in Handlers : Owed(h)' = Owed(h)
    PROVE  UnitsOwed'
BY DEF UnitsOwed

(* A fill gives its handler units nobody has had.                          *)
LEMMA UnitsFill ==
    ASSUME ChildTypes, UnitsOwed, NEW h \in Handlers, NEW q \in Nat,
           filled' = filled + q, executed' = executed, dropped' = dropped,
           Owed(h) = 0, Owed(h)' = q,
           \A k \in Handlers \ {h} : Owed(k)' = Owed(k)
    PROVE  UnitsOwed'
<1>1. PICK U \in SUBSET (1 .. filled) : \E owner \in [U -> Handlers] :
        /\ Cardinality(U) = filled - executed - dropped
        /\ \A k \in Handlers : Cardinality({u \in U : owner[u] = k}) = Owed(k)
  BY DEF UnitsOwed
<1>2. PICK owner \in [U -> Handlers] :
        /\ Cardinality(U) = filled - executed - dropped
        /\ \A k \in Handlers : Cardinality({u \in U : owner[u] = k}) = Owed(k)
  BY <1>1
<1>3. filled \in Nat /\ executed \in Int /\ dropped \in Nat
  BY DEF ChildTypes
<1> DEFINE X == filled + 1 .. filled + q
           W == U \cup X
           all == [u \in W |-> IF u \in X THEN h ELSE owner[u]]
<1>4. IsFiniteSet(X) /\ Cardinality(X) = q
  <2> DEFINE a == filled + 1
             b == filled + q
  <2>1. a \in Int /\ b \in Int /\ (a > b => q = 0) /\ b - a + 1 = q
    BY <1>3
  <2> HIDE DEF a, b
  <2>2. IsFiniteSet(a .. b) /\ Cardinality(a .. b) = IF a > b THEN 0 ELSE b - a + 1
    BY <2>1, FS_Interval
  <2>3. IsFiniteSet(a .. b) /\ Cardinality(a .. b) = q
    BY <2>1, <2>2
  <2> QED BY <2>3 DEF a, b
<1>5. U \cap X = {} /\ W \in SUBSET (1 .. filled')
  BY <1>3
<1>6. IsFiniteSet(U)
  BY <1>3, UnitsAreFinite
<1>7. Cardinality(W) = Cardinality(U) + q
  <2>1. Cardinality(U \cup X) = Cardinality(U) + Cardinality(X) - Cardinality(U \cap X)
    BY <1>4, <1>6, FS_Union
  <2>2. Cardinality(U) \in Nat
    BY <1>6, FS_CardinalityType
  <2> QED BY <1>4, <1>5, <2>1, <2>2, FS_EmptySet
<1>8. all \in [W -> Handlers]
  BY <1>5
<1>9. {u \in W : all[u] = h} = X
  <2>1. {u \in U : owner[u] = h} = {}
    <3>1. IsFiniteSet({u \in U : owner[u] = h})
      BY <1>3, UnitsAreFinite
    <3>2. Cardinality({u \in U : owner[u] = h}) = 0
      BY <1>2
    <3> QED BY <3>1, <3>2, FS_EmptySet
  <2> QED BY <1>5, <2>1
<1>10. \A k \in Handlers \ {h} : {u \in W : all[u] = k} = {u \in U : owner[u] = k}
  BY <1>5
<1>11. \A k \in Handlers : Cardinality({u \in W : all[u] = k}) = Owed(k)'
  <2> HIDE DEF X, W, all
  <2>1. \A k \in Handlers \ {h} : Cardinality({u \in W : all[u] = k}) = Owed(k)'
    BY <1>2, <1>10
  <2>2. Cardinality({u \in W : all[u] = h}) = Owed(h)'
    BY <1>4, <1>9
  <2> QED BY <2>1, <2>2
<1>12. Cardinality(W) = filled' - executed' - dropped'
  <2> HIDE DEF W
  <2> QED BY <1>2, <1>3, <1>7
<1> HIDE DEF X, W, all
<1> QED BY <1>5, <1>8, <1>11, <1>12 DEF UnitsOwed

(* The units of a handler leave when it records or drops its fill.         *)
LEMMA UnitsRecord ==
    ASSUME ChildTypes, UnitsOwed, NEW h \in Handlers,
           filled' = filled, executed' \in Int, dropped' \in Int,
           executed' + dropped' = executed + dropped + Owed(h),
           Owed(h)' = 0,
           \A k \in Handlers \ {h} : Owed(k)' = Owed(k)
    PROVE  UnitsOwed'
<1>1. PICK U \in SUBSET (1 .. filled) : \E owner \in [U -> Handlers] :
        /\ Cardinality(U) = filled - executed - dropped
        /\ \A k \in Handlers : Cardinality({u \in U : owner[u] = k}) = Owed(k)
  BY DEF UnitsOwed
<1>2. PICK owner \in [U -> Handlers] :
        /\ Cardinality(U) = filled - executed - dropped
        /\ \A k \in Handlers : Cardinality({u \in U : owner[u] = k}) = Owed(k)
  BY <1>1
<1>3. filled \in Nat /\ executed \in Int /\ dropped \in Nat
  BY DEF ChildTypes
<1> DEFINE X == {u \in U : owner[u] = h}
           W == U \ X
           rest == [u \in W |-> owner[u]]
<1>4. W \in SUBSET (1 .. filled') /\ rest \in [W -> Handlers]
  OBVIOUS
<1>5. Cardinality(X) = Owed(h)
  BY <1>2
<1>6. Cardinality(W) = Cardinality(U) - Owed(h) /\ Cardinality(U) \in Nat /\ Cardinality(W) \in Nat
  <2>1. IsFiniteSet(U) /\ Cardinality(U) \in Nat
    BY <1>3, UnitsAreFinite
  <2>2. Cardinality(U \ X) = Cardinality(U) - Cardinality(U \cap X)
    BY <2>1, FS_Difference
  <2>3. U \cap X = X
    OBVIOUS
  <2>4. Cardinality(W) \in Nat
    BY <1>3, UnitsAreFinite
  <2> HIDE DEF X
  <2> QED BY <1>5, <2>1, <2>2, <2>3, <2>4
<1>7. Cardinality(W) = filled' - executed' - dropped'
  <2> HIDE DEF X, W
  <2>1. Cardinality(X) \in Nat
    BY <1>3, UnitsAreFinite DEF X
  <2> QED BY <1>2, <1>3, <1>5, <1>6, <2>1
<1>8. {u \in W : rest[u] = h} = {}
  OBVIOUS
<1>9. \A k \in Handlers \ {h} : {u \in W : rest[u] = k} = {u \in U : owner[u] = k}
  OBVIOUS
<1>10. \A k \in Handlers : Cardinality({u \in W : rest[u] = k}) = Owed(k)'
  <2> HIDE DEF X, W, rest
  <2>1. \A k \in Handlers \ {h} : Cardinality({u \in W : rest[u] = k}) = Owed(k)'
    BY <1>2, <1>9
  <2>2. Cardinality({u \in W : rest[u] = h}) = Owed(h)'
    BY <1>8, FS_EmptySet
  <2> QED BY <2>1, <2>2
<1> HIDE DEF X, W, rest
<1> QED BY <1>4, <1>7, <1>10 DEF UnitsOwed
-----------------------------------------------------------------------------
Averages == [cost : Int, over : Int]

AlgoTypes ==
    /\ visible \in Nat /\ hidden \in Int /\ clip \in Int
    /\ average \in Averages /\ heldAvg \in [Handlers -> Averages] /\ paid \in Nat
    /\ volume \in [Sides -> Nat] /\ cvd \in Int
    /\ reserve \in Int /\ isActive \in BOOLEAN /\ enabled \in BOOLEAN /\ activeCount \in Int

DeskTypes == ChildTypes /\ AlgoTypes

CoreInv == DeskTypes /\ Located /\ (algo \in Accounted => Accounts)

(* No algorithm names a size above what remains of the order.              *)
LEMMA SizesAreIntegers ==
    ASSUME DeskTypes
    PROVE  /\ Quantity \in Nat /\ Remaining \in Int
           /\ DisplayQuantity \in Int /\ DisplayQuantity <= Remaining
           /\ CurrentVisible \in Int /\ CurrentVisible <= Remaining
           /\ Min({Slice, Remaining}) \in Int /\ Min({Slice, Remaining}) <= Remaining
           /\ \A m \in MarketVolumes :
                 Min({m, Remaining}) \in Int /\ Min({m, Remaining}) <= Remaining
<1>1. Quantity \in Nat /\ Remaining \in Int
  BY ChildAssumption DEF Remaining, DeskTypes, ChildTypes
<1>2. \A m \in Int : Min({m, Remaining}) \in Int /\ Min({m, Remaining}) <= Remaining
                     /\ Min({Remaining, m}) \in Int /\ Min({Remaining, m}) <= Remaining
  <2> TAKE m \in Int
  <2>1. Min({m, Remaining}) = IF m <= Remaining THEN m ELSE Remaining
    BY <1>1, MinOfTwo
  <2>2. Min({Remaining, m}) = IF Remaining <= m THEN Remaining ELSE m
    BY <1>1, MinOfTwo
  <2> QED BY <1>1, <2>1, <2>2
<1>3. visible \in Int /\ Display \in Int /\ Slice \in Int /\ \A m \in MarketVolumes : m \in Int
  BY ReserveAssumption, SliceAssumption DEF DeskTypes, AlgoTypes
<1> QED BY <1>1, <1>2, <1>3 DEF DisplayQuantity, CurrentVisible

(* Sending a child order keeps the types.                                  *)
LEMMA PlaceTypes ==
    ASSUME ChildTypes, dropped' = dropped, NEW size \in Int, Place(size)
    PROVE  ChildTypes'
BY DEF Place, ChildTypes

(* A fill keeps the types.                                                 *)
LEMMA VenueTypes ==
    ASSUME DeskTypes, VenueNext
    PROVE  DeskTypes'
<1>1. AlgoTypes'
  BY DEF VenueNext, DeskTypes, AlgoTypes, algoVars, icebergVars, adaptiveVars, reserveVars
<1>2. PICK h \in Handlers : VenueFills(h)
  BY DEF VenueNext
<1>3. PICK q \in 1 .. working :
        /\ Goto(h, "idle", "report")
        /\ qty' = [qty EXCEPT ![h] = q]
        /\ working' = working - q
        /\ filled' = filled + q
        /\ overlapped' = (overlapped \/ ~Quiet)
        /\ UNCHANGED <<algo, executed, held>>
  BY <1>2 DEF VenueFills
<1>4. dropped' = dropped
  BY DEF VenueNext, algoVars, reserveVars
<1>5. q \in Nat /\ working - q \in Nat /\ filled + q \in Nat
  BY <1>3 DEF DeskTypes, ChildTypes
<1>6. overlapped' \in BOOLEAN
  BY <1>3 DEF DeskTypes, ChildTypes, Quiet
<1>7. ChildTypes'
  BY <1>3, <1>4, <1>5, <1>6 DEF DeskTypes, ChildTypes, Goto, Places
<1> QED BY <1>1, <1>7 DEF DeskTypes

(* The iceberg orders keep the types.                                      *)
LEMMA IcebergTypes ==
    ASSUME DeskTypes, Icebergs(IcebergNext)
    PROVE  DeskTypes'
<1> USE DEF Icebergs
<1>1. /\ dropped' = dropped
      /\ visible' \in Nat /\ hidden' \in Int /\ clip' \in Int => AlgoTypes'
  BY DEF DeskTypes, AlgoTypes, adaptiveVars, reserveVars
<1>2. CASE PlaceClip
  BY <1>1, <1>2, PlaceTypes, SizesAreIntegers DEF PlaceClip, DeskTypes, AlgoTypes, icebergVars
<1>3. CASE AdjustVisible \/ AdjustPlainVisible
  <2>1. visible' \in Nat
    BY <1>3, IcebergAssumption DEF AdjustVisible, AdjustPlainVisible
  <2> QED BY <1>1, <1>3, <2>1
        DEF AdjustVisible, AdjustPlainVisible, DeskTypes, AlgoTypes, ChildTypes, childVars
<1>4. ASSUME NEW h \in Handlers, IcebergStep(h) PROVE DeskTypes'
  <2>1. CASE CountFill(h)
    <3>1. executed' \in Int
      BY <2>1 DEF CountFill, DeskTypes, ChildTypes
    <3>2. pc' \in [Handlers -> Places]
      BY <2>1 DEF CountFill, Goto, Places, DeskTypes, ChildTypes
    <3> QED BY <1>1, <2>1, <3>1, <3>2
          DEF CountFill, DeskTypes, AlgoTypes, ChildTypes, icebergVars
  <2>2. CASE LoadClip(h)
    <3>1. pc' \in [Handlers -> Places]
      BY <2>2 DEF LoadClip, Goto, Places, DeskTypes, ChildTypes
    <3>2. held' \in [Handlers -> Int]
      BY <2>2 DEF LoadClip, Hold, DeskTypes, AlgoTypes, ChildTypes
    <3> QED BY <1>1, <2>2, <3>1, <3>2
          DEF LoadClip, DeskTypes, AlgoTypes, ChildTypes, icebergVars
  <2>3. CASE KeepClip(h)
    BY <1>1, <2>3 DEF KeepClip, Goto, Places, DeskTypes, AlgoTypes, ChildTypes
  <2>4. CASE LoadHidden(h)
    <3>1. pc' \in [Handlers -> Places]
      BY <2>4 DEF LoadHidden, Goto, Places, DeskTypes, ChildTypes
    <3>2. Min({visible, hidden}) \in Int /\ LastClip \in Int
      <4>1. visible \in Int /\ hidden \in Int
        BY DEF DeskTypes, AlgoTypes
      <4> QED BY <4>1, MinOfTwo, SizesAreIntegers DEF LastClip, PlainLastClip
    <3>3. held' \in [Handlers -> Int]
      BY <2>4, <3>2 DEF LoadHidden, Hold, DeskTypes, ChildTypes
    <3> QED BY <1>1, <2>4, <3>1, <3>3
          DEF LoadHidden, DeskTypes, AlgoTypes, ChildTypes, icebergVars
  <2>5. CASE Refill(h)
    BY <1>1, <2>5 DEF Refill, Goto, Places, DeskTypes, AlgoTypes, ChildTypes
  <2>6. CASE TakeFromHidden(h)
    <3>1. hidden' \in Int
      BY <2>6 DEF TakeFromHidden, ReserveAfter, DeskTypes, AlgoTypes, ChildTypes
    <3>2. pc' \in [Handlers -> Places]
      BY <2>6 DEF TakeFromHidden, Goto, Places, DeskTypes, ChildTypes
    <3> QED BY <1>1, <2>6, <3>1, <3>2 DEF TakeFromHidden, DeskTypes, AlgoTypes, ChildTypes
  <2> QED BY <1>4, <2>1, <2>2, <2>3, <2>4, <2>5, <2>6 DEF IcebergStep
<1> QED BY <1>2, <1>3, <1>4 DEF IcebergNext

(* The schedules keep the types.                                           *)
LEMMA SliceTypes ==
    ASSUME DeskTypes, Slices(SliceNext)
    PROVE  DeskTypes'
<1>1. AlgoTypes' /\ dropped' = dropped
  BY DEF Slices, DeskTypes, AlgoTypes, icebergVars, adaptiveVars, reserveVars
<1>2. CASE UNCHANGED childVars
  BY <1>1, <1>2 DEF DeskTypes, ChildTypes, childVars
<1>3. CASE PlaceTwapSlice \/ PlaceVwapSlice
  BY <1>1, <1>3, PlaceTypes, SizesAreIntegers DEF PlaceTwapSlice, PlaceVwapSlice, DeskTypes
<1>4. ASSUME NEW h \in Handlers, SliceStep(h) PROVE ChildTypes'
  <2>1. executed' \in Int
    BY <1>4 DEF SliceStep, AddSlice, StampSlice, DeskTypes, ChildTypes
  <2>2. pc' \in [Handlers -> Places]
    BY <1>4 DEF SliceStep, AddSlice, StampSlice, Goto, Places, DeskTypes, ChildTypes
  <2> QED BY <1>1, <1>4, <2>1, <2>2 DEF SliceStep, AddSlice, StampSlice, DeskTypes, ChildTypes
<1> QED BY <1>1, <1>2, <1>3, <1>4
      DEF Slices, SliceNext, Start, Stop, TimePasses, AdvanceBucket, DeskTypes
(* The adaptive order and its tracker keep the types.                      *)
LEMMA AdaptiveTypes ==
    ASSUME DeskTypes, Adaptives(AdaptiveNext)
    PROVE  DeskTypes'
<1>1. /\ dropped' = dropped
      /\ average' \in Averages /\ heldAvg' \in [Handlers -> Averages] /\ paid' \in Nat
         /\ volume' \in [Sides -> Nat] /\ cvd' \in Int => AlgoTypes'
  BY DEF Adaptives, DeskTypes, AlgoTypes, icebergVars, reserveVars
<1>2. CASE PlaceAdaptive
  BY <1>1, <1>2, PlaceTypes, SizesAreIntegers DEF PlaceAdaptive, DeskTypes, AlgoTypes, adaptiveVars
<1>3. CASE ResetCvd
  BY <1>1, <1>3 DEF ResetCvd, DeskTypes, AlgoTypes, ChildTypes, childVars
<1>4. ASSUME NEW h \in Handlers, LoadFill(h) PROVE DeskTypes'
  <2>1. PICK p \in Prices :
          /\ Goto(h, "report", "take")
          /\ heldAvg' = [heldAvg EXCEPT ![h] = NewAverage(h, p)]
          /\ paid' = paid + p * qty[h]
    BY <1>4 DEF LoadFill
  <2>2. p \in Nat /\ qty[h] \in Nat /\ executed \in Int /\ average \in Averages /\ paid \in Nat
    BY AdaptiveAssumption DEF DeskTypes, ChildTypes, AlgoTypes
  <2>3. p * qty[h] \in Nat
    BY <2>2
  <2>4. NewAverage(h, p) \in Averages /\ paid' \in Nat
    <3> HIDE DEF Averages
    <3>1. Torn \in Averages
      BY DEF Torn, Averages
    <3>2. [cost |-> average.cost + p * qty[h], over |-> executed + qty[h]] \in Averages
      BY <2>2, <2>3 DEF Averages
    <3>3. paid + p * qty[h] \in Nat
      BY <2>2, <2>3
    <3> QED BY <2>1, <3>1, <3>2, <3>3 DEF NewAverage
  <2>5. heldAvg' \in [Handlers -> Averages]
    BY <2>1, <2>4 DEF DeskTypes, AlgoTypes
  <2>6. held' \in [Handlers -> Int]
    BY <1>4 DEF LoadFill, DeskTypes, ChildTypes
  <2>7. pc' \in [Handlers -> Places]
    BY <2>1 DEF Goto, Places, DeskTypes, ChildTypes
  <2> QED BY <1>1, <1>4, <2>4, <2>5, <2>6, <2>7 DEF LoadFill, DeskTypes, AlgoTypes, ChildTypes
<1>5. ASSUME NEW h \in Handlers, StoreExecuted(h) \/ StoreAverage(h) \/ StoreCvd(h)
      PROVE DeskTypes'
  <2>1. pc' \in [Handlers -> Places]
    BY <1>5 DEF StoreExecuted, StoreAverage, StoreCvd, Goto, Places, DeskTypes, ChildTypes
  <2>2. executed' \in Int /\ average' \in Averages /\ cvd' \in Int
    BY <1>5 DEF StoreExecuted, StoreAverage, StoreCvd, DeskTypes, ChildTypes, AlgoTypes,
                adaptiveVars
  <2> QED BY <1>1, <1>5, <2>1, <2>2
        DEF StoreExecuted, StoreAverage, StoreCvd, DeskTypes, ChildTypes, AlgoTypes, adaptiveVars
<1>6. ASSUME NEW h \in Handlers, LoadBuys(h) \/ LoadSells(h) PROVE DeskTypes'
  <2>1. pc' \in [Handlers -> Places]
    BY <1>6 DEF LoadBuys, LoadSells, LoadVolume, Goto, Places, DeskTypes, ChildTypes
  <2>2. volume["buy"] \in Nat /\ volume["sell"] \in Nat /\ held \in [Handlers -> Int]
    BY DEF DeskTypes, ChildTypes, AlgoTypes, Sides
  <2>3. held' \in [Handlers -> Int]
    <3>1. CASE LoadBuys(h)
      <4>1. held' = [held EXCEPT ![h] = 0 + 1 * volume["buy"]]
        BY <3>1 DEF LoadBuys, LoadVolume
      <4>2. 0 + 1 * volume["buy"] \in Int
        BY <2>2
      <4> QED BY <2>2, <4>1, <4>2
    <3>2. CASE LoadSells(h)
      <4>1. held' = [held EXCEPT ![h] = @ + (-1) * volume["sell"]]
        BY <3>2 DEF LoadSells, LoadVolume
      <4>2. held[h] + (-1) * volume["sell"] \in Int
        BY <2>2
      <4> QED BY <2>2, <4>1, <4>2
    <3> QED BY <1>6, <3>1, <3>2
  <2> QED BY <1>1, <1>6, <2>1, <2>3
        DEF LoadBuys, LoadSells, LoadVolume, DeskTypes, ChildTypes, AlgoTypes, adaptiveVars
<1>7. ASSUME NEW h \in Handlers, TradeArrives(h) PROVE DeskTypes'
  <2>1. pc' \in [Handlers -> Places]
    BY <1>7 DEF TradeArrives, Goto, Places, DeskTypes, ChildTypes
  <2>2. volume' \in [Sides -> Nat]
    <3>1. PICK s \in Sides : volume' = [volume EXCEPT ![s] = @ + 1]
      BY <1>7 DEF TradeArrives
    <3>2. volume[s] + 1 \in Nat
      BY DEF DeskTypes, AlgoTypes
    <3> QED BY <3>1, <3>2 DEF DeskTypes, AlgoTypes
  <2>3. overlapped' \in BOOLEAN
    BY <1>7 DEF TradeArrives, Quiet, DeskTypes, ChildTypes
  <2> QED BY <1>1, <1>7, <2>1, <2>2, <2>3 DEF TradeArrives, DeskTypes, ChildTypes, AlgoTypes
<1> QED BY <1>2, <1>3, <1>4, <1>5, <1>6, <1>7 DEF Adaptives, AdaptiveNext, AdaptiveStep

(* The reserve and discretionary orders keep the types.                    *)
LEMMA ReserveTypes ==
    ASSUME DeskTypes, Reserves(ReserveNext)
    PROVE  DeskTypes'
<1>1. /\ reserve' \in Int /\ isActive' \in BOOLEAN /\ enabled' \in BOOLEAN
         /\ activeCount' \in Int => AlgoTypes'
  BY DEF Reserves, DeskTypes, AlgoTypes, icebergVars, adaptiveVars
<1>2. CASE PlaceReserve
  <2>1. dropped' = dropped
    BY <1>2 DEF PlaceReserve, reserveVars
  <2> QED BY <1>1, <1>2, <2>1, PlaceTypes, SizesAreIntegers
        DEF PlaceReserve, DeskTypes, AlgoTypes, reserveVars
<1>3. CASE CancelReserve \/ SetReserveEnabled
  BY <1>1, <1>3 DEF CancelReserve, SetReserveEnabled, DeskTypes, ChildTypes, AlgoTypes, childVars
<1>4. ASSUME NEW h \in Handlers, DropFill(h) PROVE DeskTypes'
  <2>1. pc' \in [Handlers -> Places]
    BY <1>4 DEF DropFill, Goto, Places, DeskTypes, ChildTypes
  <2>2. dropped' \in Nat
    BY <1>4 DEF DropFill, DeskTypes, ChildTypes
  <2> QED BY <1>1, <1>4, <2>1, <2>2 DEF DropFill, DeskTypes, ChildTypes, AlgoTypes
<1>5. ASSUME NEW h \in Handlers, ProcessFill(h) PROVE DeskTypes'
  <2>1. pc' \in [Handlers -> Places]
    BY <1>5 DEF ProcessFill, Goto, Places, DeskTypes, ChildTypes
  <2> DEFINE actual == Min({qty[h], Remaining})
             left == Remaining - actual
             shown == Min({Display - left, reserve})
  <2>2. Remaining \in Int /\ qty[h] \in Int /\ Display \in Int /\ reserve \in Int
        /\ executed \in Int /\ activeCount \in Int
    BY SizesAreIntegers, ReserveAssumption DEF DeskTypes, ChildTypes, AlgoTypes
  <2>3. actual \in Int
    BY <2>2, MinOfTwo
  <2> HIDE DEF actual
  <2>4. left \in Int
    BY <2>2, <2>3
  <2> HIDE DEF left
  <2>5. shown \in Int
    <3>1. Display - left \in Int
      BY <2>2, <2>4
    <3> QED BY <2>2, <3>1, MinOfTwo
  <2> HIDE DEF shown
  <2>6. Max({0, shown}) \in Int
    BY <2>5, MaxOfTwo
  <2>7. /\ executed' = executed + actual
        /\ reserve' = reserve - Max({0, shown})
        /\ isActive' = (left > 0)
        /\ activeCount' = IF left > 0 THEN activeCount ELSE activeCount - 1
    BY <1>5 DEF ProcessFill, actual, left, shown
  <2>8. executed' \in Int /\ reserve' \in Int /\ activeCount' \in Int
    BY <2>2, <2>3, <2>6, <2>7
  <2>9. isActive' \in BOOLEAN
    BY <2>7
  <2> QED BY <1>1, <1>5, <2>1, <2>8, <2>9 DEF ProcessFill, DeskTypes, ChildTypes, AlgoTypes
<1>6. ASSUME NEW h \in Handlers, LoadRemaining(h) PROVE DeskTypes'
  <2>1. pc' \in [Handlers -> Places]
    BY <1>6 DEF LoadRemaining, Goto, Places, DeskTypes, ChildTypes
  <2>2. held' \in [Handlers -> Int]
    BY <1>6, SizesAreIntegers DEF LoadRemaining, DeskTypes, ChildTypes
  <2> QED BY <1>1, <1>6, <2>1, <2>2
        DEF LoadRemaining, DeskTypes, ChildTypes, AlgoTypes, reserveVars
<1>7. ASSUME NEW h \in Handlers
      PROVE  Min({qty[h], held[h]}) \in Int /\ LeftAfter(h) \in Int
             /\ Min({Display - LeftAfter(h), reserve}) \in Int
  <2>1. qty[h] \in Int /\ held[h] \in Int /\ reserve \in Int /\ Display \in Int
    BY ReserveAssumption DEF DeskTypes, ChildTypes, AlgoTypes
  <2>2. Min({qty[h], held[h]}) \in Int
    BY <2>1, MinOfTwo
  <2>3. LeftAfter(h) \in Int
    BY <2>1, <2>2 DEF LeftAfter
  <2>4. Display - LeftAfter(h) \in Int
    BY <2>1, <2>3
  <2> QED BY <2>1, <2>2, <2>3, <2>4, MinOfTwo
<1>8. ASSUME NEW h \in Handlers, TakeFromRemaining(h) PROVE DeskTypes'
  <2>1. pc' \in [Handlers -> Places]
    BY <1>8 DEF TakeFromRemaining, Goto, Places, DeskTypes, ChildTypes
  <2>2. executed' \in Int
    <3>1. executed \in Int
      BY DEF DeskTypes, ChildTypes
    <3>2. executed' = executed + Min({qty[h], held[h]})
      BY <1>8 DEF TakeFromRemaining
    <3>3. Min({qty[h], held[h]}) \in Int
      BY <1>7
    <3> QED BY <3>1, <3>2, <3>3
  <2> QED BY <1>1, <1>8, <2>1, <2>2
        DEF TakeFromRemaining, DeskTypes, ChildTypes, AlgoTypes, reserveVars
<1>9. ASSUME NEW h \in Handlers, LoadReserve(h) PROVE DeskTypes'
  <2>1. pc' \in [Handlers -> Places]
    BY <1>9 DEF LoadReserve, Goto, Places, DeskTypes, ChildTypes
  <2>2. held' \in [Handlers -> Int]
    BY <1>7, <1>9 DEF LoadReserve, DeskTypes, ChildTypes
  <2> QED BY <1>1, <1>9, <2>1, <2>2
        DEF LoadReserve, DeskTypes, ChildTypes, AlgoTypes, reserveVars
<1>10. ASSUME NEW h \in Handlers, SubReserve(h) PROVE DeskTypes'
  <2>1. pc' \in [Handlers -> Places]
    BY <1>10 DEF SubReserve, Goto, Places, DeskTypes, ChildTypes
  <2>2. reserve' \in Int
    <3>1. reserve \in Int /\ held[h] \in Int
      BY DEF DeskTypes, ChildTypes, AlgoTypes
    <3>2. reserve' = reserve - held[h]
      BY <1>10 DEF SubReserve
    <3> QED BY <3>1, <3>2
  <2> QED BY <1>1, <1>10, <2>1, <2>2 DEF SubReserve, DeskTypes, ChildTypes, AlgoTypes
<1> QED BY <1>2, <1>3, <1>4, <1>5, <1>6, <1>8, <1>9, <1>10 DEF Reserves, ReserveNext, ReserveStep

(* Every step of the desk keeps the types.                                 *)
LEMMA TypesStep ==
    ASSUME DeskTypes, DeskNext
    PROVE  DeskTypes'
<1>1. CASE Pegging
  BY <1>1 DEF Pegging, DeskTypes, ChildTypes, AlgoTypes, childVars, icebergVars, adaptiveVars,
              reserveVars
<1> QED BY <1>1, VenueTypes, IcebergTypes, SliceTypes, AdaptiveTypes, ReserveTypes DEF DeskNext
-----------------------------------------------------------------------------
(* What a step of one handler does to where all of them are.               *)
LEMMA Going ==
    ASSUME ChildTypes, NEW h \in Handlers, NEW from, NEW to, Goto(h, from, to)
    PROVE  pc[h] = from /\ pc'[h] = to /\ \A k \in Handlers \ {h} : pc'[k] = pc[k]
BY DEF ChildTypes, Goto

(* A handler that goes where its algorithm lets it keeps all in place.     *)
LEMMA GoingIsLocated ==
    ASSUME ChildTypes, Located, NEW h \in Handlers, NEW from, NEW to, Goto(h, from, to),
           algo' = algo, working' = working, MayBe(to)
    PROVE  Located'
<1>1. \A k \in Handlers : MayBe(pc'[k])
  BY Going DEF Located
<1>2. \A k \in Handlers : MayBe(pc[k])'
  BY <1>1 DEF MayBe
<1> QED BY <1>2 DEF Located

(* A step that leaves the child orders alone keeps the accounts.           *)
LEMMA Rests ==
    ASSUME Located, Accounts, UNCHANGED <<childVars, dropped>>
    PROVE  Located' /\ Accounts'
<1>1. UnitsOwed'
  BY UnitsStay DEF Accounts, Owed, childVars
<1> QED BY <1>1 DEF Located, MayBe, Accounts, childVars

(* And it keeps every handler where it may be.                             *)
LEMMA LocatedRests ==
    ASSUME Located, UNCHANGED childVars
    PROVE  Located'
BY DEF Located, MayBe, childVars

(* A step of a handler that records nothing.                               *)
LEMMA StepKeepsAccounts ==
    ASSUME ChildTypes, Accounts, NEW h \in Handlers, NEW from, NEW to, Goto(h, from, to),
           from \notin {"report", "take"}, to \notin {"report", "take"},
           UNCHANGED <<algo, working, filled, executed, qty, dropped>>,
           \A k \in Handlers \ {h} : held'[k] = held[k]
    PROVE  Accounts'
<1>1. pc[h] = from /\ pc'[h] = to /\ \A k \in Handlers \ {h} : pc'[k] = pc[k]
  BY Going
<1>2. \A k \in Handlers : Owed(k)' = Owed(k)
  BY <1>1 DEF Owed
<1>3. UnitsOwed'
  BY <1>2, UnitsStay DEF Accounts
<1> QED BY <1>1, <1>3 DEF Accounts

(* What a handler owes goes into the executed quantity, or is dropped.     *)
LEMMA RecordKeepsAccounts ==
    ASSUME ChildTypes, Accounts, NEW h \in Handlers, NEW from, NEW to, Goto(h, from, to),
           from \in {"report", "take"}, to \notin {"report", "take"},
           UNCHANGED <<algo, working, filled, qty, held>>,
           executed' \in Int, dropped' \in Nat,
           executed' + dropped' = executed + dropped + qty[h],
           dropped' = dropped \/ (algo = "reserve" /\ dropped' >= dropped)
    PROVE  Accounts'
<1>1. pc[h] = from /\ pc'[h] = to /\ \A k \in Handlers \ {h} : pc'[k] = pc[k]
  BY Going
<1>2. /\ Owed(h) = qty[h] /\ Owed(h)' = 0
      /\ \A k \in Handlers \ {h} : Owed(k)' = Owed(k)
  BY <1>1 DEF Owed
<1>3. UnitsOwed'
  BY <1>2, UnitsRecord DEF Accounts
<1>4. working' + filled' <= Quantity + dropped'
  <2>1. working \in Int /\ filled \in Int /\ dropped \in Int /\ Quantity \in Int
    BY ChildAssumption DEF ChildTypes
  <2>2. working + filled <= Quantity + dropped /\ dropped <= dropped'
    BY <2>1 DEF Accounts
  <2>3. working' + filled' = working + filled
    OBVIOUS
  <2>4. \A n, q, d, e \in Int : n <= q + d /\ d <= e => n <= q + e
    OBVIOUS
  <2>5. working + filled \in Int /\ dropped' \in Int
    BY <2>1
  <2> QED BY <2>1, <2>2, <2>3, <2>4, <2>5
<1>5. algo' # "reserve" => dropped' = 0
  BY DEF Accounts
<1>6. \A k \in Handlers :
        /\ pc'[k] \in {"report", "take"} => qty'[k] > 0
        /\ pc'[k] = "take" => held'[k] >= qty'[k]
  BY <1>1 DEF Accounts
<1> QED BY <1>3, <1>4, <1>5, <1>6 DEF Accounts

(* With no handler at work everything filled is accounted for.             *)
LEMMA QuietIsAccounted ==
    ASSUME ChildTypes, Accounts, Quiet
    PROVE  filled = executed + dropped
<1>1. \A h \in Handlers : Owed(h) = 0
  BY DEF Quiet, Owed
<1>2. filled - executed - dropped = 0
  BY <1>1, OwedIsUnrecorded DEF Accounts
<1> QED BY <1>2 DEF ChildTypes

(* A child order of at most what remains keeps the accounts.               *)
LEMMA PlaceIsCovered ==
    ASSUME CoreInv, dropped' = dropped, algo \notin {"cvd", "pegged"},
           NEW size \in Int, size <= Remaining, Place(size)
    PROVE  Located' /\ (algo' \in Accounted => Accounts')
<1>1. UNCHANGED <<algo, filled, executed, pc, qty, held, overlapped>> /\ Quiet
      /\ working = 0 /\ working' = size
  BY DEF Place
<1>2. Located'
  BY <1>1 DEF CoreInv, Located, MayBe
<1>3. ASSUME Accounts PROVE Accounts'
  <2>1. ChildTypes /\ filled = executed + dropped
    BY <1>1, <1>3, QuietIsAccounted DEF CoreInv, DeskTypes
  <2>2. UnitsOwed'
    BY <1>1, <1>3, UnitsStay DEF Accounts, Owed
  <2>3. working' + filled' <= Quantity + dropped'
    <3>1. executed \in Int /\ dropped \in Int /\ filled \in Int /\ Quantity \in Int
      BY <2>1, ChildAssumption DEF ChildTypes
    <3> QED BY <1>1, <2>1, <3>1 DEF Remaining
  <2> QED BY <1>1, <1>3, <2>2, <2>3 DEF Accounts
<1> QED BY <1>1, <1>2, <1>3 DEF CoreInv

(* A fill keeps the accounts: its handler owes it.                         *)
LEMMA VenueKeepsAccounts ==
    ASSUME CoreInv, VenueNext
    PROVE  Located' /\ (algo' \in Accounted => Accounts')
<1>1. PICK h \in Handlers : VenueFills(h)
  BY DEF VenueNext
<1>2. PICK q \in 1 .. working :
        /\ Goto(h, "idle", "report")
        /\ qty' = [qty EXCEPT ![h] = q]
        /\ working' = working - q
        /\ filled' = filled + q
        /\ overlapped' = (overlapped \/ ~Quiet)
        /\ UNCHANGED <<algo, executed, held>>
  BY <1>1 DEF VenueFills
<1>3. dropped' = dropped
  BY DEF VenueNext, algoVars, reserveVars
<1>4. ChildTypes
  BY DEF CoreInv, DeskTypes
<1>5. pc[h] = "idle" /\ pc'[h] = "report" /\ \A k \in Handlers \ {h} : pc'[k] = pc[k]
  BY <1>2, <1>4, Going
<1>6. q \in Nat /\ working \in Nat /\ q >= 1 /\ q <= working
  BY <1>2, <1>4 DEF ChildTypes
<1>7. algo \notin {"cvd", "pegged"}
  BY <1>6 DEF CoreInv, Located
<1>8. Located'
  <2>1. \A k \in Handlers : MayBe(pc'[k])
    BY <1>5, <1>7 DEF CoreInv, Located, MayBe
  <2> QED BY <1>2, <1>7, <2>1 DEF Located, MayBe
<1>9. qty'[h] = q /\ \A k \in Handlers \ {h} : qty'[k] = qty[k]
  BY <1>2, <1>4 DEF ChildTypes
<1>10. ASSUME Accounts PROVE Accounts'
  <2>1. Owed(h) = 0 /\ Owed(h)' = q /\ \A k \in Handlers \ {h} : Owed(k)' = Owed(k)
    BY <1>5, <1>9 DEF Owed
  <2>2. UnitsOwed'
    BY <1>2, <1>3, <1>4, <1>6, <1>10, <2>1, UnitsFill DEF Accounts
  <2>3. working' + filled' <= Quantity + dropped'
    <3>1. working + filled <= Quantity + dropped
      BY <1>10 DEF Accounts
    <3>2. filled \in Int
      BY <1>4 DEF ChildTypes
    <3>3. working' + filled' = working + filled
      BY <1>2, <1>6, <3>2
    <3> QED BY <1>3, <3>1, <3>3
  <2>4. \A k \in Handlers :
          /\ pc'[k] \in {"report", "take"} => qty'[k] > 0
          /\ pc'[k] = "take" => held'[k] >= qty'[k]
    BY <1>2, <1>5, <1>6, <1>9, <1>10 DEF Accounts
  <2> QED BY <1>2, <1>3, <1>10, <2>2, <2>3, <2>4 DEF Accounts
<1> QED BY <1>2, <1>8, <1>10 DEF CoreInv
(* The iceberg orders keep the accounts, whatever clips they show.         *)
LEMMA IcebergKeepsAccounts ==
    ASSUME CoreInv, Icebergs(IcebergNext)
    PROVE  Located' /\ (algo' \in Accounted => Accounts')
<1>1. ChildTypes /\ Located /\ dropped' = dropped
  BY DEF CoreInv, DeskTypes, Icebergs, reserveVars
<1>2. CASE PlaceClip
  BY <1>1, <1>2, PlaceIsCovered, SizesAreIntegers DEF PlaceClip, CoreInv
<1>3. CASE UNCHANGED childVars
  BY <1>1, <1>3, Rests, LocatedRests DEF CoreInv, childVars
<1>4. ASSUME NEW h \in Handlers, CountFill(h)
      PROVE  Located' /\ (algo' \in Accounted => Accounts')
  <2>1. Goto(h, "report", "clip") /\ algo \in {"iceberg", "plain"}
        /\ UNCHANGED <<algo, working, filled, qty, held>> /\ executed' = executed + qty[h]
    BY <1>4 DEF CountFill
  <2>2. MayBe("clip")
    BY <2>1 DEF MayBe
  <2>3. Accounts
    BY <2>1 DEF CoreInv, Accounted, Exact
  <2>4. executed' \in Int /\ executed' + dropped' = executed + dropped + qty[h] /\ dropped' \in Nat
    <3>1. executed \in Int /\ qty[h] \in Int /\ dropped \in Nat
      BY <1>1 DEF ChildTypes
    <3> QED BY <1>1, <2>1, <3>1
  <2>5. Located'
    BY <1>1, <2>1, <2>2, GoingIsLocated
  <2>6. Accounts'
    BY <1>1, <2>1, <2>3, <2>4, RecordKeepsAccounts
  <2> QED BY <2>5, <2>6
<1>5. ASSUME NEW h \in Handlers, NEW from, NEW to, Goto(h, from, to),
             from \in {"clip", "keep", "reload", "refill", "hide"},
             to \in {"idle", "keep", "reload", "refill", "hide"},
             UNCHANGED <<algo, working, filled, executed, qty>>,
             \A k \in Handlers \ {h} : held'[k] = held[k]
      PROVE  Located' /\ (algo' \in Accounted => Accounts')
  <2>1. pc[h] = from
    BY <1>1, <1>5, Going
  <2>2. MayBe(to)
    BY <1>1, <1>5, <2>1 DEF Located, MayBe
  <2>3. Located'
    BY <1>1, <1>5, <2>2, GoingIsLocated
  <2>4. Accounts => Accounts'
    BY <1>1, <1>5, StepKeepsAccounts
  <2> QED BY <1>5, <2>3, <2>4 DEF CoreInv
<1>6. ASSUME NEW h \in Handlers, NEW x, Hold(h, x)
      PROVE  \A k \in Handlers \ {h} : held'[k] = held[k]
  BY <1>1, <1>6 DEF Hold, ChildTypes
<1>7. ASSUME NEW h \in Handlers, LoadClip(h)
      PROVE  Located' /\ (algo' \in Accounted => Accounts')
  BY <1>5, <1>6, <1>7 DEF LoadClip
<1>8. ASSUME NEW h \in Handlers, LoadHidden(h)
      PROVE  Located' /\ (algo' \in Accounted => Accounts')
  BY <1>5, <1>6, <1>8 DEF LoadHidden
<1>9. ASSUME NEW h \in Handlers, KeepClip(h) \/ Refill(h) \/ TakeFromHidden(h)
      PROVE  Located' /\ (algo' \in Accounted => Accounts')
  BY <1>5, <1>9 DEF KeepClip, Refill, TakeFromHidden
<1> QED BY <1>2, <1>3, <1>4, <1>7, <1>8, <1>9
      DEF Icebergs, IcebergNext, IcebergStep, AdjustVisible, AdjustPlainVisible

(* The schedules keep the accounts.                                        *)
LEMMA SliceKeepsAccounts ==
    ASSUME CoreInv, Slices(SliceNext)
    PROVE  Located' /\ (algo' \in Accounted => Accounts')
<1>1. ChildTypes /\ Located /\ dropped' = dropped
  BY DEF CoreInv, DeskTypes, Slices, reserveVars
<1>2. CASE PlaceTwapSlice
  BY <1>1, <1>2, PlaceIsCovered, SizesAreIntegers DEF PlaceTwapSlice, CoreInv
<1>3. CASE PlaceVwapSlice
  BY <1>1, <1>3, PlaceIsCovered, SizesAreIntegers DEF PlaceVwapSlice, CoreInv
<1>4. CASE UNCHANGED childVars
  BY <1>1, <1>4, Rests, LocatedRests DEF CoreInv, childVars
<1>5. ASSUME NEW h \in Handlers, AddSlice(h)
      PROVE  Located' /\ (algo' \in Accounted => Accounts')
  <2> DEFINE to == IF algo = "twap" THEN "stamp" ELSE "idle"
  <2>1. Goto(h, "report", to) /\ algo \in {"twap", "vwap"}
        /\ UNCHANGED <<algo, working, filled, qty, held>> /\ executed' = executed + qty[h]
    BY <1>5 DEF AddSlice
  <2>2. MayBe(to) /\ to \in {"stamp", "idle"}
    BY <2>1 DEF MayBe
  <2> HIDE DEF to
  <2>3. Accounts
    BY <2>1 DEF CoreInv, Accounted, Exact
  <2>4. executed' \in Int /\ executed' + dropped' = executed + dropped + qty[h] /\ dropped' \in Nat
    <3>1. executed \in Int /\ qty[h] \in Int /\ dropped \in Nat
      BY <1>1 DEF ChildTypes
    <3> QED BY <1>1, <2>1, <3>1
  <2>5. Located'
    BY <1>1, <2>1, <2>2, GoingIsLocated
  <2>6. Accounts'
    BY <1>1, <2>1, <2>2, <2>3, <2>4, RecordKeepsAccounts
  <2> QED BY <2>5, <2>6
<1>6. ASSUME NEW h \in Handlers, StampSlice(h)
      PROVE  Located' /\ (algo' \in Accounted => Accounts')
  <2>1. Goto(h, "stamp", "idle") /\ UNCHANGED <<algo, working, filled, executed, qty, held>>
    BY <1>6 DEF StampSlice
  <2>2. MayBe("idle")
    BY DEF MayBe
  <2>3. Located'
    BY <1>1, <2>1, <2>2, GoingIsLocated
  <2>4. Accounts => Accounts'
    BY <1>1, <2>1, StepKeepsAccounts
  <2> QED BY <2>1, <2>3, <2>4 DEF CoreInv
<1> QED BY <1>2, <1>3, <1>4, <1>5, <1>6
      DEF Slices, SliceNext, SliceStep, Start, Stop, TimePasses, AdvanceBucket

(* The adaptive order and its tracker, whose accounts are not exact, keep  *)
(* their handlers where they may be.                                       *)
LEMMA AdaptiveKeepsLocated ==
    ASSUME CoreInv, Adaptives(AdaptiveNext)
    PROVE  Located' /\ algo' = algo /\ algo \notin Accounted
<1>1. ChildTypes /\ Located /\ dropped' = dropped
  BY DEF CoreInv, DeskTypes, Adaptives, reserveVars
<1>2. CASE PlaceAdaptive
  BY <1>1, <1>2, PlaceIsCovered, SizesAreIntegers
     DEF PlaceAdaptive, Place, CoreInv, Accounted, Exact
<1>3. CASE ResetCvd
  BY <1>1, <1>3, LocatedRests DEF ResetCvd, childVars, Accounted, Exact
<1>4. ASSUME NEW h \in Handlers, NEW from, NEW to, Goto(h, from, to),
             \/ algo = "adaptive" /\ to \in {"take", "average", "idle"}
             \/ algo = "cvd" /\ to \in {"cvd buy", "cvd sell", "cvd store", "idle"},
             UNCHANGED <<algo, working>>
      PROVE  Located' /\ algo' = algo /\ algo \notin Accounted
  <2>1. MayBe(to)
    BY <1>4 DEF MayBe
  <2> QED BY <1>1, <1>4, <2>1, GoingIsLocated DEF Accounted, Exact
<1>5. ASSUME NEW h \in Handlers
      PROVE  /\ pc[h] \in {"cvd buy", "cvd sell", "cvd store"} => algo = "cvd"
             /\ pc[h] = "average" => algo = "adaptive"
  BY <1>1 DEF Located, MayBe
<1>6. ASSUME NEW h \in Handlers, LoadFill(h)
      PROVE  Located' /\ algo' = algo /\ algo \notin Accounted
  BY <1>4, <1>6 DEF LoadFill
<1>7. ASSUME NEW h \in Handlers, StoreExecuted(h)
      PROVE  Located' /\ algo' = algo /\ algo \notin Accounted
  BY <1>4, <1>7 DEF StoreExecuted
<1>8. ASSUME NEW h \in Handlers, StoreAverage(h)
      PROVE  Located' /\ algo' = algo /\ algo \notin Accounted
  BY <1>4, <1>5, <1>8 DEF StoreAverage, Goto
<1>9. ASSUME NEW h \in Handlers, TradeArrives(h)
      PROVE  Located' /\ algo' = algo /\ algo \notin Accounted
  BY <1>4, <1>9 DEF TradeArrives
<1>10. ASSUME NEW h \in Handlers, LoadBuys(h)
       PROVE  Located' /\ algo' = algo /\ algo \notin Accounted
  <2>1. Goto(h, "cvd buy", "cvd sell") /\ UNCHANGED <<algo, working>>
    BY <1>10 DEF LoadBuys, LoadVolume
  <2> QED BY <1>4, <1>5, <2>1 DEF Goto
<1>11. ASSUME NEW h \in Handlers, LoadSells(h)
       PROVE  Located' /\ algo' = algo /\ algo \notin Accounted
  <2>1. Goto(h, "cvd sell", "cvd store") /\ UNCHANGED <<algo, working>>
    BY <1>11 DEF LoadSells, LoadVolume
  <2> QED BY <1>4, <1>5, <2>1 DEF Goto
<1>12. ASSUME NEW h \in Handlers, StoreCvd(h)
       PROVE  Located' /\ algo' = algo /\ algo \notin Accounted
  BY <1>4, <1>5, <1>12 DEF StoreCvd, Goto
<1> QED BY <1>2, <1>3, <1>6, <1>7, <1>8, <1>9, <1>10, <1>11, <1>12
      DEF Adaptives, AdaptiveNext, AdaptiveStep
(* A fill that is about to be recorded fits what remains of the order.     *)
LEMMA OwedFitsRemaining ==
    ASSUME ChildTypes, Accounts, NEW h \in Handlers, pc[h] \in {"report", "take"}
    PROVE  qty[h] <= Remaining /\ qty[h] <= filled - executed - dropped /\ qty[h] > 0
<1>1. Owed(h) = qty[h]
  BY DEF Owed
<1>2. qty[h] <= filled - executed - dropped
  BY <1>1, OwedIsUnrecorded DEF Accounts
<1>3. working + filled <= Quantity + dropped /\ qty[h] > 0
  BY DEF Accounts
<1>4. working \in Nat /\ filled \in Int /\ executed \in Int /\ dropped \in Int
      /\ Quantity \in Int /\ qty[h] \in Int
  BY ChildAssumption DEF ChildTypes
<1> QED BY <1>2, <1>3, <1>4 DEF Remaining

(* The reserve and discretionary orders keep the accounts: what a fill     *)
(* brings always fits what remains.                                        *)
LEMMA ReserveKeepsAccounts ==
    ASSUME CoreInv, Reserves(ReserveNext)
    PROVE  Located' /\ (algo' \in Accounted => Accounts')
<1>1. ChildTypes /\ Located
  BY DEF CoreInv, DeskTypes
<1>2. CASE PlaceReserve
  <2>1. dropped' = dropped
    BY <1>2 DEF PlaceReserve, reserveVars
  <2> QED BY <1>1, <1>2, <2>1, PlaceIsCovered, SizesAreIntegers DEF PlaceReserve, CoreInv
<1>3. CASE UNCHANGED <<childVars, dropped>>
  BY <1>1, <1>3, Rests, LocatedRests DEF CoreInv, childVars
<1>4. ASSUME NEW h \in Handlers
      PROVE  executed \in Int /\ qty[h] \in Int /\ qty[h] \in Nat /\ dropped \in Nat
             /\ held[h] \in Int /\ filled \in Int /\ Remaining \in Int
  BY <1>1, SizesAreIntegers DEF ChildTypes, CoreInv
<1>5. ASSUME NEW h \in Handlers, DropFill(h)
      PROVE  Located' /\ (algo' \in Accounted => Accounts')
  <2>1. Goto(h, "report", "idle") /\ algo = "reserve" /\ dropped' = dropped + qty[h]
        /\ UNCHANGED <<algo, working, filled, executed, qty, held>>
    BY <1>5 DEF DropFill
  <2>2. MayBe("idle") /\ Accounts
    BY <2>1 DEF MayBe, CoreInv, Accounted
  <2>3. /\ executed' \in Int /\ dropped' \in Nat /\ dropped' >= dropped
        /\ executed' + dropped' = executed + dropped + qty[h]
    BY <1>4, <2>1
  <2>4. Located'
    BY <1>1, <2>1, <2>2, GoingIsLocated
  <2>5. Accounts'
    BY <1>1, <2>1, <2>2, <2>3, RecordKeepsAccounts
  <2> QED BY <2>4, <2>5
<1>6. ASSUME NEW h \in Handlers, NEW to, NEW from, Goto(h, from, to),
             from \in {"report", "take"}, MayBe(to), to \notin {"report", "take"}, Accounts,
             executed' = executed + qty[h],
             UNCHANGED <<algo, working, filled, qty, held, dropped>>
      PROVE  Located' /\ (algo' \in Accounted => Accounts')
  <2>1. /\ executed' \in Int /\ dropped' \in Nat
        /\ executed' + dropped' = executed + dropped + qty[h]
    BY <1>4, <1>6
  <2>2. Located'
    BY <1>1, <1>6, GoingIsLocated
  <2>3. Accounts'
    BY <1>1, <1>6, <2>1, RecordKeepsAccounts
  <2> QED BY <2>2, <2>3
<1>7. ASSUME NEW h \in Handlers, ProcessFill(h)
      PROVE  Located' /\ (algo' \in Accounted => Accounts')
  <2>1. Goto(h, "report", "idle") /\ algo = "reserve"
        /\ executed' = executed + Min({qty[h], Remaining})
        /\ UNCHANGED <<algo, working, filled, qty, held, dropped>>
    BY <1>7 DEF ProcessFill
  <2>2. MayBe("idle") /\ Accounts
    BY <2>1 DEF MayBe, CoreInv, Accounted
  <2>3. qty[h] <= Remaining
    BY <1>1, <2>1, <2>2, OwedFitsRemaining DEF Goto
  <2>4. Min({qty[h], Remaining}) = qty[h]
    BY <1>4, <2>3, MinOfTwo
  <2> QED BY <1>6, <2>1, <2>2, <2>4
<1>8. ASSUME NEW h \in Handlers, LoadRemaining(h)
      PROVE  Located' /\ (algo' \in Accounted => Accounts')
  <2>1. Goto(h, "report", "take") /\ algo = "discretionary"
        /\ held' = [held EXCEPT ![h] = Remaining]
        /\ UNCHANGED <<algo, working, filled, executed, qty, dropped>>
    BY <1>8 DEF LoadRemaining, reserveVars
  <2>2. MayBe("take") /\ Accounts
    BY <2>1 DEF MayBe, CoreInv, Accounted, Exact
  <2>3. pc[h] = "report" /\ pc'[h] = "take" /\ \A k \in Handlers \ {h} : pc'[k] = pc[k]
    BY <1>1, <2>1, Going
  <2>4. qty[h] <= Remaining
    BY <1>1, <2>2, <2>3, OwedFitsRemaining
  <2>5. held'[h] = Remaining /\ \A k \in Handlers \ {h} : held'[k] = held[k]
    BY <1>1, <2>1 DEF ChildTypes
  <2>6. \A k \in Handlers : Owed(k)' = Owed(k)
    BY <2>1, <2>3 DEF Owed
  <2>7. UnitsOwed'
    BY <2>1, <2>2, <2>6, UnitsStay DEF Accounts
  <2>8. \A k \in Handlers :
          /\ pc'[k] \in {"report", "take"} => qty'[k] > 0
          /\ pc'[k] = "take" => held'[k] >= qty'[k]
    <3> TAKE k \in Handlers
    <3>1. CASE k = h
      <4>1. qty[h] > 0
        BY <2>2, <2>3 DEF Accounts
      <4>2. Remaining >= qty[h]
        BY <1>4, <2>4
      <4> QED BY <2>1, <2>5, <3>1, <4>1, <4>2
    <3>2. CASE k # h
      BY <2>1, <2>2, <2>3, <2>5, <3>2 DEF Accounts
    <3> QED BY <3>1, <3>2
  <2>9. Accounts'
    BY <2>1, <2>2, <2>7, <2>8 DEF Accounts
  <2>10. Located'
    BY <1>1, <2>1, <2>2, GoingIsLocated
  <2> QED BY <2>9, <2>10
<1>9. ASSUME NEW h \in Handlers, TakeFromRemaining(h)
      PROVE  Located' /\ (algo' \in Accounted => Accounts')
  <2> DEFINE to == IF Display > LeftAfter(h) THEN "load reserve" ELSE "idle"
  <2>1. Goto(h, "take", to) /\ algo = "discretionary"
        /\ executed' = executed + Min({qty[h], held[h]})
        /\ UNCHANGED <<algo, working, filled, qty, held, dropped>>
    BY <1>9 DEF TakeFromRemaining, reserveVars
  <2>2. MayBe(to) /\ to \notin {"report", "take"}
    BY <2>1 DEF MayBe
  <2> HIDE DEF to
  <2>3. Accounts
    BY <2>1 DEF CoreInv, Accounted, Exact
  <2>4. held[h] >= qty[h]
    BY <2>1, <2>3 DEF Accounts, Goto
  <2>5. Min({qty[h], held[h]}) = qty[h]
    BY <1>4, <2>4, MinOfTwo
  <2> QED BY <1>6, <2>1, <2>2, <2>3, <2>5
<1>10. ASSUME NEW h \in Handlers, NEW from, NEW to, Goto(h, from, to),
              from \in {"load reserve", "sub reserve"}, to \in {"sub reserve", "idle"},
              UNCHANGED <<algo, working, filled, executed, qty, dropped>>,
              \A k \in Handlers \ {h} : held'[k] = held[k]
       PROVE  Located' /\ (algo' \in Accounted => Accounts')
  <2>1. pc[h] = from
    BY <1>1, <1>10, Going
  <2>2. MayBe(to)
    BY <1>1, <1>10, <2>1 DEF Located, MayBe
  <2>3. Located'
    BY <1>1, <1>10, <2>2, GoingIsLocated
  <2>4. Accounts => Accounts'
    BY <1>1, <1>10, StepKeepsAccounts
  <2> QED BY <1>10, <2>3, <2>4 DEF CoreInv
<1>11. ASSUME NEW h \in Handlers, LoadReserve(h)
       PROVE  Located' /\ (algo' \in Accounted => Accounts')
  <2>1. \A k \in Handlers \ {h} : held'[k] = held[k]
    BY <1>1, <1>11 DEF LoadReserve, ChildTypes
  <2> QED BY <1>10, <1>11, <2>1 DEF LoadReserve, reserveVars
<1>12. ASSUME NEW h \in Handlers, SubReserve(h)
       PROVE  Located' /\ (algo' \in Accounted => Accounts')
  BY <1>10, <1>12 DEF SubReserve
<1> QED BY <1>2, <1>3, <1>5, <1>7, <1>8, <1>9, <1>11, <1>12
      DEF Reserves, ReserveNext, ReserveStep, CancelReserve, SetReserveEnabled

(* The accounts are exact before the first child order.                    *)
LEMMA CoreInit ==
    ASSUME DeskInit
    PROVE  CoreInv
<1> USE DEF DeskInit, ChildInit
<1>1. ChildTypes
  <2>1. pc \in [Handlers -> Places] /\ qty \in [Handlers -> Nat] /\ held \in [Handlers -> Int]
    BY DEF Places
  <2>2. dropped \in Nat
    BY DEF ReserveInit
  <2>3. overlapped \in BOOLEAN
    OBVIOUS
  <2>4. algo \in Algos /\ working \in Nat /\ filled \in Nat /\ executed \in Int
    OBVIOUS
  <2> HIDE DEF DeskInit, ChildInit
  <2> QED BY <2>1, <2>2, <2>3, <2>4 DEF ChildTypes
<1>2. AlgoTypes
  <2>1. visible \in Nat /\ hidden \in Int /\ clip \in Int
    <3>1. Quantity - InitialVisible \in Int
      BY ChildAssumption, IcebergAssumption
    <3> QED BY <3>1, IcebergAssumption, MaxOfTwo DEF IcebergInit
  <2>2. average \in Averages /\ heldAvg \in [Handlers -> Averages]
    BY DEF AdaptiveInit, NoAverage, Averages
  <2>3. paid \in Nat /\ volume \in [Sides -> Nat] /\ cvd \in Int
    BY DEF AdaptiveInit
  <2>4. reserve \in Int /\ isActive \in BOOLEAN /\ enabled \in BOOLEAN /\ activeCount \in Int
    <3>1. Quantity - Display \in Int
      BY ChildAssumption, ReserveAssumption
    <3> QED BY <3>1, MaxOfTwo DEF ReserveInit
  <2> QED BY <2>1, <2>2, <2>3, <2>4 DEF AlgoTypes
<1>3. Located
  BY DEF Located, MayBe
<1>4. UnitsOwed
  <2> DEFINE owner == [u \in {} |-> u]
  <2>1. {} \in SUBSET (1 .. filled) /\ owner \in [{} -> Handlers]
    OBVIOUS
  <2>2. Cardinality({}) = filled - executed - dropped
    BY FS_EmptySet DEF ReserveInit
  <2>3. \A h \in Handlers : {u \in {} : owner[u] = h} = {} /\ Owed(h) = 0
    BY DEF Owed
  <2>4. \A h \in Handlers : Cardinality({u \in {} : owner[u] = h}) = Owed(h)
    BY <2>3, FS_EmptySet
  <2> HIDE DEF owner
  <2> QED BY <2>1, <2>2, <2>4 DEF UnitsOwed
<1>5. Accounts
  BY <1>4, ChildAssumption DEF Accounts, ReserveInit
<1> QED BY <1>1, <1>2, <1>3, <1>5 DEF CoreInv, DeskTypes

(* Every step of the desk keeps the accounts exact.                        *)
LEMMA CoreStep ==
    ASSUME CoreInv, [DeskNext]_deskVars
    PROVE  CoreInv'
<1>1. CASE UNCHANGED deskVars
  <2>1. ChildTypes' /\ AlgoTypes'
    BY <1>1 DEF CoreInv, DeskTypes, ChildTypes, AlgoTypes, deskVars, childVars, algoVars,
                icebergVars, adaptiveVars, reserveVars
  <2>2. UNCHANGED <<childVars, dropped>>
    BY <1>1 DEF deskVars, algoVars, reserveVars
  <2> QED BY <2>1, <2>2, Rests, LocatedRests DEF CoreInv, DeskTypes, childVars
<1>2. CASE DeskNext
  <2>1. DeskTypes'
    BY <1>2, TypesStep DEF CoreInv
  <2>2. CASE Pegging
    <3>1. UNCHANGED <<childVars, dropped>>
      BY <2>2 DEF Pegging, reserveVars
    <3> QED BY <2>1, <3>1, Rests, LocatedRests DEF CoreInv, childVars
  <2>3. (Located' /\ (algo' \in Accounted => Accounts')) \/ Pegging
    BY <1>2, VenueKeepsAccounts, IcebergKeepsAccounts, SliceKeepsAccounts,
       AdaptiveKeepsLocated, ReserveKeepsAccounts DEF DeskNext
  <2> QED BY <2>1, <2>2, <2>3 DEF CoreInv
<1> QED BY <1>1, <1>2

(* Whatever fills, clips, timers and changes of size interleave, every unit*)
(* the venue has filled is in the executed quantity, ignored by the manager*)
(* of reserve orders or about to be recorded by one handler.               *)
THEOREM AccountsAreExact == DeskSpec => []CoreInv
BY CoreInit, CoreStep, PTL DEF DeskSpec
-----------------------------------------------------------------------------
(* What a step does for the parent order of an exact algorithm: it sends a *)
(* child order, records one fill, or neither.                              *)
Sends == \E size \in Int : size <= Remaining /\ Place(size)
RecordsOne ==
    \E h \in Handlers :
        /\ pc[h] \in {"report", "take"}
        /\ executed' = executed + qty[h]
        /\ UNCHANGED <<working, filled>>
Neither == executed' = executed /\ working' + filled' = working + filled

(* A step of an exact algorithm sends a child order, records one fill or   *)
(* does neither.                                                           *)
LEMMA DeskMoves ==
    ASSUME CoreInv, DeskNext
    PROVE  algo' = algo /\ (algo \in Exact => Sends \/ RecordsOne \/ Neither)
<1>1. ChildTypes /\ Located
  BY DEF CoreInv, DeskTypes
<1>2. CASE UNCHANGED childVars
  BY <1>2 DEF childVars, Neither
<1>3. CASE VenueNext
  <2>1. PICK h \in Handlers : VenueFills(h)
    BY <1>3 DEF VenueNext
  <2>2. PICK q \in 1 .. working :
          /\ working' = working - q
          /\ filled' = filled + q
          /\ UNCHANGED <<algo, executed, held>>
    BY <2>1 DEF VenueFills
  <2>3. working' + filled' = working + filled
    BY <1>1, <2>2 DEF ChildTypes
  <2> QED BY <2>2, <2>3 DEF Neither
<1>4. CASE Icebergs(IcebergNext)
  <2>1. CASE PlaceClip
    BY <2>1, SizesAreIntegers DEF PlaceClip, Place, Sends, CoreInv
  <2>2. ASSUME NEW h \in Handlers, IcebergStep(h)
        PROVE  algo' = algo /\ (algo \in Exact => RecordsOne \/ Neither)
    <3>1. CASE CountFill(h)
      BY <3>1 DEF CountFill, Goto, RecordsOne
    <3>2. CASE ~ CountFill(h)
      BY <2>2, <3>2 DEF IcebergStep, LoadClip, KeepClip, LoadHidden, Refill, TakeFromHidden,
                        Neither
    <3> QED BY <3>1, <3>2
  <2> QED BY <1>2, <1>4, <2>1, <2>2
        DEF Icebergs, IcebergNext, AdjustVisible, AdjustPlainVisible
<1>5. CASE Slices(SliceNext)
  <2>1. CASE PlaceTwapSlice
    BY <2>1, SizesAreIntegers DEF PlaceTwapSlice, Place, Sends, CoreInv
  <2>2. CASE PlaceVwapSlice
    BY <2>2, SizesAreIntegers DEF PlaceVwapSlice, Place, Sends, CoreInv
  <2>3. ASSUME NEW h \in Handlers, SliceStep(h)
        PROVE  algo' = algo /\ (algo \in Exact => RecordsOne \/ Neither)
    <3>1. CASE AddSlice(h)
      BY <3>1 DEF AddSlice, Goto, RecordsOne
    <3>2. CASE StampSlice(h)
      BY <3>2 DEF StampSlice, Neither
    <3> QED BY <2>3, <3>1, <3>2 DEF SliceStep
  <2> QED BY <1>2, <1>5, <2>1, <2>2, <2>3
        DEF Slices, SliceNext, Start, Stop, TimePasses, AdvanceBucket
<1>6. CASE Adaptives(AdaptiveNext)
  BY <1>6, AdaptiveKeepsLocated DEF Accounted
<1>7. CASE Reserves(ReserveNext)
  <2>1. CASE PlaceReserve
    BY <2>1, SizesAreIntegers DEF PlaceReserve, Place, Sends, CoreInv
  <2>2. ASSUME NEW h \in Handlers, DropFill(h) \/ ProcessFill(h)
        PROVE  algo' = algo /\ algo \notin Exact
    BY <2>2 DEF DropFill, ProcessFill, Exact
  <2>3. ASSUME NEW h \in Handlers, LoadRemaining(h) \/ LoadReserve(h) \/ SubReserve(h)
        PROVE  algo' = algo /\ Neither
    BY <2>3 DEF LoadRemaining, LoadReserve, SubReserve, Neither
  <2>4. ASSUME NEW h \in Handlers, TakeFromRemaining(h)
        PROVE  algo' = algo /\ RecordsOne
    <3>1. algo' = algo /\ algo = "discretionary" /\ pc[h] = "take"
          /\ executed' = executed + Min({qty[h], held[h]}) /\ UNCHANGED <<working, filled>>
      BY <2>4 DEF TakeFromRemaining, Goto
    <3>2. held[h] >= qty[h] /\ held[h] \in Int /\ qty[h] \in Int
      BY <1>1, <3>1 DEF CoreInv, Accounted, Exact, Accounts, ChildTypes
    <3>3. Min({qty[h], held[h]}) = qty[h]
      BY <3>2, MinOfTwo
    <3> QED BY <3>1, <3>3 DEF RecordsOne
  <2> QED BY <1>2, <1>7, <2>1, <2>2, <2>3, <2>4
        DEF Reserves, ReserveNext, ReserveStep, CancelReserve, SetReserveEnabled
<1> QED BY <1>2, <1>3, <1>4, <1>5, <1>6, <1>7 DEF DeskNext, Pegging

Left == IF algo \in Exact THEN Remaining ELSE Quantity
Out == IF algo \in Exact THEN working + Unrecorded ELSE 0

(* Every step of the desk is one of the parent order or changes nothing of *)
(* it.                                                                     *)
LEMMA StepRefines ==
    ASSUME CoreInv, [DeskNext]_deskVars
    PROVE  [Parent!Place \/ Parent!Fill]_<<Left, Out>>
<1>1. CASE UNCHANGED deskVars
  BY <1>1 DEF deskVars, childVars, Left, Out, Remaining, Unrecorded
<1>2. CASE DeskNext /\ algo \notin Exact
  <2>1. algo' = algo
    BY <1>2, DeskMoves
  <2> QED BY <1>2, <2>1 DEF Left, Out
<1>3. CASE DeskNext /\ algo \in Exact
  <2>1. algo' \in Exact /\ (Sends \/ RecordsOne \/ Neither)
    BY <1>3, DeskMoves
  <2>2. Accounts /\ ChildTypes /\ dropped = 0
    BY <1>3 DEF CoreInv, DeskTypes, Accounted, Accounts, Exact
  <2>3. working \in Nat /\ filled \in Nat /\ executed \in Int /\ Quantity \in Nat
    BY <2>2, ChildAssumption DEF ChildTypes
  <2>4. /\ Left = Quantity - executed /\ Left' = Quantity - executed'
        /\ Out = working + (filled - executed)
        /\ Out' = working' + (filled' - executed')
    BY <1>3, <2>1 DEF Left, Out, Remaining, Unrecorded
  <2>5. CASE Sends
    <3>1. PICK size \in Int : size <= Remaining /\ Place(size)
      BY <2>5 DEF Sends
    <3>2. Quiet /\ working = 0 /\ size > 0 /\ working' = size /\ UNCHANGED <<filled, executed>>
      BY <3>1 DEF Place
    <3>3. filled = executed
      BY <2>2, <2>3, <3>2, QuietIsAccounted
    <3>4. Out = 0 /\ Left' = Left
      BY <2>3, <2>4, <3>2, <3>3
    <3>5. Out' \in 1 .. Left
      BY <2>3, <2>4, <3>1, <3>2, <3>3 DEF Remaining
    <3>6. Parent!Place
      BY <3>4, <3>5 DEF Parent!Place, Left, Out
    <3> QED BY <3>6
  <2>6. CASE RecordsOne
    <3>1. PICK h \in Handlers :
            /\ pc[h] \in {"report", "take"}
            /\ executed' = executed + qty[h]
            /\ UNCHANGED <<working, filled>>
      BY <2>6 DEF RecordsOne
    <3>2. qty[h] > 0 /\ qty[h] <= filled - executed - dropped /\ qty[h] \in Nat
      BY <2>2, <3>1, OwedFitsRemaining DEF ChildTypes
    <3>3. qty[h] \in 1 .. Out
      BY <2>2, <2>3, <2>4, <3>2
    <3>4. Out' = Out - qty[h] /\ Left' = Left - qty[h]
      BY <2>3, <2>4, <3>1, <3>2
    <3>5. Parent!Fill
      BY <3>3, <3>4 DEF Parent!Fill, Left, Out
    <3> QED BY <3>5
  <2>7. CASE Neither
    <3>1. working' \in Int /\ filled' \in Int
      BY <1>3, TypesStep DEF CoreInv, DeskTypes, ChildTypes
    <3>2. working' + filled' = working + filled /\ executed' = executed
      BY <2>7 DEF Neither
    <3>3. PICK w \in Int, f \in Int : w = working' /\ f = filled'
      BY <3>1
    <3>4. w + f = working + filled
      BY <3>2, <3>3
    <3>5. w + (f - executed) = working + (filled - executed)
      BY <2>3, <3>4
    <3> QED BY <2>4, <3>2, <3>3, <3>5
  <2> QED BY <2>1, <2>5, <2>6, <2>7
<1> QED BY <1>1, <1>2, <1>3

(* The iceberg orders, the schedules and the discretionary orders keep the *)
(* promise of a parent order, however their fills are reported.            *)
THEOREM DeskImplementsParent == DeskSpec => ImplementsParent
<1>1. DeskInit => Parent!Init
  <2>1. ASSUME DeskInit PROVE Left = Quantity /\ Out = 0
    BY <2>1, ChildAssumption DEF DeskInit, ChildInit, Left, Out, Remaining, Unrecorded
  <2> QED BY <2>1 DEF Parent!Init, Left, Out
<1>2. CoreInv /\ [DeskNext]_deskVars => [Parent!Place \/ Parent!Fill]_<<Left, Out>>
  BY StepRefines
<1>3. DeskSpec => []CoreInv
  BY AccountsAreExact
<1> QED BY <1>1, <1>2, <1>3, PTL DEF DeskSpec, ImplementsParent, Parent!Spec, Left, Out
-----------------------------------------------------------------------------
(* Without overlap at most one handler is at work.                         *)
AtMostOne ==
    ~overlapped =>
        \A h, k \in Handlers : pc[h] # "idle" /\ pc[k] # "idle" => h = k

(* A clip of c and the reserve do not understate what remains.             *)
Covers(c) == algo = "iceberg" \/ hidden > 0 => hidden + c >= Remaining

IcebergAt(h) ==
    /\ pc[h] = "report" => Covers(clip)
    /\ pc[h] = "clip" => Covers(clip - qty[h])
    /\ pc[h] \in {"keep", "reload"} => Covers(held[h])
    /\ pc[h] = "reload" => held[h] <= 0
    /\ pc[h] \in {"refill", "hide"} => hidden >= Remaining /\ held[h] <= hidden
    /\ pc[h] = "hide" => clip = held[h]

IcebergInv ==
    algo \in {"iceberg", "plain"} /\ ~overlapped =>
        hidden >= 0 /\ (Quiet => Covers(clip)) /\ \A h \in Handlers : IcebergAt(h)

Paid(n) == [cost |-> paid, over |-> n]

AdaptiveAt(h) ==
    /\ pc[h] = "report" => executed = filled - qty[h] /\ average = Paid(executed)
    /\ pc[h] = "take" => held[h] = filled
    /\ pc[h] \in {"take", "average"} => heldAvg[h] = Paid(filled)
    /\ pc[h] = "average" => executed = filled

AdaptiveInv ==
    algo = "adaptive" /\ ~overlapped =>
        /\ working + filled <= Quantity
        /\ Quiet => executed = filled /\ average = Paid(filled)
        /\ \A h \in Handlers : AdaptiveAt(h)

Delta == volume["buy"] - volume["sell"]

CvdInv ==
    /\ algo = "adaptive" => cvd = Delta
    /\ algo = "cvd" /\ ~overlapped =>
        /\ Quiet => cvd = Delta
        /\ \A h \in Handlers :
            /\ pc[h] = "cvd sell" => held[h] = volume["buy"]
            /\ pc[h] = "cvd store" => held[h] = Delta

ReserveInv ==
    /\ algo \in {"reserve", "discretionary"} /\ ~overlapped =>
        reserve >= 0 /\ \A h \in Handlers : pc[h] = "sub reserve" => held[h] <= reserve
    /\ isActive => activeCount = 1

BooksInv == AtMostOne /\ IcebergInv /\ AdaptiveInv /\ CvdInv /\ ReserveInv
-----------------------------------------------------------------------------
(* What a step does to the threads.                                        *)
OneGoesOn ==
    \E h \in Handlers :
        /\ pc[h] # "idle"
        /\ \A k \in Handlers \ {h} : pc'[k] = pc[k]
        /\ overlapped' = overlapped
OneBegins ==
    \E h \in Handlers :
        /\ \A k \in Handlers \ {h} : pc'[k] = pc[k]
        /\ overlapped' = (overlapped \/ ~Quiet)

(* A step lets one handler go on, lets one begin or leaves them alone.     *)
LEMMA ThreadMoves ==
    ASSUME ChildTypes, DeskNext
    PROVE  UNCHANGED <<pc, overlapped>> \/ OneGoesOn \/ OneBegins
<1>1. ASSUME NEW h \in Handlers, NEW from, NEW to, Goto(h, from, to), from # "idle",
             overlapped' = overlapped
      PROVE  OneGoesOn
  BY <1>1, Going DEF OneGoesOn
<1>2. ASSUME NEW h \in Handlers, NEW from, NEW to, Goto(h, from, to),
             overlapped' = (overlapped \/ ~Quiet)
      PROVE  OneBegins
  BY <1>2, Going DEF OneBegins
<1>3. CASE VenueNext
  BY <1>2, <1>3 DEF VenueNext, VenueFills
<1>4. ASSUME NEW h \in Handlers, IcebergStep(h) PROVE OneGoesOn
  BY <1>1, <1>4 DEF IcebergStep, CountFill, LoadClip, KeepClip, LoadHidden, Refill,
                    TakeFromHidden
<1>5. ASSUME NEW h \in Handlers, SliceStep(h) PROVE OneGoesOn
  BY <1>1, <1>5 DEF SliceStep, AddSlice, StampSlice
<1>6. ASSUME NEW h \in Handlers, AdaptiveStep(h) PROVE OneGoesOn
  BY <1>1, <1>6 DEF AdaptiveStep, LoadFill, StoreExecuted, StoreAverage, LoadBuys, LoadSells,
                    LoadVolume, StoreCvd
<1>7. ASSUME NEW h \in Handlers, TradeArrives(h) PROVE OneBegins
  BY <1>2, <1>7 DEF TradeArrives
<1>8. ASSUME NEW h \in Handlers, ReserveStep(h) PROVE OneGoesOn
  BY <1>1, <1>8 DEF ReserveStep, DropFill, ProcessFill, LoadRemaining, TakeFromRemaining,
                    LoadReserve, SubReserve
<1>9. CASE Icebergs(IcebergNext)
  BY <1>4, <1>9 DEF Icebergs, IcebergNext, PlaceClip, AdjustVisible, AdjustPlainVisible, Place,
                    childVars
<1>10. CASE Slices(SliceNext)
  BY <1>5, <1>10 DEF Slices, SliceNext, Start, Stop, PlaceTwapSlice, PlaceVwapSlice,
                     TimePasses, AdvanceBucket, Place, childVars
<1>11. CASE Adaptives(AdaptiveNext)
  BY <1>6, <1>7, <1>11 DEF Adaptives, AdaptiveNext, PlaceAdaptive, ResetCvd, Place, childVars
<1>12. CASE Reserves(ReserveNext)
  BY <1>8, <1>12 DEF Reserves, ReserveNext, PlaceReserve, CancelReserve, SetReserveEnabled,
                     Place, childVars
<1> QED BY <1>3, <1>9, <1>10, <1>11, <1>12 DEF DeskNext, Pegging, childVars

(* Without overlap at most one handler is at work.                         *)
LEMMA AtMostOneStep ==
    ASSUME ChildTypes, AtMostOne, DeskNext
    PROVE  AtMostOne'
<1>1. CASE UNCHANGED <<pc, overlapped>>
  BY <1>1 DEF AtMostOne
<1>2. CASE OneGoesOn
  BY <1>2 DEF OneGoesOn, AtMostOne
<1>3. CASE OneBegins
  BY <1>3 DEF OneBegins, AtMostOne, Quiet
<1> QED BY <1>1, <1>2, <1>3, ThreadMoves

(* Whoever moves while nobody else is at work is alone.                    *)
LEMMA Alone ==
    ASSUME ChildTypes, AtMostOne, ~overlapped, NEW h \in Handlers, NEW from, NEW to,
           Goto(h, from, to), from # "idle"
    PROVE  /\ pc[h] = from /\ pc'[h] = to /\ ~Quiet
           /\ \A k \in Handlers \ {h} : pc[k] = "idle" /\ pc'[k] = "idle"
           /\ Quiet' <=> to = "idle"
<1>1. pc[h] = from /\ pc'[h] = to /\ \A k \in Handlers \ {h} : pc'[k] = pc[k]
  BY Going
<1>2. \A k \in Handlers \ {h} : pc[k] = "idle"
  BY <1>1 DEF AtMostOne
<1> QED BY <1>1, <1>2 DEF Quiet

(* Whoever begins without overlap finds nobody at work.                    *)
LEMMA Begins ==
    ASSUME ChildTypes, AtMostOne, NEW h \in Handlers, NEW to, Goto(h, "idle", to), to # "idle",
           overlapped' = (overlapped \/ ~Quiet), ~overlapped'
    PROVE  /\ ~overlapped /\ Quiet /\ ~Quiet' /\ pc'[h] = to
           /\ \A k \in Handlers \ {h} : pc'[k] = "idle"
<1>1. pc'[h] = to /\ \A k \in Handlers \ {h} : pc'[k] = pc[k]
  BY Going
<1> QED BY <1>1 DEF Quiet

(* Whose step it is.                                                       *)
LEMMA StepsBelong ==
    ASSUME ChildTypes, Located
    PROVE  /\ Icebergs(IcebergNext) => algo \in {"iceberg", "plain"} /\ algo' = algo
           /\ Slices(SliceNext) => algo \in {"twap", "vwap"} /\ algo' = algo
           /\ Adaptives(AdaptiveNext) => algo \in {"adaptive", "cvd"} /\ algo' = algo
           /\ Reserves(ReserveNext) => algo \in {"reserve", "discretionary"} /\ algo' = algo
<1>1. ASSUME NEW h \in Handlers
      PROVE  /\ pc[h] \in {"clip", "keep", "reload", "refill", "hide"} =>
                   algo \in {"iceberg", "plain"}
             /\ pc[h] = "stamp" => algo = "twap"
             /\ pc[h] = "average" => algo = "adaptive"
             /\ pc[h] \in {"cvd buy", "cvd sell", "cvd store"} => algo = "cvd"
             /\ pc[h] \in {"load reserve", "sub reserve"} => algo = "discretionary"
  BY DEF Located, MayBe
<1>2. ASSUME NEW h \in Handlers, IcebergStep(h)
      PROVE  algo \in {"iceberg", "plain"} /\ algo' = algo
  BY <1>1, <1>2 DEF IcebergStep, CountFill, LoadClip, KeepClip, LoadHidden, Refill,
                    TakeFromHidden, Goto
<1>3. ASSUME NEW h \in Handlers, SliceStep(h)
      PROVE  algo \in {"twap", "vwap"} /\ algo' = algo
  BY <1>1, <1>3 DEF SliceStep, AddSlice, StampSlice, Goto
<1>4. ASSUME NEW h \in Handlers, AdaptiveStep(h) \/ TradeArrives(h)
      PROVE  algo \in {"adaptive", "cvd"} /\ algo' = algo
  BY <1>1, <1>4 DEF AdaptiveStep, LoadFill, StoreExecuted, StoreAverage, LoadBuys, LoadSells,
                    LoadVolume, StoreCvd, TradeArrives, Goto
<1>5. ASSUME NEW h \in Handlers, ReserveStep(h)
      PROVE  algo \in {"reserve", "discretionary"} /\ algo' = algo
  BY <1>1, <1>5 DEF ReserveStep, DropFill, ProcessFill, LoadRemaining, TakeFromRemaining,
                    LoadReserve, SubReserve, Goto
<1>6. Icebergs(IcebergNext) => algo \in {"iceberg", "plain"} /\ algo' = algo
  BY <1>2 DEF Icebergs, IcebergNext, PlaceClip, AdjustVisible, AdjustPlainVisible, Place,
              childVars
<1>7. Slices(SliceNext) => algo \in {"twap", "vwap"} /\ algo' = algo
  BY <1>3 DEF Slices, SliceNext, Start, Stop, PlaceTwapSlice, PlaceVwapSlice, TimePasses,
              AdvanceBucket, Place, childVars
<1>8. Adaptives(AdaptiveNext) => algo \in {"adaptive", "cvd"} /\ algo' = algo
  BY <1>4 DEF Adaptives, AdaptiveNext, PlaceAdaptive, ResetCvd, Place, childVars
<1>9. Reserves(ReserveNext) => algo \in {"reserve", "discretionary"} /\ algo' = algo
  BY <1>5 DEF Reserves, ReserveNext, PlaceReserve, CancelReserve, SetReserveEnabled, Place,
              childVars
<1> QED BY <1>6, <1>7, <1>8, <1>9
-----------------------------------------------------------------------------
(* No step of an iceberg order understates what remains.                   *)
LEMMA IcebergInvStep ==
    ASSUME CoreInv, AtMostOne, IcebergInv, Icebergs(IcebergNext)
    PROVE  IcebergInv'
<1>1. ChildTypes /\ DeskTypes /\ algo \in {"iceberg", "plain"} /\ algo' = algo
  BY StepsBelong DEF CoreInv, DeskTypes
<1>2. hidden \in Int /\ clip \in Int /\ executed \in Int /\ Quantity \in Int
      /\ Remaining \in Int /\ visible \in Nat
      /\ \A h \in Handlers : held[h] \in Int /\ qty[h] \in Nat
  BY <1>1, SizesAreIntegers DEF DeskTypes, ChildTypes, AlgoTypes
<1>3. CASE UNCHANGED <<algo, executed, pc, qty, held, overlapped, hidden, clip>>
  <2>1. IcebergInv' = IcebergInv
    BY <1>3 DEF IcebergInv, Quiet, Covers, Remaining, IcebergAt
  <2> QED BY <2>1
<1>4. ASSUME NEW h \in Handlers, NEW from, NEW to, Goto(h, from, to), from # "idle",
             to # "report", overlapped' = overlapped,
             ~overlapped => hidden' >= 0 /\ (to = "idle" => Covers(clip)') /\ IcebergAt(h)'
      PROVE  IcebergInv'
  <2>1. ASSUME ~overlapped'
        PROVE  hidden' >= 0 /\ (Quiet' => Covers(clip)') /\ \A k \in Handlers : IcebergAt(k)'
    <3>1. /\ pc'[h] = to /\ (Quiet' <=> to = "idle")
          /\ \A k \in Handlers \ {h} : pc'[k] = "idle"
      BY <1>1, <1>4, <2>1, Alone
    <3>2. \A k \in Handlers \ {h} : IcebergAt(k)'
      BY <3>1 DEF IcebergAt
    <3> QED BY <1>4, <2>1, <3>1, <3>2
  <2> QED BY <2>1 DEF IcebergInv
<1>5. ASSUME NEW h \in Handlers, ~overlapped PROVE hidden >= 0 /\ IcebergAt(h)
  BY <1>1, <1>5 DEF IcebergInv
<1>6. ASSUME NEW h \in Handlers, CountFill(h) PROVE IcebergInv'
  <2>1. Goto(h, "report", "clip") /\ executed' = executed + qty[h]
        /\ UNCHANGED <<algo, qty, overlapped, hidden, clip>>
    BY <1>6 DEF CountFill, icebergVars
  <2>2. pc[h] = "report" /\ pc'[h] = "clip"
    BY <1>1, <2>1, Going
  <2>3. ASSUME ~overlapped PROVE hidden' >= 0 /\ IcebergAt(h)'
    <3>1. Covers(clip) /\ hidden >= 0
      BY <1>5, <2>2, <2>3 DEF IcebergAt
    <3>2. Covers(clip - qty[h])'
      <4>1. Remaining' = Remaining - qty[h]
        BY <1>2, <2>1 DEF Remaining
      <4> QED BY <1>2, <2>1, <3>1, <4>1 DEF Covers
    <3> QED BY <2>1, <2>2, <3>1, <3>2 DEF IcebergAt
  <2> QED BY <1>4, <2>1, <2>3
<1>7. ASSUME NEW h \in Handlers, LoadClip(h) PROVE IcebergInv'
  <2> DEFINE to == IF clip <= qty[h] THEN "reload" ELSE "keep"
  <2>1. Goto(h, "clip", to) /\ Hold(h, clip - qty[h])
        /\ UNCHANGED <<algo, executed, qty, overlapped, hidden, clip>>
    BY <1>7 DEF LoadClip, icebergVars
  <2>2. pc[h] = "clip" /\ pc'[h] = to /\ to \in {"reload", "keep"}
    BY <1>1, <2>1, Going
  <2>3. held'[h] = clip - qty[h]
    BY <1>1, <2>1 DEF Hold, ChildTypes
  <2>4. to = "reload" => held'[h] <= 0
    BY <1>2, <2>3
  <2> HIDE DEF to
  <2>5. ASSUME ~overlapped PROVE hidden' >= 0 /\ IcebergAt(h)'
    <3>1. Covers(clip - qty[h]) /\ hidden >= 0
      BY <1>5, <2>2, <2>5 DEF IcebergAt
    <3>2. Covers(held[h])'
      BY <2>1, <2>3, <3>1 DEF Covers, Remaining
    <3> QED BY <2>1, <2>2, <2>4, <3>1, <3>2 DEF IcebergAt
  <2>6. to \notin {"idle", "report"}
    BY <2>2
  <2> QED BY <1>4, <2>1, <2>5, <2>6
<1>8. ASSUME NEW h \in Handlers, KeepClip(h) PROVE IcebergInv'
  <2>1. Goto(h, "keep", "idle") /\ clip' = held[h]
        /\ UNCHANGED <<algo, executed, qty, held, overlapped, hidden>>
    BY <1>8 DEF KeepClip
  <2>2. pc[h] = "keep" /\ pc'[h] = "idle"
    BY <1>1, <2>1, Going
  <2>3. ASSUME ~overlapped PROVE hidden' >= 0 /\ Covers(clip)' /\ IcebergAt(h)'
    <3>1. Covers(held[h]) /\ hidden >= 0
      BY <1>5, <2>2, <2>3 DEF IcebergAt
    <3>2. Covers(clip)'
      BY <2>1, <3>1 DEF Covers, Remaining
    <3> QED BY <2>1, <2>2, <3>1, <3>2 DEF IcebergAt
  <2> QED BY <1>4, <2>1, <2>3
<1>9. ASSUME NEW h \in Handlers, LoadHidden(h) PROVE IcebergInv'
  <2> DEFINE to == IF hidden > 0 THEN "refill" ELSE "keep"
             x == IF hidden > 0 THEN Min({visible, hidden}) ELSE LastClip
  <2>1. Goto(h, "reload", to) /\ Hold(h, x)
        /\ UNCHANGED <<algo, executed, qty, overlapped, hidden, clip>>
    BY <1>9 DEF LoadHidden, icebergVars
  <2>2. pc[h] = "reload" /\ pc'[h] = to /\ to \in {"refill", "keep"}
    BY <1>1, <2>1, Going
  <2>3. held'[h] = x
    BY <1>1, <2>1 DEF Hold, ChildTypes
  <2>4. hidden > 0 => to = "refill" /\ x <= hidden
    BY <1>2, MinOfTwo
  <2>5. ~ (hidden > 0) => to = "keep" /\ x = LastClip
    OBVIOUS
  <2> HIDE DEF to, x
  <2>6. ASSUME ~overlapped PROVE hidden' >= 0 /\ IcebergAt(h)'
    <3>1. Covers(held[h]) /\ held[h] <= 0 /\ hidden >= 0
      BY <1>5, <2>2, <2>6 DEF IcebergAt
    <3>2. Remaining' = Remaining /\ hidden' = hidden
      BY <2>1 DEF Remaining
    <3>3. CASE hidden > 0
      <4>1. hidden >= Remaining
        BY <1>2, <3>1, <3>3 DEF Covers
      <4>2. pc'[h] = "refill" /\ held'[h] <= hidden'
        BY <2>2, <2>3, <2>4, <3>2, <3>3
      <4>3. hidden' >= Remaining'
        BY <3>2, <4>1
      <4> QED BY <3>1, <3>2, <4>2, <4>3 DEF IcebergAt
    <3>4. CASE ~ (hidden > 0)
      <4>1. pc'[h] = "keep" /\ held'[h] = LastClip
        BY <2>2, <2>3, <2>5, <3>4
      <4>2. algo = "iceberg" => hidden + LastClip >= Remaining
        BY <1>2, <3>1 DEF LastClip
      <4>3. Covers(held[h])'
        BY <2>1, <3>2, <3>4, <4>1, <4>2 DEF Covers
      <4> QED BY <3>1, <3>2, <4>1, <4>3 DEF IcebergAt
    <3> QED BY <3>3, <3>4
  <2>7. to \notin {"idle", "report"}
    BY <2>2
  <2> QED BY <1>4, <2>1, <2>6, <2>7
<1>10. ASSUME NEW h \in Handlers, Refill(h) PROVE IcebergInv'
  <2>1. Goto(h, "refill", "hide") /\ clip' = held[h]
        /\ UNCHANGED <<algo, executed, qty, held, overlapped, hidden>>
    BY <1>10 DEF Refill
  <2>2. pc[h] = "refill" /\ pc'[h] = "hide"
    BY <1>1, <2>1, Going
  <2>3. ASSUME ~overlapped PROVE hidden' >= 0 /\ IcebergAt(h)'
    <3>1. hidden >= Remaining /\ held[h] <= hidden /\ hidden >= 0
      BY <1>5, <2>2, <2>3 DEF IcebergAt
    <3> QED BY <2>1, <2>2, <3>1 DEF IcebergAt, Remaining
  <2> QED BY <1>4, <2>1, <2>3
<1>11. ASSUME NEW h \in Handlers, TakeFromHidden(h) PROVE IcebergInv'
  <2>1. Goto(h, "hide", "idle") /\ hidden' = hidden - held[h]
        /\ UNCHANGED <<algo, executed, qty, held, overlapped, clip>>
    BY <1>11 DEF TakeFromHidden, ReserveAfter
  <2>2. pc[h] = "hide" /\ pc'[h] = "idle"
    BY <1>1, <2>1, Going
  <2>3. ASSUME ~overlapped PROVE hidden' >= 0 /\ Covers(clip)' /\ IcebergAt(h)'
    <3>1. hidden >= Remaining /\ held[h] <= hidden /\ hidden >= 0 /\ clip = held[h]
      BY <1>5, <2>2, <2>3 DEF IcebergAt
    <3>2. hidden' >= 0 /\ hidden' + clip = hidden
      BY <1>2, <2>1, <3>1
    <3>3. Covers(clip)'
      BY <2>1, <3>1, <3>2 DEF Covers, Remaining
    <3> QED BY <2>2, <3>2, <3>3 DEF IcebergAt
  <2> QED BY <1>4, <2>1, <2>3
<1> QED BY <1>3, <1>6, <1>7, <1>8, <1>9, <1>10, <1>11
      DEF Icebergs, IcebergNext, IcebergStep, PlaceClip, Place, AdjustVisible,
          AdjustPlainVisible, childVars, icebergVars
(* The adaptive order keeps executed quantity and average price.           *)
LEMMA AdaptiveInvStep ==
    ASSUME CoreInv, AtMostOne, AdaptiveInv, Adaptives(AdaptiveNext)
    PROVE  AdaptiveInv'
<1>1. ChildTypes /\ DeskTypes /\ algo' = algo
  BY StepsBelong DEF CoreInv, DeskTypes
<1>2. filled \in Nat /\ working \in Nat /\ executed \in Int /\ Quantity \in Nat /\ paid \in Nat
      /\ \A h \in Handlers : held[h] \in Int /\ qty[h] \in Nat
  BY <1>1, SizesAreIntegers DEF DeskTypes, ChildTypes, AlgoTypes
<1>3. CASE algo # "adaptive"
  BY <1>1, <1>3 DEF AdaptiveInv
<1>4. ASSUME algo = "adaptive", NEW h \in Handlers, NEW from, NEW to, Goto(h, from, to),
             from # "idle", UNCHANGED <<working, filled, overlapped>>,
             ~overlapped =>
                 /\ to = "idle" => executed' = filled' /\ average' = Paid(filled)'
                 /\ AdaptiveAt(h)'
      PROVE  AdaptiveInv'
  <2>1. ASSUME ~overlapped'
        PROVE  /\ working' + filled' <= Quantity
               /\ Quiet' => executed' = filled' /\ average' = Paid(filled)'
               /\ \A k \in Handlers : AdaptiveAt(k)'
    <3>1. /\ pc'[h] = to /\ (Quiet' <=> to = "idle")
          /\ \A k \in Handlers \ {h} : pc'[k] = "idle"
      BY <1>1, <1>4, <2>1, Alone
    <3>2. \A k \in Handlers \ {h} : AdaptiveAt(k)'
      BY <3>1 DEF AdaptiveAt
    <3>3. working' + filled' <= Quantity
      BY <1>4, <2>1 DEF AdaptiveInv
    <3> QED BY <1>4, <2>1, <3>1, <3>2, <3>3
  <2> QED BY <2>1 DEF AdaptiveInv
<1>5. ASSUME algo = "adaptive", NEW h \in Handlers, ~overlapped PROVE AdaptiveAt(h)
  BY <1>5 DEF AdaptiveInv
<1>6. ASSUME algo = "adaptive", PlaceAdaptive PROVE AdaptiveInv'
  <2>1. Quiet /\ working' = Remaining
        /\ UNCHANGED <<algo, filled, executed, pc, qty, held, overlapped, average, heldAvg, paid>>
    BY <1>6 DEF PlaceAdaptive, Place, adaptiveVars
  <2>2. ASSUME ~overlapped
        PROVE  /\ working' + filled' <= Quantity
               /\ executed' = filled' /\ average' = Paid(filled)'
               /\ \A k \in Handlers : AdaptiveAt(k)'
    <3>1. executed = filled /\ average = Paid(filled)
      BY <1>6, <2>1, <2>2 DEF AdaptiveInv
    <3>2. working' + filled' <= Quantity
      BY <1>2, <2>1, <3>1 DEF Remaining
    <3>3. \A k \in Handlers : AdaptiveAt(k)'
      BY <2>1 DEF AdaptiveAt, Quiet
    <3> QED BY <2>1, <3>1, <3>2, <3>3 DEF Paid
  <2> QED BY <2>1, <2>2 DEF AdaptiveInv
<1>7. ASSUME algo = "adaptive", NEW h \in Handlers, LoadFill(h) PROVE AdaptiveInv'
  <2>1. PICK p \in Prices :
          /\ Goto(h, "report", "take")
          /\ heldAvg' = [heldAvg EXCEPT ![h] = NewAverage(h, p)]
          /\ paid' = paid + p * qty[h]
    BY <1>7 DEF LoadFill
  <2>2. held' = [held EXCEPT ![h] = executed + qty[h]]
        /\ UNCHANGED <<working, filled, executed, qty, overlapped, average>>
    BY <1>7 DEF LoadFill
  <2>3. pc[h] = "report" /\ pc'[h] = "take"
    BY <1>1, <2>1, Going
  <2>4. held'[h] = executed + qty[h] /\ heldAvg'[h] = NewAverage(h, p)
    BY <1>1, <2>1, <2>2 DEF DeskTypes, ChildTypes, AlgoTypes
  <2>5. ASSUME ~overlapped PROVE AdaptiveAt(h)'
    <3>1. executed = filled - qty[h] /\ average = Paid(executed)
      BY <1>5, <1>7, <2>3, <2>5 DEF AdaptiveAt
    <3>2. executed + qty[h] = filled
      BY <1>2, <3>1
    <3>3. average.cost = paid /\ average.over = executed /\ average # Torn
      <4>1. average.cost = paid /\ average.over = executed
        BY <3>1 DEF Paid
      <4>2. Torn.cost = -1
        BY DEF Torn
      <4>3. paid # -1
        BY <1>2
      <4> QED BY <4>1, <4>2, <4>3
    <3>4. NewAverage(h, p) = [cost |-> paid + p * qty[h], over |-> executed + qty[h]]
      BY <3>3 DEF NewAverage
    <3>5. heldAvg'[h] = Paid(filled)' /\ held'[h] = filled'
      BY <2>1, <2>2, <2>4, <3>2, <3>4 DEF Paid
    <3> QED BY <2>3, <3>5 DEF AdaptiveAt
  <2> QED BY <1>4, <1>7, <2>1, <2>2, <2>5
<1>8. ASSUME algo = "adaptive", NEW h \in Handlers, StoreExecuted(h) PROVE AdaptiveInv'
  <2>1. Goto(h, "take", "average") /\ executed' = held[h]
        /\ UNCHANGED <<working, filled, overlapped, heldAvg, paid>>
    BY <1>8 DEF StoreExecuted, adaptiveVars
  <2>2. pc[h] = "take" /\ pc'[h] = "average"
    BY <1>1, <2>1, Going
  <2>3. ASSUME ~overlapped PROVE AdaptiveAt(h)'
    <3>1. held[h] = filled /\ heldAvg[h] = Paid(filled)
      BY <1>5, <1>8, <2>2, <2>3 DEF AdaptiveAt
    <3> QED BY <2>1, <2>2, <3>1 DEF AdaptiveAt, Paid
  <2> QED BY <1>4, <1>8, <2>1, <2>3
<1>9. ASSUME algo = "adaptive", NEW h \in Handlers, StoreAverage(h) PROVE AdaptiveInv'
  <2>1. Goto(h, "average", "idle") /\ average' = heldAvg[h]
        /\ UNCHANGED <<working, filled, executed, overlapped, paid>>
    BY <1>9 DEF StoreAverage
  <2>2. pc[h] = "average" /\ pc'[h] = "idle"
    BY <1>1, <2>1, Going
  <2>3. ASSUME ~overlapped
        PROVE  executed' = filled' /\ average' = Paid(filled)' /\ AdaptiveAt(h)'
    <3>1. executed = filled /\ heldAvg[h] = Paid(filled)
      BY <1>5, <1>9, <2>2, <2>3 DEF AdaptiveAt
    <3> QED BY <2>1, <2>2, <3>1 DEF AdaptiveAt, Paid
  <2> QED BY <1>4, <1>9, <2>1, <2>3
<1>10. ASSUME algo = "adaptive", NEW h \in Handlers
       PROVE  ~ LoadBuys(h) /\ ~ LoadSells(h) /\ ~ StoreCvd(h) /\ ~ TradeArrives(h)
  <2>1. pc[h] \notin {"cvd buy", "cvd sell", "cvd store"}
    BY <1>10 DEF CoreInv, Located, MayBe
  <2> QED BY <1>10, <2>1 DEF LoadBuys, LoadSells, LoadVolume, StoreCvd, TradeArrives, Goto
<1>11. algo = "adaptive" => ~ ResetCvd
  BY DEF ResetCvd
<1> QED BY <1>3, <1>6, <1>7, <1>8, <1>9, <1>10, <1>11
      DEF Adaptives, AdaptiveNext, AdaptiveStep

(* The tracker keeps the volume delta.                                     *)
LEMMA CvdInvStep ==
    ASSUME CoreInv, AtMostOne, CvdInv, Adaptives(AdaptiveNext)
    PROVE  CvdInv'
<1>1. ChildTypes /\ DeskTypes /\ algo' = algo
  BY StepsBelong DEF CoreInv, DeskTypes
<1>2. volume \in [Sides -> Nat] /\ volume["buy"] \in Nat /\ volume["sell"] \in Nat
  BY <1>1 DEF DeskTypes, AlgoTypes, Sides
<1>3. CASE UNCHANGED <<volume, cvd>> /\ algo # "cvd"
  BY <1>1, <1>3 DEF CvdInv, Delta
<1>4. CASE UNCHANGED <<pc, held, overlapped, volume, cvd>>
  <2>1. CvdInv' = CvdInv
    BY <1>1, <1>4 DEF CvdInv, Delta, Quiet
  <2> QED BY <2>1
<1>5. CASE ResetCvd
  <2>1. /\ volume' = [s \in Sides |-> 0] /\ cvd' = 0 /\ Quiet /\ algo = "cvd"
        /\ UNCHANGED <<pc, held, overlapped>>
    BY <1>5 DEF ResetCvd, childVars
  <2>2. Delta' = 0
    BY <2>1 DEF Delta, Sides
  <2> QED BY <1>1, <2>1, <2>2 DEF CvdInv, Quiet
<1>6. ASSUME NEW h \in Handlers, NEW from, NEW to, Goto(h, from, to), from # "idle",
             overlapped' = overlapped, volume' = volume, algo = "cvd",
             ~overlapped =>
                /\ to = "idle" => cvd' = Delta
                /\ to = "cvd sell" => held'[h] = volume["buy"]
                /\ to = "cvd store" => held'[h] = Delta
      PROVE  CvdInv'
  <2>1. Delta' = Delta
    BY <1>6 DEF Delta
  <2>2. ASSUME ~overlapped'
        PROVE  /\ Quiet' => cvd' = Delta'
               /\ \A k \in Handlers :
                    /\ pc'[k] = "cvd sell" => held'[k] = volume'["buy"]
                    /\ pc'[k] = "cvd store" => held'[k] = Delta'
    <3>1. /\ pc'[h] = to /\ (Quiet' <=> to = "idle")
          /\ \A k \in Handlers \ {h} : pc'[k] = "idle"
      <4>1. ~overlapped
        BY <1>6, <2>2
      <4>2. ChildTypes /\ Goto(h, from, to) /\ from # "idle"
        BY <1>1, <1>6
      <4>3. /\ pc[h] = from /\ pc'[h] = to /\ ~Quiet
            /\ \A k \in Handlers \ {h} : pc[k] = "idle" /\ pc'[k] = "idle"
            /\ Quiet' <=> to = "idle"
        BY <4>1, <4>2, Alone
      <4> QED BY <4>3
    <3> QED BY <1>6, <2>1, <2>2, <3>1
  <2> QED BY <1>1, <1>6, <2>2 DEF CvdInv
<1>7. ASSUME NEW h \in Handlers
      PROVE  pc[h] \in {"cvd buy", "cvd sell", "cvd store"} => algo = "cvd"
  BY DEF CoreInv, Located, MayBe
<1>8. ASSUME NEW h \in Handlers, LoadBuys(h) PROVE CvdInv'
  <2>1. Goto(h, "cvd buy", "cvd sell") /\ held' = [held EXCEPT ![h] = 0 + 1 * volume["buy"]]
        /\ overlapped' = overlapped /\ volume' = volume
    BY <1>8 DEF LoadBuys, LoadVolume, adaptiveVars
  <2>2. held'[h] = volume["buy"]
    <3>1. held'[h] = 0 + 1 * volume["buy"]
      BY <1>1, <2>1 DEF ChildTypes
    <3> QED BY <1>2, <3>1
  <2>3. algo = "cvd"
    BY <1>7, <2>1 DEF Goto
  <2> QED BY <1>6, <2>1, <2>2, <2>3
<1>9. ASSUME NEW h \in Handlers, LoadSells(h) PROVE CvdInv'
  <2>1. Goto(h, "cvd sell", "cvd store")
        /\ held' = [held EXCEPT ![h] = @ + (-1) * volume["sell"]]
        /\ overlapped' = overlapped /\ volume' = volume
    BY <1>9 DEF LoadSells, LoadVolume, adaptiveVars
  <2>2. pc[h] = "cvd sell"
    BY <1>1, <2>1, Going
  <2>3. algo = "cvd"
    BY <1>7, <2>2
  <2>4. held'[h] = held[h] + (-1) * volume["sell"] /\ held[h] \in Int
    BY <1>1, <2>1 DEF ChildTypes
  <2>5. ~overlapped => held'[h] = Delta
    <3>1. ~overlapped => held[h] = volume["buy"]
      BY <2>2, <2>3 DEF CvdInv
    <3> QED BY <1>2, <2>4, <3>1 DEF Delta
  <2> QED BY <1>6, <2>1, <2>3, <2>5
<1>10. ASSUME NEW h \in Handlers, StoreCvd(h) PROVE CvdInv'
  <2>1. Goto(h, "cvd store", "idle") /\ cvd' = held[h]
        /\ overlapped' = overlapped /\ volume' = volume
    BY <1>10 DEF StoreCvd
  <2>2. pc[h] = "cvd store"
    BY <1>1, <2>1, Going
  <2>3. algo = "cvd"
    BY <1>7, <2>2
  <2>4. ~overlapped => cvd' = Delta
    BY <2>1, <2>2, <2>3 DEF CvdInv
  <2> QED BY <1>6, <2>1, <2>3, <2>4
<1>11. ASSUME NEW h \in Handlers, TradeArrives(h) PROVE CvdInv'
  <2>1. /\ Goto(h, "idle", "cvd buy") /\ algo = "cvd"
        /\ overlapped' = (overlapped \/ ~Quiet)
    BY <1>11 DEF TradeArrives
  <2>2. ASSUME ~overlapped'
        PROVE  ~Quiet' /\ \A k \in Handlers : pc'[k] \notin {"cvd sell", "cvd store"}
    <3>1. ~Quiet' /\ pc'[h] = "cvd buy" /\ \A k \in Handlers \ {h} : pc'[k] = "idle"
      BY <1>1, <2>1, <2>2, Begins
    <3> QED BY <3>1
  <2> QED BY <1>1, <2>1, <2>2 DEF CvdInv
<1>12. ASSUME NEW h \in Handlers, StoreAverage(h) PROVE algo = "adaptive"
  <2>1. pc[h] = "average"
    BY <1>12 DEF StoreAverage, Goto
  <2> QED BY <2>1 DEF CoreInv, Located, MayBe
<1>13. ASSUME NEW h \in Handlers, LoadFill(h) \/ StoreExecuted(h) \/ StoreAverage(h)
       PROVE  CvdInv'
  BY <1>3, <1>12, <1>13 DEF LoadFill, StoreExecuted, StoreAverage, adaptiveVars
<1>14. CASE PlaceAdaptive
  BY <1>4, <1>14 DEF PlaceAdaptive, Place, adaptiveVars
<1> QED BY <1>5, <1>8, <1>9, <1>10, <1>11, <1>13, <1>14
      DEF Adaptives, AdaptiveNext, AdaptiveStep
(* The reserve stays above zero, and the manager counts the order.         *)
LEMMA ReserveInvStep ==
    ASSUME CoreInv, AtMostOne, ReserveInv, Reserves(ReserveNext)
    PROVE  ReserveInv'
<1>1. ChildTypes /\ DeskTypes /\ algo \in {"reserve", "discretionary"} /\ algo' = algo
  BY StepsBelong DEF CoreInv, DeskTypes
<1>2. reserve \in Int /\ Remaining \in Int /\ Display \in Int /\ activeCount \in Int
      /\ \A h \in Handlers : held[h] \in Int /\ qty[h] \in Int
  BY <1>1, SizesAreIntegers, ReserveAssumption DEF DeskTypes, ChildTypes, AlgoTypes
<1>3. ASSUME NEW h \in Handlers, NEW from, NEW to, Goto(h, from, to), from # "idle",
             overlapped' = overlapped,
             ~overlapped => reserve' >= 0 /\ (to = "sub reserve" => held'[h] <= reserve'),
             isActive' => activeCount' = 1
      PROVE  ReserveInv'
  <2>1. ASSUME ~overlapped'
        PROVE  \A k \in Handlers : pc'[k] = "sub reserve" => held'[k] <= reserve'
    <3>1. ~overlapped /\ ChildTypes /\ Goto(h, from, to) /\ from # "idle"
      BY <1>1, <1>3, <2>1
    <3>2. pc'[h] = to /\ \A k \in Handlers \ {h} : pc'[k] = "idle"
      BY <3>1, Alone
    <3> QED BY <1>3, <3>1, <3>2
  <2> QED BY <1>3, <2>1 DEF ReserveInv
<1>4. ~overlapped => reserve >= 0
  BY <1>1 DEF ReserveInv
<1>5. isActive => activeCount = 1
  BY DEF ReserveInv
<1>6. CASE PlaceReserve \/ SetReserveEnabled
  <2>1. UNCHANGED <<algo, pc, held, overlapped, reserve, isActive, activeCount>>
    BY <1>6 DEF PlaceReserve, SetReserveEnabled, Place, childVars, reserveVars
  <2> QED BY <2>1 DEF ReserveInv
<1>7. CASE CancelReserve
  <2>1. UNCHANGED <<algo, pc, held, overlapped, reserve>> /\ isActive' = FALSE
    BY <1>7 DEF CancelReserve, childVars
  <2> QED BY <2>1 DEF ReserveInv
<1>8. ASSUME NEW h \in Handlers, DropFill(h) PROVE ReserveInv'
  <2>1. Goto(h, "report", "idle") /\ UNCHANGED <<overlapped, reserve, isActive, activeCount>>
    BY <1>8 DEF DropFill
  <2> QED BY <1>3, <1>4, <1>5, <2>1
<1>9. ASSUME NEW h \in Handlers, ProcessFill(h) PROVE ReserveInv'
  <2> DEFINE actual == Min({qty[h], Remaining})
             left == Remaining - actual
             shown == Min({Display - left, reserve})
  <2>1. actual \in Int
    BY <1>2, MinOfTwo
  <2>2. shown \in Int /\ shown <= reserve
    <3> HIDE DEF actual
    <3>1. Display - left \in Int
      BY <1>2, <2>1
    <3> HIDE DEF left
    <3> QED BY <1>2, <3>1, MinOfTwo
  <2>3. /\ Goto(h, "report", "idle") /\ overlapped' = overlapped /\ isActive
        /\ reserve' = reserve - Max({0, shown})
        /\ isActive' = (left > 0)
        /\ activeCount' = IF left > 0 THEN activeCount ELSE activeCount - 1
    BY <1>9 DEF ProcessFill, Ignores
  <2> HIDE DEF actual, left, shown
  <2>4. isActive' => activeCount' = 1
    BY <1>5, <2>3
  <2>5. Max({0, shown}) = IF 0 >= shown THEN 0 ELSE shown
    BY <2>2, MaxOfTwo
  <2>6. ~overlapped => reserve' >= 0
    BY <1>2, <1>4, <2>2, <2>3, <2>5
  <2> QED BY <1>3, <2>3, <2>4, <2>6
<1>10. ASSUME NEW h \in Handlers, LoadRemaining(h) PROVE ReserveInv'
  <2>1. Goto(h, "report", "take") /\ UNCHANGED <<overlapped, reserve, isActive, activeCount>>
    BY <1>10 DEF LoadRemaining, reserveVars
  <2> QED BY <1>3, <1>4, <1>5, <2>1
<1>11. ASSUME NEW h \in Handlers, TakeFromRemaining(h) PROVE ReserveInv'
  <2> DEFINE to == IF Display > LeftAfter(h) THEN "load reserve" ELSE "idle"
  <2>1. Goto(h, "take", to) /\ UNCHANGED <<overlapped, reserve, isActive, activeCount>>
    BY <1>11 DEF TakeFromRemaining, reserveVars
  <2>2. to # "sub reserve"
    OBVIOUS
  <2> HIDE DEF to
  <2> QED BY <1>3, <1>4, <1>5, <2>1, <2>2
<1>12. ASSUME NEW h \in Handlers, LoadReserve(h) PROVE ReserveInv'
  <2> DEFINE x == Min({Display - LeftAfter(h), reserve})
  <2>1. Goto(h, "load reserve", "sub reserve") /\ held' = [held EXCEPT ![h] = x]
        /\ UNCHANGED <<overlapped, reserve, isActive, activeCount>>
    BY <1>12 DEF LoadReserve, reserveVars
  <2>2. x <= reserve
    <3>1. Min({qty[h], held[h]}) \in Int
      BY <1>2, MinOfTwo
    <3>2. Display - LeftAfter(h) \in Int
      BY <1>2, <3>1 DEF LeftAfter
    <3> QED BY <1>2, <3>2, MinOfTwo
  <2> HIDE DEF x
  <2>3. held'[h] = x
    BY <1>1, <2>1 DEF ChildTypes
  <2> QED BY <1>3, <1>4, <1>5, <2>1, <2>2, <2>3
<1>13. ASSUME NEW h \in Handlers, SubReserve(h) PROVE ReserveInv'
  <2>1. Goto(h, "sub reserve", "idle") /\ reserve' = reserve - held[h]
        /\ UNCHANGED <<overlapped, isActive, activeCount>>
    BY <1>13 DEF SubReserve
  <2>2. ~overlapped => held[h] <= reserve
    BY <1>1, <2>1 DEF ReserveInv, Goto
  <2>3. ~overlapped => reserve' >= 0
    <3>1. held[h] \in Int
      BY <1>2
    <3>2. reserve' = reserve - held[h]
      BY <2>1
    <3> QED BY <1>2, <2>2, <3>1, <3>2
  <2> QED BY <1>3, <1>5, <2>1, <2>3
<1> QED BY <1>6, <1>7, <1>8, <1>9, <1>10, <1>11, <1>12, <1>13
      DEF Reserves, ReserveNext, ReserveStep

(* A fill that begins without overlap keeps the books.                     *)
LEMMA VenueInvStep ==
    ASSUME CoreInv, BooksInv, VenueNext
    PROVE  IcebergInv' /\ AdaptiveInv' /\ CvdInv' /\ ReserveInv'
<1>1. PICK h \in Handlers : VenueFills(h)
  BY DEF VenueNext
<1>2. PICK q \in 1 .. working :
        /\ Goto(h, "idle", "report")
        /\ qty' = [qty EXCEPT ![h] = q]
        /\ working' = working - q
        /\ filled' = filled + q
        /\ overlapped' = (overlapped \/ ~Quiet)
        /\ UNCHANGED <<algo, executed, held>>
  BY <1>1 DEF VenueFills
<1>3. ChildTypes /\ AtMostOne
  BY DEF CoreInv, DeskTypes, BooksInv
<1>4. UNCHANGED <<hidden, clip, average, heldAvg, paid, volume, cvd, reserve, isActive,
                  activeCount>>
  BY DEF VenueNext, algoVars, icebergVars, adaptiveVars, reserveVars
<1>5. q \in Nat /\ working \in Nat /\ filled \in Nat /\ qty'[h] = q
  BY <1>2, <1>3 DEF ChildTypes
<1>6. ASSUME ~overlapped'
      PROVE  /\ ~overlapped /\ Quiet /\ ~Quiet' /\ pc'[h] = "report"
             /\ \A k \in Handlers \ {h} : pc'[k] = "idle"
  BY <1>2, <1>3, <1>6, Begins
<1>7. IcebergInv'
  <2>1. ASSUME algo \in {"iceberg", "plain"}, ~overlapped'
        PROVE  hidden' >= 0 /\ ~Quiet' /\ \A k \in Handlers : IcebergAt(k)'
    <3>1. hidden >= 0 /\ Covers(clip)
      BY <1>6, <2>1 DEF BooksInv, IcebergInv
    <3>2. Covers(clip)'
      BY <1>2, <1>4, <3>1 DEF Covers, Remaining
    <3>3. \A k \in Handlers : IcebergAt(k)'
      BY <1>6, <2>1, <3>2 DEF IcebergAt
    <3> QED BY <1>4, <1>6, <2>1, <3>1, <3>3
  <2> QED BY <1>2, <2>1 DEF IcebergInv
<1>8. AdaptiveInv'
  <2>1. ASSUME algo = "adaptive", ~overlapped'
        PROVE  working' + filled' <= Quantity /\ ~Quiet' /\ \A k \in Handlers : AdaptiveAt(k)'
    <3>1. executed = filled /\ average = Paid(filled) /\ working + filled <= Quantity
      BY <1>6, <2>1 DEF BooksInv, AdaptiveInv
    <3>2. working' + filled' <= Quantity
      <4>1. working' + filled' = working + filled
        BY <1>2, <1>5
      <4> QED BY <3>1, <4>1
    <3>3. executed' = filled' - qty'[h]
      BY <1>2, <1>5, <3>1
    <3>4. average' = Paid(executed)'
      BY <1>2, <1>4, <3>1 DEF Paid
    <3>5. \A k \in Handlers : AdaptiveAt(k)'
      BY <1>6, <2>1, <3>3, <3>4 DEF AdaptiveAt
    <3> QED BY <1>6, <2>1, <3>2, <3>5
  <2> QED BY <1>2, <2>1 DEF AdaptiveInv
<1>9. CvdInv'
  <2>1. algo # "cvd"
    BY <1>2, <1>5 DEF CoreInv, Located
  <2> QED BY <1>2, <1>4, <2>1 DEF BooksInv, CvdInv, Delta
<1>10. ReserveInv'
  <2>1. ~overlapped' => \A k \in Handlers : pc'[k] # "sub reserve"
    BY <1>6
  <2>2. ~overlapped' => ~overlapped
    BY <1>6
  <2> QED BY <1>2, <1>4, <2>1, <2>2 DEF BooksInv, ReserveInv
<1> QED BY <1>7, <1>8, <1>9, <1>10

(* Every step of the desk keeps the books of its algorithm.                *)
LEMMA BooksStep ==
    ASSUME CoreInv, BooksInv, [DeskNext]_deskVars
    PROVE  BooksInv'
<1>1. CASE UNCHANGED <<childVars, icebergVars, adaptiveVars, reserveVars>>
  <2>1. UNCHANGED <<algo, working, filled, executed, pc, qty, held, overlapped, hidden, clip,
                    average, heldAvg, paid, volume, cvd, reserve, isActive, activeCount>>
    BY <1>1 DEF childVars, icebergVars, adaptiveVars, reserveVars
  <2>2. AtMostOne' = AtMostOne /\ ReserveInv' = ReserveInv
    BY <2>1 DEF AtMostOne, ReserveInv
  <2>3. IcebergInv' = IcebergInv
    BY <2>1 DEF IcebergInv, Quiet, Covers, Remaining, IcebergAt
  <2>4. AdaptiveInv' = AdaptiveInv
    BY <2>1 DEF AdaptiveInv, Quiet, Paid, AdaptiveAt
  <2>5. CvdInv' = CvdInv
    BY <2>1 DEF CvdInv, Quiet, Delta
  <2> QED BY <2>2, <2>3, <2>4, <2>5 DEF BooksInv
<1>2. CASE DeskNext
  <2>1. ChildTypes /\ Located /\ AtMostOne
    BY DEF CoreInv, DeskTypes, BooksInv
  <2>2. AtMostOne'
    BY <1>2, <2>1, AtMostOneStep
  <2>3. CASE VenueNext
    BY <2>2, <2>3, VenueInvStep DEF BooksInv
  <2>4. ASSUME UNCHANGED reserveVars, algo' \notin {"reserve", "discretionary"}
        PROVE  ReserveInv'
    <3>1. isActive' => activeCount' = 1
      BY <2>4 DEF BooksInv, ReserveInv, reserveVars
    <3> QED BY <2>4, <3>1 DEF ReserveInv
  <2>5. CASE Icebergs(IcebergNext)
    <3>1. algo' \in {"iceberg", "plain"} /\ UNCHANGED reserveVars
      BY <2>1, <2>5, StepsBelong DEF Icebergs
    <3>2. AdaptiveInv' /\ CvdInv' /\ ReserveInv'
      BY <2>4, <3>1 DEF AdaptiveInv, CvdInv
    <3> QED BY <2>2, <2>5, <3>2, IcebergInvStep DEF BooksInv
  <2>6. CASE Slices(SliceNext)
    <3>1. algo' \in {"twap", "vwap"} /\ UNCHANGED reserveVars
      BY <2>1, <2>6, StepsBelong DEF Slices
    <3> QED BY <2>2, <2>4, <3>1 DEF BooksInv, IcebergInv, AdaptiveInv, CvdInv
  <2>7. CASE Adaptives(AdaptiveNext)
    <3>1. algo' \in {"adaptive", "cvd"} /\ UNCHANGED reserveVars
      BY <2>1, <2>7, StepsBelong DEF Adaptives
    <3>2. IcebergInv' /\ ReserveInv'
      BY <2>4, <3>1 DEF IcebergInv
    <3> QED BY <2>2, <2>7, <3>2, AdaptiveInvStep, CvdInvStep DEF BooksInv
  <2>8. CASE Reserves(ReserveNext)
    <3>1. algo' \in {"reserve", "discretionary"}
      BY <2>1, <2>8, StepsBelong
    <3>2. IcebergInv' /\ AdaptiveInv' /\ CvdInv'
      BY <3>1 DEF IcebergInv, AdaptiveInv, CvdInv
    <3> QED BY <2>2, <2>8, <3>2, ReserveInvStep DEF BooksInv
  <2>9. CASE Pegging
    BY <1>1, <2>9 DEF Pegging
  <2> QED BY <1>2, <2>3, <2>5, <2>6, <2>7, <2>8, <2>9 DEF DeskNext
<1>3. CASE UNCHANGED deskVars
  BY <1>1, <1>3 DEF deskVars, algoVars
<1> QED BY <1>2, <1>3

(* The books agree before the first child order.                           *)
LEMMA BooksInit ==
    ASSUME DeskInit
    PROVE  BooksInv
<1>1. \A h \in Handlers : pc[h] = "idle"
  BY DEF DeskInit, ChildInit
<1>2. working = 0 /\ filled = 0 /\ executed = 0
  BY DEF DeskInit, ChildInit
<1>3. IcebergInv
  <2>1. Quantity - InitialVisible \in Int /\ Quantity \in Int /\ InitialVisible \in Int
    BY ChildAssumption, IcebergAssumption
  <2>2. Max({Quantity - InitialVisible, 0})
          = IF Quantity - InitialVisible >= 0 THEN Quantity - InitialVisible ELSE 0
    BY <2>1, MaxOfTwo
  <2>3. hidden >= 0 /\ hidden + clip >= Quantity - 0
    BY <2>1, <2>2 DEF DeskInit, IcebergInit
  <2>4. Covers(clip)
    BY <1>2, <2>3 DEF Covers, Remaining
  <2>5. \A h \in Handlers : IcebergAt(h)
    BY <1>1 DEF IcebergAt
  <2> QED BY <2>3, <2>4, <2>5 DEF IcebergInv
<1>4. AdaptiveInv
  <2>1. average = Paid(filled)
    BY <1>2 DEF DeskInit, AdaptiveInit, NoAverage, Paid
  <2>2. \A h \in Handlers : AdaptiveAt(h)
    BY <1>1 DEF AdaptiveAt
  <2>3. working + filled <= Quantity
    BY <1>2, ChildAssumption
  <2> QED BY <1>2, <2>1, <2>2, <2>3 DEF AdaptiveInv
<1>5. CvdInv
  <2>1. cvd = 0 /\ Delta = 0
    BY DEF DeskInit, AdaptiveInit, Delta, Sides
  <2> QED BY <1>1, <2>1 DEF CvdInv
<1>6. ReserveInv
  <2>1. Quantity - Display \in Int
    BY ChildAssumption, ReserveAssumption
  <2>2. reserve >= 0
    BY <2>1, MaxOfTwo DEF DeskInit, ReserveInit
  <2>3. activeCount = 1
    BY DEF DeskInit, ReserveInit
  <2> QED BY <1>1, <2>2, <2>3 DEF ReserveInv
<1>7. AtMostOne
  BY <1>1 DEF AtMostOne
<1> QED BY <1>3, <1>4, <1>5, <1>6, <1>7 DEF BooksInv

(* As long as no two fills were recorded at once the books of every        *)
(* algorithm agree with the fills, and never is more filled than was asked *)
(* for, but what the manager of reserve orders ignored.                    *)
THEOREM BooksAgree == DeskSpec => []BooksAgreeUnlessOverlapped
<1>1. CoreInv /\ BooksInv /\ [DeskNext]_deskVars => BooksInv'
  BY BooksStep
<1>2. DeskInit => BooksInv
  BY BooksInit
<1>3. ASSUME CoreInv, BooksInv PROVE BooksAgreeUnlessOverlapped
  <2>1. ChildTypes /\ (algo \in Accounted => Accounts)
    BY <1>3 DEF CoreInv, DeskTypes
  <2>2. working \in Nat /\ filled \in Int /\ Quantity \in Int /\ dropped \in Nat
    BY <2>1, ChildAssumption DEF ChildTypes
  <2>3. IcebergBooks
    BY <1>3 DEF BooksInv, IcebergInv, IcebergBooks, Covers
  <2>4. AdaptiveBooks
    BY <1>3 DEF BooksInv, AdaptiveInv, CvdInv, AdaptiveBooks, Paid, Delta
  <2>5. ReserveBooks
    <3>1. algo = "reserve" /\ Quiet => filled = executed + dropped
      BY <2>1, QuietIsAccounted DEF Accounted
    <3> QED BY <1>3, <3>1 DEF BooksInv, ReserveInv, ReserveBooks
  <2>6. algo \in Accounted => filled <= Quantity + dropped
    <3>1. algo \in Accounted => working + filled <= Quantity + dropped
      BY <2>1 DEF Accounts
    <3> QED BY <2>2, <3>1
  <2>7. algo \in Exact => filled <= Quantity
    <3>1. algo \in Exact => dropped = 0 /\ algo \in Accounted
      BY <2>1 DEF Accounts, Accounted, Exact
    <3> QED BY <2>2, <2>6, <3>1
  <2>8. algo = "adaptive" /\ ~overlapped => filled <= Quantity
    <3>1. algo = "adaptive" /\ ~overlapped => working + filled <= Quantity
      BY <1>3 DEF BooksInv, AdaptiveInv
    <3> QED BY <2>2, <3>1
  <2>9. algo = "reserve" => filled <= Quantity + dropped
    BY <2>6 DEF Accounted
  <2> QED BY <2>3, <2>4, <2>5, <2>7, <2>8, <2>9 DEF BooksAgreeUnlessOverlapped
<1>4. DeskSpec => []CoreInv
  BY AccountsAreExact
<1> QED BY <1>1, <1>2, <1>3, <1>4, PTL DEF DeskSpec
=============================================================================
