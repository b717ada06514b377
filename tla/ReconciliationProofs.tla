------------------------ MODULE ReconciliationProofs ------------------------
(***************************************************************************)
(* Theorems about the order manager and the reconciliation daemon, for any *)
(* number of orders of any size, any faults and any length of history.     *)
(***************************************************************************)
EXTENDS Reconciliation, FiniteSetTheorems, SequenceTheorems, TLAPS

(* What the local picture of an order may be; a repeated report is counted *)
(* again, so its fills have no bound.                                      *)
LocalStates == [status : Open \cup Ended \cup {"none"}, filled : 0 .. Quantity, fills : Nat]

TrackTypeInv ==
    /\ exchange \in [Orders -> States]
    /\ stream \in Seq(Reports)
    /\ sent \subseteq Reports
    /\ local \in [Orders -> LocalStates]
    /\ faults \in Nat

(* An order on the exchange moves from nothing through open to an end.     *)
ExchangeInv ==
    \A o \in Orders :
        /\ exchange[o].status = "none" => exchange[o].filled = 0 /\ exchange[o].fills = 0
        /\ exchange[o].status \in Open => exchange[o].filled < Quantity
        /\ exchange[o].fills = exchange[o].filled
        /\ exchange[o].status # "none" => o \in submitted

(* Whoever believes this of an order is not ahead of the exchange.         *)
NotAhead(o, state) ==
    /\ state.filled <= exchange[o].filled
    /\ state.status \in Ended => exchange[o].status = state.status

AheadInv ==
    /\ \A r \in sent : NotAhead(r.order, r)
    /\ \A i \in DOMAIN stream : stream[i] \in sent
    /\ \A o \in Orders : NotAhead(o, local[o])

Reported(o) == \E i \in DOMAIN stream : stream[i].order = o

(* Position i of the stream holds the last report of its order.            *)
IsLast(i) == \A j \in DOMAIN stream : j > i => stream[j].order # stream[i].order

ExactlyTracked(o) ==
    /\ local[o].status # "none" =>
          local[o].fills + Cardinality(OnTheWay(o)) = exchange[o].fills
    /\ ~ Reported(o) /\ o \notin pending /\ local[o].status # "none" =>
          local[o].status = exchange[o].status /\ local[o].filled = exchange[o].filled
    /\ Reported(o) => exchange[o].status # "none" /\ local[o].status \notin Ended \cup {"none"}
    /\ local[o].status = "none" => o \notin submitted \/ exchange[o].status \in Ended

ReportsInOrder ==
    \A i \in DOMAIN stream :
        /\ IsLast(i) => stream[i].status = exchange[stream[i].order].status
                        /\ stream[i].filled = exchange[stream[i].order].filled
        /\ ~ IsLast(i) => stream[i].status \notin Ended

ExactInv ==
    faults = 0 => active /\ ReportsInOrder /\ \A o \in Orders : ExactlyTracked(o)

TrackIInv == TrackTypeInv /\ ExchangeInv /\ AheadInv /\ ExactInv
-----------------------------------------------------------------------------
(* The trades of an order in a sequence of reports.                        *)
Trades(s, o) == {i \in DOMAIN s : s[i].order = o /\ s[i].traded}

(* A stream holds finitely many trades.                                    *)
LEMMA TradesFinite ==
    ASSUME NEW s \in Seq(Reports), NEW o
    PROVE  IsFiniteSet(Trades(s, o)) /\ Cardinality(Trades(s, o)) \in Nat
  <1>1. PICK n \in Nat : Len(s) = n /\ DOMAIN s = 1 .. n
    BY LenProperties
  <1>2. Trades(s, o) \subseteq 1 .. n
    BY <1>1 DEF Trades
  <1>3. IsFiniteSet(1 .. n)
    BY FS_Interval
  <1>4. IsFiniteSet(Trades(s, o))
    BY <1>2, <1>3, FS_Subset
  <1> QED  BY <1>4, FS_CardinalityType

(* A report that is sent adds one trade or none.                           *)
LEMMA TradesOfAppend ==
    ASSUME NEW s \in Seq(Reports), NEW r \in Reports, NEW o
    PROVE  Cardinality(Trades(Append(s, r), o)) =
              IF r.order = o /\ r.traded THEN Cardinality(Trades(s, o)) + 1
                                         ELSE Cardinality(Trades(s, o))
  <1>1. PICK n \in Nat : Len(s) = n /\ DOMAIN s = 1 .. n
    BY LenProperties
  <1> DEFINE a == Append(s, r)
  <1>2. DOMAIN a = 1 .. (n + 1) /\ a[n + 1] = r /\ \A i \in 1 .. n : a[i] = s[i]
    BY <1>1, AppendProperties
  <1> HIDE DEF a
  <1>3. CASE r.order = o /\ r.traded
    <2>1. Trades(a, o) = Trades(s, o) \cup {n + 1}
      BY <1>1, <1>2, <1>3 DEF Trades
    <2>2. n + 1 \notin Trades(s, o)
      BY <1>1 DEF Trades
    <2>3. IsFiniteSet(Trades(s, o))
      BY TradesFinite
    <2>4. Cardinality(Trades(s, o) \cup {n + 1}) = Cardinality(Trades(s, o)) + 1
      BY <2>2, <2>3, FS_AddElement
    <2> QED  BY <2>1, <2>4, <1>3 DEF a
  <1>4. CASE ~ (r.order = o /\ r.traded)
    <2>1. Trades(a, o) = Trades(s, o)
      BY <1>1, <1>2, <1>4 DEF Trades
    <2> QED  BY <2>1, <1>4 DEF a
  <1> QED  BY <1>3, <1>4

(* A report that is read takes its trade with it.                          *)
LEMMA TradesOfTail ==
    ASSUME NEW s \in Seq(Reports), s # <<>>, NEW o
    PROVE  Cardinality(Trades(s, o)) =
              IF Head(s).order = o /\ Head(s).traded THEN Cardinality(Trades(Tail(s), o)) + 1
                                                     ELSE Cardinality(Trades(Tail(s), o))
  <1>1. PICK n \in Nat : n >= 1 /\ Len(s) = n /\ DOMAIN s = 1 .. n
    BY LenProperties, EmptySeq
  <1> DEFINE t == Tail(s)
             later == Trades(s, o) \ {1}
  <1>2. /\ DOMAIN t = 1 .. (n - 1) /\ Head(s) = s[1] /\ t \in Seq(Reports)
        /\ \A i \in 1 .. (n - 1) : t[i] = s[i + 1]
    BY <1>1, HeadTailProperties, LenProperties
  <1> DEFINE f == [i \in Trades(t, o) |-> i + 1]
  <1>3. f \in [Trades(t, o) -> later]
    BY <1>1, <1>2 DEF Trades
  <1>4. \A i, j \in Trades(t, o) : f[i] = f[j] => i = j
    BY <1>2 DEF Trades
  <1>5. \A k \in later : \E i \in Trades(t, o) : f[i] = k
    <2> SUFFICES ASSUME NEW k \in later PROVE \E i \in Trades(t, o) : f[i] = k
      OBVIOUS
    <2>1. k - 1 \in Trades(t, o)
      BY <1>1, <1>2 DEF Trades
    <2>2. f[k - 1] = k
      BY <2>1, <1>1, <1>2 DEF Trades
    <2> QED  BY <2>1, <2>2
  <1> HIDE DEF f
  <1>6. f \in Bijection(Trades(t, o), later)
    BY <1>3, <1>4, <1>5 DEF Bijection, Injection, Surjection, IsInjective
  <1>7. IsFiniteSet(Trades(t, o)) /\ IsFiniteSet(Trades(s, o))
    BY <1>2, TradesFinite
  <1>8. Cardinality(later) = Cardinality(Trades(t, o))
    BY <1>6, <1>7, FS_Bijection DEF ExistsBijection
  <1>9. Cardinality(later) = IF 1 \in Trades(s, o) THEN Cardinality(Trades(s, o)) - 1
                             ELSE Cardinality(Trades(s, o))
    BY <1>7, FS_RemoveElement
  <1>10. 1 \in Trades(s, o) <=> Head(s).order = o /\ Head(s).traded
    BY <1>1, <1>2 DEF Trades
  <1>11. Cardinality(Trades(s, o)) \in Nat
    BY TradesFinite
  <1> QED  BY <1>8, <1>9, <1>10, <1>11
-----------------------------------------------------------------------------
(* Every move of the exchange adds one trade or none, and goes forward.    *)
GoodMove(o, state, traded) ==
    /\ state \in States /\ state.status # "none" /\ o \in submitted
    /\ exchange[o].status \notin Ended
    /\ traded => exchange[o].status # "none"
    /\ state.filled = exchange[o].filled + (IF traded THEN 1 ELSE 0)
    /\ state.fills = state.filled
    /\ state.status \in Open => state.filled < Quantity

(* Accepting, trading and ending an order are such moves.                  *)
LEMMA MovesAreGood ==
    ASSUME TrackIInv, Exchange
    PROVE  \E o \in Orders, state \in States, traded \in BOOLEAN :
              GoodMove(o, state, traded) /\ Moved(o, state, traded)
  <1>1. PICK o \in Orders : ExchangeAccepts(o) \/ ExchangeTrades(o) \/ ExchangeEnds(o)
    BY DEF Exchange
  <1>2. /\ exchange[o] \in States /\ exchange[o].status \in Open \cup Ended \cup {"none"}
        /\ exchange[o].filled \in 0 .. Quantity /\ exchange[o].fills \in 0 .. Quantity
        /\ exchange[o] = [status |-> exchange[o].status, filled |-> exchange[o].filled,
                          fills |-> exchange[o].fills]
    BY DEF TrackIInv, TrackTypeInv, States
  <1>3. /\ exchange[o].status = "none" => exchange[o].filled = 0 /\ exchange[o].fills = 0
        /\ exchange[o].status \in Open => exchange[o].filled < Quantity
        /\ exchange[o].fills = exchange[o].filled
        /\ exchange[o].status # "none" => o \in submitted
    BY DEF TrackIInv, ExchangeInv
  <1>4. Quantity \in Nat /\ Quantity > 0
    BY OrderTrackingAssumption
  <1>5. CASE ExchangeAccepts(o)
    <2>1. PICK s \in {"new", "rejected"} : Moved(o, [Unknown EXCEPT !.status = s], FALSE)
      BY <1>5 DEF ExchangeAccepts
    <2> DEFINE state == [status |-> s, filled |-> 0, fills |-> 0]
    <2>2. state = [Unknown EXCEPT !.status = s]
      BY DEF Unknown
    <2>3. state \in States
      BY <1>4 DEF States, Open, Ended
    <2>4. GoodMove(o, state, FALSE)
      BY <1>2, <1>3, <1>4, <1>5, <2>3 DEF ExchangeAccepts, GoodMove, Open, Ended
    <2> QED  BY <2>1, <2>2, <2>3, <2>4
  <1>6. CASE ExchangeTrades(o)
    <2> DEFINE n == exchange[o].filled + 1
               state == [status |-> IF n = Quantity THEN "filled" ELSE "partial",
                         filled |-> n, fills |-> n]
    <2>1. Moved(o, state, TRUE) /\ exchange[o].status \in Open
      BY <1>6 DEF ExchangeTrades
    <2>2. n \in 0 .. Quantity
      BY <2>1, <1>2, <1>3, <1>4
    <2>3. state \in States
      BY <2>2 DEF States, Open, Ended
    <2>4. GoodMove(o, state, TRUE)
      BY <1>2, <1>3, <1>4, <2>1, <2>2, <2>3 DEF GoodMove, Open, Ended
    <2> QED  BY <2>1, <2>3, <2>4
  <1>7. CASE ExchangeEnds(o)
    <2>1. PICK s \in {"canceled", "expired"} :
             Moved(o, [exchange[o] EXCEPT !.status = s], FALSE)
      BY <1>7 DEF ExchangeEnds
    <2> DEFINE state == [status |-> s, filled |-> exchange[o].filled, fills |-> exchange[o].fills]
    <2>2. state = [exchange[o] EXCEPT !.status = s]
      BY <1>2
    <2>3. state \in States
      BY <1>2 DEF States, Open, Ended
    <2>4. GoodMove(o, state, FALSE)
      BY <1>2, <1>3, <1>4, <1>7, <2>3 DEF ExchangeEnds, GoodMove, Open, Ended
    <2> QED  BY <2>1, <2>2, <2>3, <2>4
  <1> QED  BY <1>1, <1>5, <1>6, <1>7

-----------------------------------------------------------------------------
(* Nothing is known of any order at first.                                 *)
LEMMA TrackInit ==
    ASSUME Init PROVE TrackIInv
  <1>1. Quantity \in Nat /\ Unknown \in States /\ Unknown \in LocalStates
    BY OrderTrackingAssumption DEF Unknown, States, LocalStates
  <1>2. /\ \A o \in Orders : exchange[o] = Unknown /\ local[o] = Unknown
        /\ exchange \in [Orders -> States] /\ local \in [Orders -> LocalStates]
    BY <1>1 DEF Init
  <1>3. stream = <<>> /\ DOMAIN stream = {} /\ sent = {} /\ submitted = {} /\ faults = 0 /\ active
    BY DEF Init
  <1>4. TrackTypeInv
    BY <1>2, <1>3, EmptySeq DEF TrackTypeInv
  <1>5. ExchangeInv
    BY <1>2 DEF ExchangeInv, Unknown, Open
  <1>6. AheadInv
    BY <1>2, <1>3 DEF AheadInv, NotAhead, Unknown, Ended
  <1>7. \A o \in Orders : OnTheWay(o) = {}
    BY <1>3 DEF OnTheWay
  <1>8. ExactInv
    BY <1>2, <1>3, <1>7, FS_EmptySet DEF ExactInv, ReportsInOrder, ExactlyTracked, Reported, Unknown, Ended
  <1> QED  BY <1>4, <1>5, <1>6, <1>8 DEF TrackIInv
-----------------------------------------------------------------------------
(* The report of a move says what the exchange's order becomes.            *)
Told(o, state, traded) ==
    [order |-> o, status |-> state.status, filled |-> state.filled, traded |-> traded]

(* What a move changes, and that its report is one.                        *)
LEMMA MoveFacts ==
    ASSUME TrackIInv, NEW o \in Orders, NEW state \in States, NEW traded \in BOOLEAN,
           GoodMove(o, state, traded), Moved(o, state, traded)
    PROVE  /\ exchange' = [exchange EXCEPT ![o] = state]
           /\ exchange'[o] = state /\ \A p \in Orders \ {o} : exchange'[p] = exchange[p]
           /\ stream' = Append(stream, Told(o, state, traded))
           /\ sent' = sent \cup {Told(o, state, traded)}
           /\ Told(o, state, traded) \in Reports
           /\ UNCHANGED <<submitted, scenario, faults, manager>>
  <1>1. state.status \in Open \cup Ended /\ state.filled \in 0 .. Quantity
    BY DEF GoodMove, States
  <1>2. Told(o, state, traded) \in Reports
    BY <1>1 DEF Told, Reports
  <1> QED  BY <1>2 DEF Moved, Told, TrackIInv, TrackTypeInv

(* Moves only go forward, so nobody who was not ahead gets ahead.          *)
LEMMA StillNotAhead ==
    ASSUME TrackIInv, NEW o \in Orders, NEW state \in States, NEW traded \in BOOLEAN,
           GoodMove(o, state, traded), Moved(o, state, traded),
           NEW p \in Orders, NEW b, b.filled \in Nat, NotAhead(p, b)
    PROVE  NotAhead(p, b)'
  <1>1. exchange'[o] = state /\ \A q \in Orders \ {o} : exchange'[q] = exchange[q]
    BY MoveFacts
  <1>2. exchange[o].filled \in Nat /\ state.filled \in Nat
    BY OrderTrackingAssumption DEF TrackIInv, TrackTypeInv, States
  <1>3. exchange[o].filled <= state.filled /\ exchange[o].status \notin Ended
    BY <1>2 DEF GoodMove
  <1>4. CASE p = o
    <2>1. b.filled <= exchange[o].filled /\ b.status \notin Ended
      BY <1>3, <1>4 DEF NotAhead
    <2>2. b.filled <= state.filled
      BY <2>1, <1>2, <1>3
    <2> QED  BY <2>1, <2>2, <1>1, <1>4 DEF NotAhead
  <1>5. CASE p # o
    BY <1>1, <1>5 DEF NotAhead
  <1> QED  BY <1>4, <1>5

(* The fields of reports and of local states have their types.             *)
LEMMA ReportFields ==
    ASSUME TrackIInv
    PROVE  /\ \A r \in sent : r.order \in Orders /\ r.filled \in Nat
           /\ \A i \in DOMAIN stream : stream[i] \in Reports /\ stream[i].order \in Orders
           /\ \A o \in Orders : local[o].filled \in Nat
  <1>1. \A r \in Reports : r.order \in Orders /\ r.filled \in Nat
    BY OrderTrackingAssumption DEF Reports
  <1>2. \A i \in DOMAIN stream : stream[i] \in Reports
    BY LenProperties DEF TrackIInv, TrackTypeInv
  <1>3. \A o \in Orders : local[o].filled \in Nat
    BY OrderTrackingAssumption DEF TrackIInv, TrackTypeInv, LocalStates
  <1> QED  BY <1>1, <1>2, <1>3 DEF TrackIInv, TrackTypeInv

(* A move of the exchange leaves everybody behind it.                      *)
LEMMA MoveKeepsAhead ==
    ASSUME TrackIInv, NEW o \in Orders, NEW state \in States, NEW traded \in BOOLEAN,
           GoodMove(o, state, traded), Moved(o, state, traded)
    PROVE  TrackTypeInv' /\ ExchangeInv' /\ AheadInv'
  <1> DEFINE r == Told(o, state, traded)
  <1>1. /\ exchange' = [exchange EXCEPT ![o] = state]
        /\ exchange'[o] = state /\ \A p \in Orders \ {o} : exchange'[p] = exchange[p]
        /\ stream' = Append(stream, r) /\ sent' = sent \cup {r} /\ r \in Reports
        /\ UNCHANGED <<submitted, scenario, faults, manager>>
    BY MoveFacts
  <1>2. stream \in Seq(Reports) /\ exchange \in [Orders -> States]
    BY DEF TrackIInv, TrackTypeInv
  <1>3. TrackTypeInv'
    <2>1. stream' \in Seq(Reports)
      BY <1>1, <1>2, AppendProperties
    <2>2. exchange' \in [Orders -> States]
      BY <1>1, <1>2
    <2> QED  BY <2>1, <2>2, <1>1 DEF TrackIInv, TrackTypeInv, manager
  <1>4. ExchangeInv'
    <2>1. /\ state.status # "none" /\ o \in submitted /\ state.fills = state.filled
          /\ state.status \in Open => state.filled < Quantity
      BY DEF GoodMove
    <2> QED  BY <2>1, <1>1 DEF TrackIInv, ExchangeInv
  <1>5. NotAhead(o, r)'
    <2>1. state.filled <= state.filled
      BY OrderTrackingAssumption DEF States
    <2> QED  BY <1>1, <2>1 DEF NotAhead, Told
  <1>6. AheadInv'
    <2>1. \A q \in sent' : NotAhead(q.order, q)'
      <3> SUFFICES ASSUME NEW q \in sent' PROVE NotAhead(q.order, q)'
        OBVIOUS
      <3>1. CASE q \in sent
        <4>1. q.order \in Orders /\ q.filled \in Nat /\ NotAhead(q.order, q)
          BY <3>1, ReportFields DEF TrackIInv, AheadInv
        <4> QED  BY <4>1, StillNotAhead
      <3>2. CASE q = r
        <4>1. q.order = o
          BY <3>2 DEF Told
        <4> QED  BY <4>1, <3>2, <1>5
      <3> QED  BY <3>1, <3>2, <1>1
    <2>2. \A i \in DOMAIN stream' : stream'[i] \in sent'
      <3>1. PICK n \in Nat : Len(stream) = n /\ DOMAIN stream = 1 .. n
        BY <1>2, LenProperties
      <3>2. DOMAIN stream' = 1 .. (n + 1) /\ stream'[n + 1] = r
            /\ \A i \in 1 .. n : stream'[i] = stream[i]
        BY <3>1, <1>1, <1>2, AppendProperties
      <3>3. \A i \in 1 .. n : stream[i] \in sent
        BY <3>1 DEF TrackIInv, AheadInv
      <3> QED  BY <3>2, <3>3, <1>1
    <2>3. \A p \in Orders : NotAhead(p, local[p])'
      <3> SUFFICES ASSUME NEW p \in Orders PROVE NotAhead(p, local[p])'
        OBVIOUS
      <3>1. local' = local
        BY <1>1 DEF manager
      <3>2. local[p].filled \in Nat /\ NotAhead(p, local[p])
        BY ReportFields DEF TrackIInv, AheadInv
      <3> HIDE DEF TrackIInv
      <3>3. \A b : b.filled \in Nat /\ NotAhead(p, b) => NotAhead(p, b)'
        BY StillNotAhead
      <3> QED  BY <3>1, <3>2, <3>3 DEF NotAhead
    <2> QED  BY <2>1, <2>2, <2>3 DEF AheadInv
  <1> QED  BY <1>3, <1>4, <1>6
(* Until the first fault, the report of a move is the last of its order    *)
(* and no order that has ended moves.                                      *)
LEMMA MoveKeepsExact ==
    ASSUME TrackIInv, NEW o \in Orders, NEW state \in States, NEW traded \in BOOLEAN,
           GoodMove(o, state, traded), Moved(o, state, traded)
    PROVE  ExactInv'
  <1> DEFINE r == Told(o, state, traded)
  <1>1. /\ exchange'[o] = state /\ \A p \in Orders \ {o} : exchange'[p] = exchange[p]
        /\ stream' = Append(stream, r) /\ r \in Reports
        /\ UNCHANGED <<submitted, faults, local, pending, active>>
    BY MoveFacts DEF manager
  <1>2. r.order = o /\ r.status = state.status /\ r.filled = state.filled /\ r.traded = traded
    BY DEF Told
  <1>3. stream \in Seq(Reports)
    BY DEF TrackIInv, TrackTypeInv
  <1>4. PICK n \in Nat : Len(stream) = n /\ DOMAIN stream = 1 .. n
    BY <1>3, LenProperties
  <1>5. /\ DOMAIN stream' = 1 .. (n + 1) /\ stream'[n + 1] = r
        /\ \A i \in 1 .. n : stream'[i] = stream[i]
    BY <1>4, <1>1, <1>3, AppendProperties
  <1>6. /\ exchange[o].status \notin Ended /\ state.status # "none" /\ o \in submitted
        /\ traded => exchange[o].status # "none"
        /\ state.filled = exchange[o].filled + (IF traded THEN 1 ELSE 0)
        /\ state.fills = state.filled
    BY DEF GoodMove
  <1> SUFFICES ASSUME faults = 0 PROVE (active /\ ReportsInOrder /\ \A p \in Orders : ExactlyTracked(p))'
    BY <1>1 DEF ExactInv
  <1>7. active /\ ReportsInOrder /\ \A p \in Orders : ExactlyTracked(p)
    BY DEF TrackIInv, ExactInv
  <1> HIDE DEF r
  <1>8. ReportsInOrder'
    <2> SUFFICES ASSUME NEW i \in 1 .. (n + 1)
                 PROVE  /\ IsLast(i)' => stream'[i].status = exchange'[stream'[i].order].status
                                         /\ stream'[i].filled = exchange'[stream'[i].order].filled
                        /\ ~ IsLast(i)' => stream'[i].status \notin Ended
      BY <1>5 DEF ReportsInOrder
    <2>1. CASE i = n + 1
      <3>1. IsLast(i)'
        BY <2>1, <1>4, <1>5 DEF IsLast
      <3> QED  BY <3>1, <2>1, <1>1, <1>2, <1>5
    <2>2. CASE i # n + 1
      <3>1. i \in 1 .. n /\ stream'[i] = stream[i] /\ stream[i].order \in Orders
        BY <2>2, <1>4, <1>5, ReportFields
      <3>2. /\ IsLast(i) => stream[i].status = exchange[stream[i].order].status
                            /\ stream[i].filled = exchange[stream[i].order].filled
            /\ ~ IsLast(i) => stream[i].status \notin Ended
        BY <3>1, <1>4, <1>7 DEF ReportsInOrder
      <3>3. CASE stream[i].order = o
        <4>1. ~ IsLast(i)'
          BY <3>1, <3>3, <1>2, <1>4, <1>5 DEF IsLast
        <4>2. stream[i].status \notin Ended
          BY <3>1, <3>3, <1>4, <1>6 DEF TrackIInv, AheadInv, NotAhead
        <4> QED  BY <4>1, <4>2, <3>1
      <3>4. CASE stream[i].order # o
        <4>1. IsLast(i)' <=> IsLast(i)
          BY <3>1, <3>4, <1>2, <1>4, <1>5 DEF IsLast
        <4> QED  BY <4>1, <3>1, <3>2, <3>4, <1>1
      <3> QED  BY <3>3, <3>4
    <2> QED  BY <2>1, <2>2
  <1>9. \A p \in Orders : ExactlyTracked(p)'
    <2> SUFFICES ASSUME NEW p \in Orders PROVE ExactlyTracked(p)'
      OBVIOUS
    <2>1. ExactlyTracked(p)
      BY <1>7
    <2>2. CASE p = o
      <3>1. Reported(p)'
        BY <2>2, <1>2, <1>4, <1>5 DEF Reported
      <3>2. local[o].status \notin Ended \cup {"none"}
        <4>1. local[o].status \notin Ended
          BY <1>6 DEF TrackIInv, AheadInv, NotAhead
        <4>2. local[o].status # "none"
          BY <2>1, <2>2, <1>6 DEF ExactlyTracked
        <4> QED  BY <4>1, <4>2
      <3>3. local[o].fills + Cardinality(OnTheWay(o)) = exchange[o].fills
        BY <3>2, <2>1, <2>2 DEF ExactlyTracked
      <3>4. Cardinality(OnTheWay(o))' = Cardinality(OnTheWay(o)) + (IF traded THEN 1 ELSE 0)
        <4>1. OnTheWay(o) = Trades(stream, o) /\ OnTheWay(o)' = Trades(Append(stream, r), o)
          BY <1>1 DEF OnTheWay, Trades
        <4>2. Cardinality(Trades(Append(stream, r), o)) =
                 IF r.order = o /\ r.traded THEN Cardinality(Trades(stream, o)) + 1
                                            ELSE Cardinality(Trades(stream, o))
          BY <1>1, <1>3, TradesOfAppend
        <4>3. Cardinality(Trades(stream, o)) \in Nat
          BY <1>3, TradesFinite
        <4> QED  BY <4>1, <4>2, <4>3, <1>2
      <3>5. exchange[o].fills = exchange[o].filled /\ exchange[o].filled \in Nat
            /\ local[o].fills \in Nat /\ Cardinality(OnTheWay(o)) \in Nat
        <4>1. OnTheWay(o) = Trades(stream, o)
          BY DEF OnTheWay, Trades
        <4>2. Cardinality(Trades(stream, o)) \in Nat
          BY <1>3, TradesFinite
        <4> QED  BY <4>1, <4>2, OrderTrackingAssumption
                 DEF TrackIInv, TrackTypeInv, ExchangeInv, States, LocalStates
      <3>6. local[o].fills + Cardinality(OnTheWay(o))' = exchange'[o].fills
        BY <3>3, <3>4, <3>5, <1>1, <1>6
      <3> QED  BY <3>1, <3>2, <3>6, <2>2, <1>1, <1>6 DEF ExactlyTracked
    <2>3. CASE p # o
      <3>1. Reported(p)' <=> Reported(p)
        BY <2>3, <1>2, <1>4, <1>5 DEF Reported
      <3>2. OnTheWay(p)' = OnTheWay(p)
        BY <2>3, <1>2, <1>4, <1>5 DEF OnTheWay
      <3>3. exchange'[p] = exchange[p]
        BY <2>3, <1>1
      <3> QED  BY <3>1, <3>2, <3>3, <2>1, <1>1 DEF ExactlyTracked
    <2> QED  BY <2>2, <2>3
  <1> QED  BY <1>1, <1>7, <1>8, <1>9
-----------------------------------------------------------------------------
(* What the moves of the stream and of the process have in common: they    *)
(* are the faults, after which the picture is no longer said to be exact.  *)
LEMMA FaultKeeps ==
    ASSUME TrackIInv, StreamLoses \/ StreamRepeats \/ Deactivate \/ Restart
    PROVE  TrackIInv'
  <1>1. /\ faults' = faults + 1 /\ exchange' = exchange /\ submitted' = submitted
        /\ sent' = sent
    BY DEF StreamLoses, StreamRepeats, Deactivate, Restart
  <1>2. stream \in Seq(Reports) /\ sent \subseteq Reports /\ faults \in Nat
        /\ local \in [Orders -> LocalStates]
    BY DEF TrackIInv, TrackTypeInv
  <1>3. faults' \in Nat /\ faults' # 0
    BY <1>1, <1>2
  <1>4. /\ stream' \in Seq(Reports)
        /\ \A i \in DOMAIN stream' : stream'[i] \in sent
    <2>1. CASE stream' = <<>>
      BY <2>1, EmptySeq
    <2>2. CASE stream' = stream
      BY <2>2, <1>2 DEF TrackIInv, AheadInv
    <2>3. CASE StreamRepeats
      <3>1. PICK r \in sent : stream' = Append(stream, r)
        BY <2>3 DEF StreamRepeats
      <3>2. PICK n \in Nat : Len(stream) = n /\ DOMAIN stream = 1 .. n
        BY <1>2, LenProperties
      <3>3. /\ stream' \in Seq(Reports) /\ DOMAIN stream' = 1 .. (n + 1)
            /\ stream'[n + 1] = r /\ \A i \in 1 .. n : stream'[i] = stream[i]
        BY <1>2, <3>1, <3>2, AppendProperties
      <3> QED  BY <3>2, <3>3 DEF TrackIInv, AheadInv
    <2> QED  BY <2>1, <2>2, <2>3 DEF StreamLoses, Deactivate, Restart
  <1>5. local' = local \/ local' = [o \in Orders |-> Unknown]
    BY DEF StreamLoses, StreamRepeats, Deactivate, Restart, manager
  <1>6. /\ local' \in [Orders -> LocalStates]
        /\ \A o \in Orders : NotAhead(o, local'[o])
    <2>1. CASE local' = local
      BY <2>1, <1>2 DEF TrackIInv, AheadInv
    <2>2. CASE local' = [o \in Orders |-> Unknown]
      <3>1. Unknown \in LocalStates
        BY OrderTrackingAssumption DEF Unknown, LocalStates
      <3>2. \A o \in Orders : exchange[o].filled >= 0
        BY OrderTrackingAssumption DEF TrackIInv, TrackTypeInv, States
      <3>3. \A o \in Orders : local'[o] = Unknown
        BY <2>2
      <3>4. \A o \in Orders : NotAhead(o, Unknown)
        BY <3>2 DEF NotAhead, Unknown, Ended
      <3> QED  BY <2>2, <3>1, <3>3, <3>4
    <2> QED  BY <1>5, <2>1, <2>2
  <1>7. TrackTypeInv'
    BY <1>1, <1>2, <1>3, <1>4, <1>6 DEF TrackIInv, TrackTypeInv
  <1>8. ExchangeInv'
    BY <1>1 DEF TrackIInv, ExchangeInv
  <1>9. AheadInv'
    BY <1>1, <1>4, <1>6 DEF TrackIInv, AheadInv, NotAhead
  <1>10. ExactInv'
    BY <1>3 DEF ExactInv
  <1> QED  BY <1>7, <1>8, <1>9, <1>10 DEF TrackIInv

(* An order that is registered is new to the exchange and has no reports.  *)
LEMMA RegisterKeeps ==
    ASSUME TrackIInv, NEW o \in Orders, Register(o)
    PROVE  TrackIInv'
  <1> DEFINE new == [Unknown EXCEPT !.status = "new"]
  <1>1. /\ o \notin submitted /\ submitted' = submitted \cup {o}
        /\ local' = [local EXCEPT ![o] = new] /\ pending' = pending \cup {o}
        /\ UNCHANGED <<exchange, stream, sent, faults, active>>
    BY DEF Register
  <1>2. new.status = "new" /\ new.filled = 0 /\ new.fills = 0 /\ new \in LocalStates
    BY OrderTrackingAssumption DEF Unknown, LocalStates, Open
  <1> HIDE DEF new
  <1>3. local \in [Orders -> LocalStates]
    BY DEF TrackIInv, TrackTypeInv
  <1>4. local'[o] = new /\ \A p \in Orders \ {o} : local'[p] = local[p]
    BY <1>1, <1>3
  <1>5. exchange[o].status = "none" /\ exchange[o].filled = 0 /\ exchange[o].fills = 0
    BY <1>1 DEF TrackIInv, ExchangeInv
  <1>6. TrackTypeInv'
    BY <1>1, <1>2, <1>3 DEF TrackIInv, TrackTypeInv
  <1>7. ExchangeInv'
    BY <1>1 DEF TrackIInv, ExchangeInv
  <1>8. AheadInv'
    <2>1. NotAhead(o, new)
      BY <1>2, <1>5 DEF NotAhead, Ended
    <2>2. \A p \in Orders : NotAhead(p, local'[p])
      BY <2>1, <1>4 DEF TrackIInv, AheadInv
    <2> QED  BY <2>2, <1>1 DEF TrackIInv, AheadInv, NotAhead
  <1>9. ExactInv'
    <2> SUFFICES ASSUME faults = 0
                 PROVE  (active /\ ReportsInOrder /\ \A p \in Orders : ExactlyTracked(p))'
      BY <1>1 DEF ExactInv
    <2>1. active /\ ReportsInOrder /\ \A p \in Orders : ExactlyTracked(p)
      BY DEF TrackIInv, ExactInv
    <2>2. ReportsInOrder'
      BY <2>1, <1>1 DEF ReportsInOrder, IsLast
    <2>3. \A p \in Orders : (Reported(p)' <=> Reported(p)) /\ OnTheWay(p)' = OnTheWay(p)
      BY <1>1 DEF Reported, OnTheWay
    <2>4. ~ Reported(o)
      BY <2>1, <1>5 DEF ExactlyTracked
    <2>5. Cardinality(OnTheWay(o)) = 0
      <3>1. OnTheWay(o) = {}
        BY <2>4 DEF Reported, OnTheWay
      <3> QED  BY <3>1, FS_EmptySet
    <2>6. ExactlyTracked(o)'
      BY <2>3, <2>4, <2>5, <1>1, <1>2, <1>4, <1>5 DEF ExactlyTracked
    <2>7. \A p \in Orders \ {o} : ExactlyTracked(p)'
      BY <2>1, <2>3, <1>1, <1>4 DEF ExactlyTracked
    <2> QED  BY <2>1, <2>2, <2>6, <2>7, <1>1
  <1> QED  BY <1>6, <1>7, <1>8, <1>9 DEF TrackIInv

(* An order that is forgotten has ended on the exchange, too, and no       *)
(* report of it is on its way, so that none brings it back.                *)
LEMMA CleanupKeeps ==
    ASSUME TrackIInv, Cleanup
    PROVE  TrackIInv'
  <1>1. PICK old \in SUBSET {o \in Orders : local[o].status = "filled"} :
           local' = [o \in Orders |-> IF o \in old THEN Unknown ELSE local[o]]
    BY DEF Cleanup
  <1>2. UNCHANGED <<exchange, stream, submitted, sent, faults, pending, active>>
    BY DEF Cleanup, world
  <1>3. \A o \in Orders : \/ local'[o] = Unknown /\ local[o].status = "filled"
                          \/ local'[o] = local[o]
    BY <1>1
  <1>4. Unknown \in LocalStates
    BY OrderTrackingAssumption DEF Unknown, LocalStates
  <1>5. TrackTypeInv'
    BY <1>1, <1>2, <1>4 DEF TrackIInv, TrackTypeInv
  <1>6. ExchangeInv'
    BY <1>2 DEF TrackIInv, ExchangeInv
  <1>7. AheadInv'
    <2>1. \A o \in Orders : exchange[o].filled >= 0
      BY OrderTrackingAssumption DEF TrackIInv, TrackTypeInv, States
    <2>2. \A o \in Orders : NotAhead(o, Unknown)
      BY <2>1 DEF NotAhead, Unknown, Ended
    <2>3. \A o \in Orders : NotAhead(o, local'[o])
      BY <1>3, <2>2 DEF TrackIInv, AheadInv
    <2> QED  BY <2>3, <1>2 DEF TrackIInv, AheadInv, NotAhead
  <1>8. ExactInv'
    <2> SUFFICES ASSUME faults = 0
                 PROVE  (active /\ ReportsInOrder /\ \A p \in Orders : ExactlyTracked(p))'
      BY <1>2 DEF ExactInv
    <2>1. active /\ ReportsInOrder /\ \A p \in Orders : ExactlyTracked(p)
      BY DEF TrackIInv, ExactInv
    <2>2. ReportsInOrder'
      BY <2>1, <1>2 DEF ReportsInOrder, IsLast
    <2>3. \A p \in Orders : (Reported(p)' <=> Reported(p)) /\ OnTheWay(p)' = OnTheWay(p)
      BY <1>2 DEF Reported, OnTheWay
    <2>4. ASSUME NEW p \in Orders PROVE ExactlyTracked(p)'
      <3>1. CASE local'[p] = local[p]
        BY <3>1, <2>1, <2>3, <1>2 DEF ExactlyTracked
      <3>2. CASE local'[p] = Unknown /\ local[p].status = "filled"
        <4>1. ~ Reported(p)
          BY <3>2, <2>1 DEF ExactlyTracked, Ended
        <4>2. exchange[p].status \in Ended
          BY <3>2 DEF TrackIInv, AheadInv, NotAhead, Ended
        <4>3. local'[p].status = "none"
          BY <3>2 DEF Unknown
        <4> QED  BY <4>1, <4>2, <4>3, <2>3, <1>2 DEF ExactlyTracked
      <3> QED  BY <3>1, <3>2, <1>3
    <2> QED  BY <2>1, <2>2, <2>4, <1>2
  <1> QED  BY <1>5, <1>6, <1>7, <1>8 DEF TrackIInv
(* Reading a report moves every position of the stream down by one.        *)
LEMMA TailFacts ==
    ASSUME TrackIInv, stream # <<>>, stream' = Tail(stream)
    PROVE  /\ Head(stream) = stream[1] /\ Head(stream) \in Reports /\ Head(stream) \in sent
           /\ stream' \in Seq(Reports)
           /\ \E n \in Nat : /\ n >= 1 /\ DOMAIN stream = 1 .. n /\ DOMAIN stream' = 1 .. (n - 1)
                             /\ \A i \in 1 .. (n - 1) : stream'[i] = stream[i + 1]
           /\ \A i \in DOMAIN stream' : stream'[i] \in sent
  <1>1. stream \in Seq(Reports)
    BY DEF TrackIInv, TrackTypeInv
  <1>2. PICK n \in Nat : n >= 1 /\ Len(stream) = n /\ DOMAIN stream = 1 .. n
    BY <1>1, LenProperties, EmptySeq
  <1>3. /\ Head(stream) = stream[1] /\ stream' \in Seq(Reports) /\ DOMAIN stream' = 1 .. (n - 1)
        /\ \A i \in 1 .. (n - 1) : stream'[i] = stream[i + 1]
    BY <1>1, <1>2, HeadTailProperties, LenProperties
  <1>4. \A i \in 1 .. n : stream[i] \in sent /\ stream[i] \in Reports
    BY <1>2, ReportFields DEF TrackIInv, AheadInv
  <1> QED  BY <1>2, <1>3, <1>4

(* Reports are dropped only after a fault.                                 *)
LEMMA InactiveKeeps ==
    ASSUME TrackIInv, DropReport \/ Activate
    PROVE  TrackIInv'
  <1>1. /\ UNCHANGED <<exchange, submitted, sent, faults, local>> /\ ~ active
    BY DEF DropReport, Activate, manager, world
  <1>2. /\ stream' \in Seq(Reports) /\ \A i \in DOMAIN stream' : stream'[i] \in sent
    <2>1. CASE DropReport
      BY <2>1, TailFacts DEF DropReport
    <2>2. CASE Activate
      BY <2>2 DEF Activate, world, TrackIInv, TrackTypeInv, AheadInv
    <2> QED  BY <2>1, <2>2
  <1>3. TrackTypeInv'
    BY <1>1, <1>2 DEF TrackIInv, TrackTypeInv
  <1>4. ExchangeInv'
    BY <1>1 DEF TrackIInv, ExchangeInv
  <1>5. AheadInv'
    BY <1>1, <1>2 DEF TrackIInv, AheadInv, NotAhead
  <1>6. faults # 0
    BY <1>1 DEF TrackIInv, ExactInv
  <1>7. ExactInv'
    BY <1>1, <1>6 DEF ExactInv
  <1> QED  BY <1>3, <1>4, <1>5, <1>7 DEF TrackIInv

(* process_execution_report: the order becomes what the report said, which *)
(* is what the exchange has if no other report of it follows.              *)
LEMMA ProcessKeeps ==
    ASSUME TrackIInv, ProcessReport
    PROVE  TrackIInv'
  <1> DEFINE r == Head(stream)
             l == IF local[r.order].status = "none"
                    THEN [Unknown EXCEPT !.status = "new"] ELSE local[r.order]
  <1>1. /\ active /\ stream # <<>> /\ stream' = Tail(stream) /\ pending' = pending \ {r.order}
        /\ local' = [local EXCEPT ![r.order] = Applied(l, r)]
        /\ UNCHANGED <<exchange, submitted, sent, faults, active>>
    BY DEF ProcessReport, Unconfirmed
  <1>2. /\ r = stream[1] /\ r \in Reports /\ r \in sent
        /\ stream' \in Seq(Reports) /\ \A i \in DOMAIN stream' : stream'[i] \in sent
    BY <1>1, TailFacts
  <1>3. PICK n \in Nat : /\ n >= 1 /\ DOMAIN stream = 1 .. n /\ DOMAIN stream' = 1 .. (n - 1)
                         /\ \A i \in 1 .. (n - 1) : stream'[i] = stream[i + 1]
    BY <1>1, TailFacts
  <1>4. stream \in Seq(Reports) /\ local \in [Orders -> LocalStates]
    BY DEF TrackIInv, TrackTypeInv
  <1>5. PICK o \in Orders : r.order = o
    BY <1>2 DEF Reports
  <1>6. r.status \in Open \cup Ended /\ r.filled \in 0 .. Quantity /\ r.traded \in BOOLEAN
    BY <1>2 DEF Reports
  <1>7. l.fills \in Nat
    BY <1>4, <1>5 DEF Unknown, LocalStates
  <1>8. /\ local'[o] = Applied(l, r) /\ \A p \in Orders \ {o} : local'[p] = local[p]
        /\ local' = [local EXCEPT ![o] = Applied(l, r)]
    BY <1>1, <1>4, <1>5
  <1>9. l = IF local[o].status = "none" THEN [Unknown EXCEPT !.status = "new"] ELSE local[o]
    BY <1>5
  <1> HIDE DEF r, l
  <1>10. /\ Applied(l, r).status = r.status /\ Applied(l, r).filled = r.filled
         /\ Applied(l, r).fills = l.fills + (IF r.traded THEN 1 ELSE 0)
         /\ Applied(l, r) \in LocalStates
    BY <1>6, <1>7 DEF Applied, LocalStates
  <1>11. TrackTypeInv'
    BY <1>1, <1>2, <1>4, <1>8, <1>10 DEF TrackIInv, TrackTypeInv
  <1>12. ExchangeInv'
    BY <1>1 DEF TrackIInv, ExchangeInv
  <1>13. AheadInv'
    <2>1. NotAhead(o, r)
      BY <1>2, <1>5 DEF TrackIInv, AheadInv
    <2>2. NotAhead(o, local'[o])
      BY <2>1, <1>8, <1>10 DEF NotAhead
    <2>3. \A p \in Orders : NotAhead(p, local'[p])
      BY <2>2, <1>8 DEF TrackIInv, AheadInv
    <2> QED  BY <2>3, <1>1, <1>2 DEF TrackIInv, AheadInv, NotAhead
  <1>14. ExactInv'
    <2> SUFFICES ASSUME faults = 0
                 PROVE  (active /\ ReportsInOrder /\ \A p \in Orders : ExactlyTracked(p))'
      BY <1>1 DEF ExactInv
    <2>1. active /\ ReportsInOrder /\ \A p \in Orders : ExactlyTracked(p)
      BY DEF TrackIInv, ExactInv
    <2>2. \A i \in 1 .. (n - 1) : IsLast(i)' <=> IsLast(i + 1)
      <3> SUFFICES ASSUME NEW i \in 1 .. (n - 1) PROVE IsLast(i)' <=> IsLast(i + 1)
        OBVIOUS
      <3>1. stream'[i] = stream[i + 1]
        BY <1>3
      <3>2. ASSUME IsLast(i)' PROVE IsLast(i + 1)
        <4> SUFFICES ASSUME NEW j \in 1 .. n, j > i + 1 PROVE stream[j].order # stream[i + 1].order
          BY <1>3 DEF IsLast
        <4>1. j - 1 \in 1 .. (n - 1) /\ j - 1 > i /\ stream'[j - 1] = stream[(j - 1) + 1]
          BY <1>3
        <4>2. (j - 1) + 1 = j
          OBVIOUS
        <4>3. stream'[j - 1].order # stream'[i].order
          BY <3>2, <4>1, <1>3 DEF IsLast
        <4> QED  BY <4>1, <4>2, <4>3, <3>1
      <3>3. ASSUME IsLast(i + 1) PROVE IsLast(i)'
        <4> SUFFICES ASSUME NEW j \in 1 .. (n - 1), j > i PROVE stream'[j].order # stream'[i].order
          BY <1>3 DEF IsLast
        <4>1. j + 1 \in 1 .. n /\ j + 1 > i + 1 /\ stream'[j] = stream[j + 1]
          BY <1>3
        <4>2. stream[j + 1].order # stream[i + 1].order
          BY <3>3, <4>1, <1>3 DEF IsLast
        <4> QED  BY <4>1, <4>2, <3>1
      <3> QED  BY <3>2, <3>3
    <2>3. ReportsInOrder'
      <3> SUFFICES ASSUME NEW i \in 1 .. (n - 1)
                   PROVE  /\ IsLast(i)' => stream'[i].status = exchange'[stream'[i].order].status
                                           /\ stream'[i].filled = exchange'[stream'[i].order].filled
                          /\ ~ IsLast(i)' => stream'[i].status \notin Ended
        BY <1>3 DEF ReportsInOrder
      <3>1. i + 1 \in 1 .. n /\ stream'[i] = stream[i + 1]
        BY <1>3
      <3>2. /\ IsLast(i + 1) => stream[i + 1].status = exchange[stream[i + 1].order].status
                                /\ stream[i + 1].filled = exchange[stream[i + 1].order].filled
            /\ ~ IsLast(i + 1) => stream[i + 1].status \notin Ended
        BY <3>1, <2>1, <1>3 DEF ReportsInOrder
      <3> QED  BY <3>1, <3>2, <2>2, <1>1
    <2>4. \A p \in Orders \ {o} : Reported(p)' <=> Reported(p)
      <3> SUFFICES ASSUME NEW p \in Orders \ {o} PROVE Reported(p)' <=> Reported(p)
        OBVIOUS
      <3>1. ASSUME Reported(p) PROVE Reported(p)'
        <4>1. PICK i \in 1 .. n : stream[i].order = p
          BY <3>1, <1>3 DEF Reported
        <4>2. i # 1
          BY <4>1, <1>2, <1>5
        <4>3. i - 1 \in 1 .. (n - 1) /\ stream'[i - 1] = stream[(i - 1) + 1] /\ (i - 1) + 1 = i
          BY <4>2, <1>3
        <4> QED  BY <4>1, <4>3, <1>3 DEF Reported
      <3>2. ASSUME Reported(p)' PROVE Reported(p)
        <4>1. PICK i \in 1 .. (n - 1) : stream'[i].order = p
          BY <3>2, <1>3 DEF Reported
        <4>2. i + 1 \in 1 .. n /\ stream'[i] = stream[i + 1]
          BY <1>3
        <4> QED  BY <4>1, <4>2, <1>3 DEF Reported
      <3> QED  BY <3>1, <3>2
    <2>5. \A p : /\ OnTheWay(p) = Trades(stream, p) /\ OnTheWay(p)' = Trades(Tail(stream), p)
                 /\ Cardinality(Trades(stream, p)) =
                       IF r.order = p /\ r.traded THEN Cardinality(Trades(Tail(stream), p)) + 1
                                                  ELSE Cardinality(Trades(Tail(stream), p))
                 /\ Cardinality(Trades(Tail(stream), p)) \in Nat
      <3> TAKE p
      <3>1. OnTheWay(p) = Trades(stream, p) /\ OnTheWay(p)' = Trades(Tail(stream), p)
        BY <1>1 DEF OnTheWay, Trades
      <3>2. Tail(stream) \in Seq(Reports)
        BY <1>1, <1>2
      <3> QED  BY <3>1, <3>2, <1>1, <1>4, TradesOfTail, TradesFinite DEF r
    <2>6. ASSUME NEW p \in Orders \ {o} PROVE ExactlyTracked(p)'
      <3>1. ExactlyTracked(p) /\ (Reported(p)' <=> Reported(p)) /\ local'[p] = local[p]
        BY <2>1, <2>4, <1>8
      <3>2. Cardinality(OnTheWay(p)') = Cardinality(OnTheWay(p))
        BY <2>5, <1>5
      <3>3. (p \in pending)' <=> p \in pending
        BY <1>1, <1>5
      <3> QED  BY <3>1, <3>2, <3>3, <1>1 DEF ExactlyTracked
    <2>7. ExactlyTracked(o)'
      <3>1. Reported(o)
        BY <1>2, <1>3, <1>5 DEF Reported
      <3>2. exchange[o].status # "none" /\ local[o].status \notin Ended \cup {"none"}
        BY <3>1, <2>1 DEF ExactlyTracked
      <3>3. l = local[o]
        BY <3>2, <1>9
      <3>4. local[o].fills + Cardinality(OnTheWay(o)) = exchange[o].fills
        BY <3>2, <2>1 DEF ExactlyTracked
      <3>5. local'[o].fills + Cardinality(OnTheWay(o)') = exchange[o].fills
        BY <3>3, <3>4, <2>5, <1>5, <1>6, <1>7, <1>8, <1>10
      <3>6. r.status # "none"
        BY <1>6 DEF Open, Ended
      <3>7. /\ IsLast(1) => r.status = exchange[o].status /\ r.filled = exchange[o].filled
            /\ ~ IsLast(1) => r.status \notin Ended
        BY <2>1, <1>2, <1>3, <1>5 DEF ReportsInOrder
      <3>8. ~ Reported(o)' <=> IsLast(1)
        <4>1. ASSUME ~ Reported(o)' PROVE IsLast(1)
          <5> SUFFICES ASSUME NEW j \in 1 .. n, j > 1 PROVE stream[j].order # stream[1].order
            BY <1>3 DEF IsLast
          <5>1. j - 1 \in 1 .. (n - 1) /\ stream'[j - 1] = stream[(j - 1) + 1] /\ (j - 1) + 1 = j
            BY <1>3
          <5> QED  BY <4>1, <5>1, <1>2, <1>3, <1>5 DEF Reported
        <4>2. ASSUME IsLast(1), NEW i \in 1 .. (n - 1) PROVE stream'[i].order # o
          <5>1. i + 1 \in 1 .. n /\ i + 1 > 1 /\ stream'[i] = stream[i + 1]
            BY <1>3
          <5> QED  BY <4>2, <5>1, <1>2, <1>3, <1>5 DEF IsLast
        <4> QED  BY <4>1, <4>2, <1>3 DEF Reported
      <3> QED  BY <3>2, <3>5, <3>6, <3>7, <3>8, <1>1, <1>8, <1>10 DEF ExactlyTracked
    <2> QED  BY <2>1, <2>3, <2>6, <2>7, <1>1
  <1> QED  BY <1>11, <1>12, <1>13, <1>14 DEF TrackIInv
(* The invariant is kept by every step of manager, stream and exchange.    *)
LEMMA TrackStep ==
    ASSUME TrackIInv, [Next]_vars
    PROVE  TrackIInv'
  <1>1. CASE Exchange
    <2>1. PICK o \in Orders, state \in States, traded \in BOOLEAN :
             GoodMove(o, state, traded) /\ Moved(o, state, traded)
      BY <1>1, MovesAreGood
    <2>2. TrackTypeInv' /\ ExchangeInv' /\ AheadInv'
      BY <2>1, MoveKeepsAhead
    <2>3. ExactInv'
      BY <2>1, MoveKeepsExact
    <2> QED  BY <2>2, <2>3 DEF TrackIInv
  <1>2. CASE StreamLoses \/ StreamRepeats \/ Deactivate \/ Restart
    BY <1>2, FaultKeeps
  <1>3. CASE \E o \in Orders : Register(o)
    BY <1>3, RegisterKeeps
  <1>4. CASE ProcessReport
    BY <1>4, ProcessKeeps
  <1>5. CASE DropReport \/ Activate
    BY <1>5, InactiveKeeps
  <1>6. CASE Cleanup
    BY <1>6, CleanupKeeps
  <1>7. CASE UNCHANGED vars
    <2>1. UNCHANGED <<exchange, stream, submitted, sent, faults, local, pending, active>>
      BY <1>7 DEF vars, world, manager
    <2>2. TrackTypeInv' /\ ExchangeInv'
      BY <2>1 DEF TrackIInv, TrackTypeInv, ExchangeInv
    <2>3. AheadInv'
      BY <2>1 DEF TrackIInv, AheadInv, NotAhead
    <2>4. \A o : (Reported(o)' <=> Reported(o)) /\ OnTheWay(o)' = OnTheWay(o)
      BY <2>1 DEF Reported, OnTheWay
    <2>5. ReportsInOrder' <=> ReportsInOrder
      BY <2>1 DEF ReportsInOrder, IsLast
    <2>6. \A o \in Orders : ExactlyTracked(o)' <=> ExactlyTracked(o)
      BY <2>1, <2>4 DEF ExactlyTracked
    <2>7. ExactInv'
      BY <2>1, <2>5, <2>6 DEF TrackIInv, ExactInv
    <2> QED  BY <2>2, <2>3, <2>7 DEF TrackIInv
  <1> QED  BY <1>1, <1>2, <1>3, <1>4, <1>5, <1>6, <1>7 DEF Next

(* The invariant contains both properties.                                 *)
LEMMA TrackImplies ==
    ASSUME TrackIInv
    PROVE  NeverAhead /\ PictureIsExact
  <1>1. NeverAhead
    BY DEF TrackIInv, AheadInv, NotAhead, NeverAhead
  <1>2. PictureIsExact
    <2> SUFFICES ASSUME faults = 0, NEW o \in Orders, local[o].status # "none"
                 PROVE  /\ local[o].fills + Cardinality(OnTheWay(o)) = exchange[o].fills
                        /\ stream = <<>> /\ o \notin pending =>
                              /\ local[o].status = exchange[o].status
                              /\ local[o].filled = exchange[o].filled
      BY DEF PictureIsExact
    <2>1. ExactlyTracked(o)
      BY DEF TrackIInv, ExactInv
    <2>2. stream = <<>> => ~ Reported(o)
      BY DEF Reported
    <2> QED  BY <2>1, <2>2 DEF ExactlyTracked
  <1> QED  BY <1>1, <1>2

-----------------------------------------------------------------------------
(* The snapshots are of orders, and the history has no more entries than   *)
(* it may.                                                                 *)
Kinds == {"status", "quantity", "phantom", "missing"}
Findings == [kind : Kinds, order : Orders]
Entries == [id : Findings, resolved : BOOLEAN]

ShotInv ==
    /\ DOMAIN localShot \subseteq Orders /\ DOMAIN exchangeShot \subseteq Orders
    /\ \A o \in DOMAIN exchangeShot : exchangeShot[o].status \in Open
    /\ history \in Seq(Entries) /\ Len(history) <= MaxHistory

(* What record_discrepancy leaves of the history: no more than there may   *)
(* be, and of what was recorded last as much as fits.                      *)
LEMMA RecordedKeepsLatest ==
    ASSUME NEW h \in Seq(Entries), Len(h) <= MaxHistory,
           NEW ids \in Seq(Findings)
    PROVE  /\ Recorded(h, ids) \in Seq(Entries) /\ Len(Recorded(h, ids)) <= MaxHistory
           /\ Len(ids) <= MaxHistory =>
                 \A k \in 1 .. Len(ids) : \E i \in DOMAIN Recorded(h, ids) :
                    Recorded(h, ids)[i] = [id |-> ids[k], resolved |-> FALSE]
  <1> DEFINE new == [i \in 1 .. Len(ids) |-> [id |-> ids[i], resolved |-> FALSE]]
             all == h \o new
  <1>1. PICK m \in Nat : Len(h) = m
    BY LenProperties
  <1>2. PICK n \in Nat : Len(ids) = n /\ DOMAIN ids = 1 .. n
    BY LenProperties
  <1>3. MaxHistory \in Nat /\ MaxHistory >= 1
    BY ReconciliationAssumption
  <1>4. /\ new \in Seq(Entries) /\ Len(new) = n
        /\ \A i \in 1 .. n : new[i] = [id |-> ids[i], resolved |-> FALSE]
    <2>1. \A i \in 1 .. n : [id |-> ids[i], resolved |-> FALSE] \in Entries
      BY <1>2, ElementOfSeq DEF Entries
    <2>2. new \in [1 .. n -> Entries]
      BY <2>1, <1>2
    <2>3. new \in Seq(Entries)
      BY <2>2, <1>2
    <2> QED  BY <2>3, <1>2
  <1>9. Recorded(h, ids) = IF Len(all) <= MaxHistory THEN all
                           ELSE SubSeq(all, Len(all) - MaxHistory + 1, Len(all))
    BY DEF Recorded
  <1> HIDE DEF new
  <1>5. /\ all \in Seq(Entries) /\ Len(all) = m + n /\ DOMAIN all = 1 .. (m + n)
        /\ \A k \in 1 .. n : all[m + k] = new[k]
    <2>1. /\ all \in Seq(Entries) /\ Len(all) = m + n
          /\ \A i \in 1 .. (m + n) : all[i] = IF i <= m THEN h[i] ELSE new[i - m]
      BY <1>1, <1>4, ConcatProperties
    <2>2. DOMAIN all = 1 .. (m + n)
      BY <2>1, LenProperties
    <2>3. \A k \in 1 .. n : m + k \in 1 .. (m + n) /\ ~ (m + k <= m) /\ (m + k) - m = k
      BY <1>1, <1>2
    <2> QED  BY <2>1, <2>2, <2>3
  <1> HIDE DEF all
  <1>6. CASE m + n <= MaxHistory
    <2>1. Recorded(h, ids) = all
      BY <1>6, <1>5, <1>9
    <2>2. ASSUME NEW k \in 1 .. n
          PROVE  \E i \in DOMAIN all : all[i] = [id |-> ids[k], resolved |-> FALSE]
      <3>1. m + k \in DOMAIN all /\ all[m + k] = new[k]
        BY <1>1, <1>2, <1>5
      <3> QED  BY <3>1, <1>4
    <2> QED  BY <2>1, <2>2, <1>2, <1>5, <1>6
  <1>7. CASE m + n > MaxHistory
    <2> DEFINE kept == SubSeq(all, (m + n) - MaxHistory + 1, m + n)
    <2>1. Recorded(h, ids) = kept
      <3>1. Len(all) = m + n /\ ~ (Len(all) <= MaxHistory)
        BY <1>1, <1>2, <1>3, <1>5, <1>7
      <3> QED  BY <3>1, <1>9
    <2>2. PICK first \in Nat : first = (m + n) - MaxHistory + 1 /\ first >= 2
      BY <1>1, <1>2, <1>3, <1>7
    <2>3. \A i \in first .. (m + n) : all[i] \in Entries
      BY <2>2, <1>5, LenProperties
    <2>4. /\ kept \in Seq(Entries)
          /\ Len(kept) = MaxHistory
          /\ \A i \in 1 .. MaxHistory : kept[i] = all[first + i - 1]
      <3>1. /\ SubSeq(all, first, m + n) \in Seq(Entries)
            /\ Len(SubSeq(all, first, m + n)) = IF first <= m + n THEN (m + n) - first + 1 ELSE 0
            /\ \A i \in 1 .. ((m + n) - first + 1) :
                  SubSeq(all, first, m + n)[i] = all[first + i - 1]
        BY <2>2, <2>3, <1>1, <1>2, SubSeqProperties
      <3>2. first <= m + n /\ (m + n) - first + 1 = MaxHistory
        BY <2>2, <1>1, <1>2, <1>3
      <3> QED  BY <3>1, <3>2, <2>2
    <2>5. DOMAIN kept = 1 .. MaxHistory
      BY <2>4, LenProperties
    <2> HIDE DEF kept
    <2>6. ASSUME n <= MaxHistory, NEW k \in 1 .. n
          PROVE  \E i \in DOMAIN kept : kept[i] = [id |-> ids[k], resolved |-> FALSE]
      <3>1. PICK i \in 1 .. MaxHistory : first + i - 1 = m + k
        <4>1. (m + k) - first + 1 \in 1 .. MaxHistory
          BY <2>2, <2>6, <1>1, <1>2, <1>3, <1>7
        <4>2. first + ((m + k) - first + 1) - 1 = m + k
          BY <2>2, <1>1, <1>2
        <4> QED  BY <4>1, <4>2
      <3>2. kept[i] = all[m + k]
        BY <3>1, <2>4
      <3>3. kept[i] = new[k]
        BY <3>2, <1>5
      <3> QED  BY <3>3, <2>5, <1>4
    <2> QED  BY <2>1, <2>4, <2>6, <1>2, <1>3
  <1> QED  BY <1>1, <1>2, <1>3, <1>6, <1>7
-----------------------------------------------------------------------------
(* Every listing of a finite set names each member.                        *)
LEMMA ListingsAreComplete ==
    ASSUME NEW S, IsFiniteSet(S), NEW s \in SetToSeqs(S)
    PROVE  /\ s \in Seq(S) /\ Len(s) = Cardinality(S)
           /\ \A x \in S : \E i \in 1 .. Len(s) : s[i] = x
  <1>1. PICK n \in Nat : Cardinality(S) = n
    BY FS_CardinalityType
  <1>2. s \in [1 .. n -> S] /\ \A i, j \in 1 .. n : i # j => s[i] # s[j]
    BY <1>1 DEF SetToSeqs
  <1>3. s \in Seq(S) /\ Len(s) = n
    BY <1>2
  <1>4. s \in Injection(1 .. n, S)
    BY <1>2 DEF Injection, IsInjective
  <1>5. IsFiniteSet(1 .. n) /\ Cardinality(1 .. n) = n
    <2>1. Cardinality(1 .. n) = IF 1 > n THEN 0 ELSE n - 1 + 1
      BY FS_Interval
    <2> QED  BY <2>1, FS_Interval
  <1>6. s \in Surjection(1 .. n, S)
    BY <1>1, <1>4, <1>5, FS_Injection
  <1>7. \A x \in S : \E i \in 1 .. n : s[i] = x
    BY <1>6 DEF Surjection
  <1> QED  BY <1>1, <1>3, <1>7

(* There are finitely many things to find.                                 *)
LEMMA FindingsAreFinite ==
    ASSUME NEW S \in SUBSET Findings
    PROVE  IsFiniteSet(S)
  <1> DEFINE pairs == Kinds \X Orders
             f == [p \in pairs |-> [kind |-> p[1], order |-> p[2]]]
  <1>1. IsFiniteSet(Orders)
    BY OrderTrackingAssumption
  <1>2. IsFiniteSet(Kinds)
    <2>1. IsFiniteSet({}) /\ Kinds = {} \cup {"status"} \cup {"quantity"} \cup {"phantom"} \cup {"missing"}
      BY FS_EmptySet DEF Kinds
    <2>2. IsFiniteSet({} \cup {"status"} \cup {"quantity"})
      BY <2>1, FS_AddElement
    <2>3. IsFiniteSet({} \cup {"status"} \cup {"quantity"} \cup {"phantom"})
      BY <2>2, FS_AddElement
    <2>4. IsFiniteSet({} \cup {"status"} \cup {"quantity"} \cup {"phantom"} \cup {"missing"})
      BY <2>3, FS_AddElement
    <2> QED  BY <2>1, <2>4
  <1>3. IsFiniteSet(pairs)
    BY <1>1, <1>2, FS_Product
  <1>4. f \in Surjection(pairs, Findings)
    <2>1. f \in [pairs -> Findings]
      BY DEF Findings
    <2>2. \A e \in Findings : \E p \in pairs : f[p] = e
      <3> SUFFICES ASSUME NEW e \in Findings PROVE \E p \in pairs : f[p] = e
        OBVIOUS
      <3>1. <<e.kind, e.order>> \in pairs /\ f[<<e.kind, e.order>>] = e
        BY DEF Findings
      <3> QED  BY <3>1
    <2> QED  BY <2>1, <2>2 DEF Surjection
  <1>5. IsFiniteSet(Findings)
    BY <1>3, <1>4, FS_Surjection
  <1> QED  BY <1>5, FS_Subset

(* The three comparisons find findings, and no order both missing and not. *)
LEMMA FoundAreFindings ==
    ASSUME ShotInv
    PROVE  /\ Compared \cup Phantoms \in SUBSET Findings /\ Missing \in SUBSET Findings
           /\ (Compared \cup Phantoms) \cap Missing = {}
  <1>1. Compared \in SUBSET Findings /\ \A e \in Compared : e.kind # "missing"
    BY DEF Compared, Entry, Findings, Kinds, ShotInv
  <1>2. Phantoms \in SUBSET Findings /\ \A e \in Phantoms : e.kind # "missing"
    BY DEF Phantoms, Entry, Findings, Kinds, ShotInv
  <1>3. Missing \in SUBSET Findings /\ \A e \in Missing : e.kind = "missing"
    BY DEF Missing, Entry, Findings, Kinds, ShotInv
  <1> QED  BY <1>1, <1>2, <1>3

(* What one reconciliation does to the history.                            *)
LEMMA ReconcileRecords ==
    ASSUME ShotInv, Reconcile
    PROVE  /\ history' \in Seq(Entries) /\ Len(history') <= MaxHistory
           /\ \/ \A d \in found' : \E i \in DOMAIN history' :
                    history'[i].id = d /\ ~ history'[i].resolved
              \/ Cardinality(found') > MaxHistory
  <1> DEFINE A == Compared \cup Phantoms
             B == Missing
  <1>1. A \in SUBSET Findings /\ B \in SUBSET Findings /\ A \cap B = {}
    BY FoundAreFindings
  <1>2. IsFiniteSet(A) /\ IsFiniteSet(B)
    BY <1>1, FindingsAreFinite
  <1>3. found' = A \cup B
    BY DEF Reconcile
  <1>4. PICK order \in SetToSeqs(A), rest \in SetToSeqs(B) : history' = Recorded(history, order \o rest)
    BY DEF Reconcile
  <1> HIDE DEF A, B
  <1>5. /\ order \in Seq(A) /\ Len(order) = Cardinality(A)
        /\ \A x \in A : \E i \in 1 .. Len(order) : order[i] = x
    BY <1>2, ListingsAreComplete
  <1>6. /\ rest \in Seq(B) /\ Len(rest) = Cardinality(B)
        /\ \A x \in B : \E i \in 1 .. Len(rest) : rest[i] = x
    BY <1>2, ListingsAreComplete
  <1>7. order \in Seq(Findings) /\ rest \in Seq(Findings)
    BY <1>1, <1>5, <1>6, SeqMonotonic
  <1>8. PICK a, b \in Nat : Len(order) = a /\ Len(rest) = b
    BY <1>7, LenProperties
  <1> DEFINE ids == order \o rest
  <1>9. /\ ids \in Seq(Findings) /\ Len(ids) = a + b
        /\ \A i \in 1 .. (a + b) : ids[i] = IF i <= a THEN order[i] ELSE rest[i - a]
    BY <1>7, <1>8, ConcatProperties
  <1> HIDE DEF ids
  <1>10. \A x \in A \cup B : \E k \in 1 .. Len(ids) : ids[k] = x
    <2> SUFFICES ASSUME NEW x \in A \cup B PROVE \E k \in 1 .. (a + b) : ids[k] = x
      BY <1>9
    <2>1. CASE x \in A
      <3>1. PICK i \in 1 .. a : order[i] = x
        BY <2>1, <1>5, <1>8
      <3>2. i \in 1 .. (a + b) /\ ids[i] = x
        BY <3>1, <1>8, <1>9
      <3> QED  BY <3>2
    <2>2. CASE x \in B
      <3>1. PICK i \in 1 .. b : rest[i] = x
        BY <2>2, <1>6, <1>8
      <3>2. a + i \in 1 .. (a + b) /\ ~ (a + i <= a) /\ (a + i) - a = i
        BY <1>8
      <3>3. ids[a + i] = x
        BY <3>1, <3>2, <1>9
      <3> QED  BY <3>2, <3>3
    <2> QED  BY <2>1, <2>2
  <1>11. Cardinality(A \cup B) = Len(ids)
    <2>1. Cardinality(A \cup B) = Cardinality(A) + Cardinality(B) - Cardinality(A \cap B)
      BY <1>2, FS_Union
    <2>2. Cardinality(A \cap B) = 0
      BY <1>1, FS_EmptySet
    <2> QED  BY <2>1, <2>2, <1>5, <1>6, <1>8, <1>9
  <1>12. MaxHistory \in Nat /\ history \in Seq(Entries) /\ Len(history) <= MaxHistory
    BY ReconciliationAssumption DEF ShotInv
  <1>13. history' = Recorded(history, ids)
    BY <1>4 DEF ids
  <1>14. /\ Recorded(history, ids) \in Seq(Entries) /\ Len(Recorded(history, ids)) <= MaxHistory
         /\ Len(ids) <= MaxHistory =>
               \A k \in 1 .. Len(ids) : \E i \in DOMAIN Recorded(history, ids) :
                  Recorded(history, ids)[i] = [id |-> ids[k], resolved |-> FALSE]
    BY <1>9, <1>12, RecordedKeepsLatest
  <1>15. CASE Len(ids) <= MaxHistory
    <2> SUFFICES ASSUME NEW d \in A \cup B
                 PROVE  \E i \in DOMAIN history' : history'[i].id = d /\ ~ history'[i].resolved
      BY <1>3, <1>13, <1>14
    <2>1. PICK k \in 1 .. Len(ids) : ids[k] = d
      BY <1>10
    <2>2. PICK i \in DOMAIN history' : history'[i] = [id |-> ids[k], resolved |-> FALSE]
      BY <1>13, <1>14, <1>15
    <2> QED  BY <2>1, <2>2
  <1>16. CASE ~ (Len(ids) <= MaxHistory)
    BY <1>3, <1>8, <1>9, <1>11, <1>12, <1>13, <1>14, <1>16
  <1> QED  BY <1>15, <1>16

(* Nothing found means that the two snapshots agree.                       *)
LEMMA NothingFoundAgrees ==
    ASSUME ShotInv, Reconcile, found' = {}, NEW o \in Orders
    PROVE  LET tracked == o \in DOMAIN localShot /\ localShot[o].status \in Open
           IN  /\ tracked <=> o \in DOMAIN exchangeShot
               /\ tracked => /\ localShot[o].status = exchangeShot[o].status
                             /\ localShot[o].filled = exchangeShot[o].filled
  <1>1. Compared = {} /\ Phantoms = {} /\ Missing = {}
    BY DEF Reconcile
  <1>2. o \in DOMAIN exchangeShot => o \in DOMAIN localShot
    BY <1>1 DEF Missing
  <1>3. o \in DOMAIN localShot \ DOMAIN exchangeShot => localShot[o].status \in {"filled", "canceled"}
    BY <1>1 DEF Phantoms
  <1>4. o \in DOMAIN localShot \cap DOMAIN exchangeShot =>
           localShot[o].status = exchangeShot[o].status /\ localShot[o].filled = exchangeShot[o].filled
    BY <1>1 DEF Compared
  <1>5. o \in DOMAIN exchangeShot => exchangeShot[o].status \in Open
    BY DEF ShotInv
  <1> QED  BY <1>2, <1>3, <1>4, <1>5 DEF Open

(* Before the first snapshot there is nothing in either.                   *)
LEMMA ShotInit ==
    ASSUME RInit PROVE ShotInv
  <1>1. DOMAIN Nothing = {}
    BY DEF Nothing
  <1>2. history = <<>> /\ MaxHistory \in Nat
    BY ReconciliationAssumption DEF RInit
  <1> QED  BY <1>1, <1>2, EmptySeq DEF RInit, ShotInv

(* The daemon's invariant is kept by every step.                           *)
LEMMA ShotStep ==
    ASSUME ShotInv, [RNext]_rvars
    PROVE  ShotInv'
  <1>1. CASE Track
    BY <1>1 DEF Track, shots, daemon, ShotInv
  <1>2. CASE SnapLocal
    BY <1>2 DEF SnapLocal, daemon, ShotInv
  <1>3. CASE SnapExchange
    BY <1>3 DEF SnapExchange, daemon, ShotInv
  <1>4. CASE Reconcile
    <2>1. history' \in Seq(Entries) /\ Len(history') <= MaxHistory
      BY <1>4, ReconcileRecords
    <2>2. UNCHANGED shots
      BY <1>4 DEF Reconcile
    <2> QED  BY <2>1, <2>2 DEF shots, ShotInv
  <1>5. CASE MarkResolved
    <2>1. PICK i \in DOMAIN history : history' = [history EXCEPT ![i].resolved = TRUE]
      BY <1>5 DEF MarkResolved
    <2>2. history \in Seq(Entries) /\ Len(history) <= MaxHistory
      BY DEF ShotInv
    <2>3. i \in 1 .. Len(history) /\ history[i] \in Entries
      BY <2>2, LenProperties
    <2> DEFINE e == [history[i] EXCEPT !.resolved = TRUE]
    <2>4. e \in Entries
      BY <2>3 DEF Entries
    <2>5. history' = [history EXCEPT ![i] = e]
      BY <2>1
    <2>6. history' \in Seq(Entries) /\ Len(history') = Len(history)
      BY <2>2, <2>3, <2>4, <2>5, ExceptSeq
    <2>7. UNCHANGED shots
      BY <1>5 DEF MarkResolved
    <2> QED  BY <2>2, <2>6, <2>7 DEF shots, ShotInv
  <1>6. CASE UNCHANGED rvars
    BY <1>6 DEF rvars, shots, daemon, ShotInv
  <1> QED  BY <1>1, <1>2, <1>3, <1>4, <1>5, <1>6 DEF RNext

-----------------------------------------------------------------------------
(* The first invariant holds whatever the daemon does.                     *)
LEMMA TrackInvariant == RSpec => []TrackIInv
  <1>1. RInit => TrackIInv
    BY TrackInit DEF RInit
  <1>2. TrackIInv /\ [RNext]_rvars => TrackIInv'
    <2> SUFFICES ASSUME TrackIInv, [RNext]_rvars PROVE [Next]_vars
      BY TrackStep
    <2> QED  BY DEF RNext, Track, SnapLocal, SnapExchange, Reconcile, MarkResolved, rvars
  <1> QED  BY <1>1, <1>2, PTL DEF RSpec

(* The second invariant holds whatever the manager does.                   *)
LEMMA ShotInvariant == RSpec => []ShotInv
  <1>1. ShotInv /\ [RNext]_rvars => ShotInv'
    BY ShotStep
  <1> QED  BY <1>1, ShotInit, PTL DEF RSpec

(* Whatever reports are lost, repeated or dropped, and whatever restarts:  *)
(* the manager never runs ahead of the exchange, for any number of orders  *)
(* of any size (binance_order_manager.rs).                                 *)
THEOREM PictureNeverAhead == RSpec => []NeverAhead
  <1>1. TrackIInv => NeverAhead
    BY TrackImplies
  <1> QED  BY <1>1, TrackInvariant, PTL

(* Until the first fault every trade is counted once, and a stream that    *)
(* was read to its end leaves the manager and the exchange in agreement    *)
(* (binance_order_manager.rs).                                             *)
THEOREM PictureStaysExact == RSpec => []PictureIsExact
  <1>1. TrackIInv => PictureIsExact
    BY TrackImplies
  <1> QED  BY <1>1, TrackInvariant, PTL

(* A reconciliation that finds nothing may be relied on, and what one      *)
(* finds is on record when it returns, however far apart the two snapshots *)
(* were taken (reconciliation.rs).                                         *)
THEOREM AuditsMayBeTrusted == RSpec => ReportsAreTrue
  <1> DEFINE Agree == reconciles' # reconciles /\ found' = {} =>
                \A o \in Orders :
                  LET tracked == o \in DOMAIN localShot /\ localShot[o].status \in Open
                  IN  /\ tracked <=> o \in DOMAIN exchangeShot
                      /\ tracked => /\ localShot[o].status = exchangeShot[o].status
                                    /\ localShot[o].filled = exchangeShot[o].filled
             OnRecord == reconciles' # reconciles =>
                \/ \A d \in found' : \E i \in DOMAIN history' :
                      history'[i].id = d /\ ~ history'[i].resolved
                \/ Cardinality(found') > MaxHistory
  <1>1. ShotInv /\ [RNext]_rvars /\ reconciles' # reconciles => Reconcile
    BY DEF RNext, Track, SnapLocal, SnapExchange, MarkResolved, rvars, daemon
  <1>2. ShotInv /\ [RNext]_rvars => Agree
    BY <1>1, NothingFoundAgrees
  <1>3. ShotInv /\ [RNext]_rvars => OnRecord
    BY <1>1, ReconcileRecords
  <1>4. RSpec => [][Agree]_rvars
    BY <1>2, ShotInvariant, PTL DEF RSpec
  <1>5. RSpec => [][OnRecord]_rvars
    BY <1>3, ShotInvariant, PTL DEF RSpec
  <1> QED  BY <1>4, <1>5 DEF ReportsAreTrue, InSyncMeansAgreement, LatestIsRecorded
=============================================================================
