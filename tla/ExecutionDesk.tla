---------------------------- MODULE ExecutionDesk ----------------------------
(***************************************************************************)
(* The execution algorithms at work: one of them, whichever it is, works   *)
(* one parent order or keeps one pegged order.                             *)
(***************************************************************************)
EXTENDS IcebergOrder, SliceSchedule, AdaptiveOrder, ReserveOrder, PeggedOrder

algoVars == <<icebergVars, sliceVars, adaptiveVars, reserveVars, pegVars>>
deskVars == <<childVars, algoVars>>

(* Without a pegged order its variables have some values.                  *)
SomePeg ==
    /\ peg = CHOOSE p \in [type : PegTypes, isBuy : BOOLEAN] : TRUE
    /\ book = CHOOSE b \in Books : TRUE
    /\ tick = CHOOSE t \in TickSizes : TRUE

DeskInit ==
    /\ ChildInit
    /\ IcebergInit /\ SliceInit /\ AdaptiveInit /\ ReserveInit /\ PegInit
    /\ algo # "pegged" => SomePeg

VenueNext ==
    /\ \E h \in Handlers : VenueFills(h)
    /\ UNCHANGED algoVars

Icebergs(action) == action /\ UNCHANGED <<sliceVars, adaptiveVars, reserveVars, pegVars>>
Slices(action) == action /\ UNCHANGED <<icebergVars, adaptiveVars, reserveVars, pegVars>>
Adaptives(action) == action /\ UNCHANGED <<icebergVars, sliceVars, reserveVars, pegVars>>
Reserves(action) == action /\ UNCHANGED <<icebergVars, sliceVars, adaptiveVars, pegVars>>
Pegging ==
    /\ algo = "pegged" /\ PegNext
    /\ UNCHANGED <<childVars, icebergVars, sliceVars, adaptiveVars, reserveVars>>

DeskNext ==
    \/ VenueNext
    \/ Icebergs(IcebergNext) \/ Slices(SliceNext)
    \/ Adaptives(AdaptiveNext) \/ Reserves(ReserveNext)
    \/ Pegging

(* The driver polls for ever, threads run, time passes and the venue fills *)
(* what it is sent.                                                        *)
Driver ==
    \/ Icebergs(PlaceClip) \/ Adaptives(PlaceAdaptive) \/ Reserves(PlaceReserve)
    \/ Slices(PlaceTwapSlice \/ PlaceVwapSlice)
Records(h) ==
    \/ Icebergs(IcebergStep(h)) \/ Slices(SliceStep(h))
    \/ Adaptives(AdaptiveStep(h)) \/ Reserves(ReserveStep(h))

DeskFairness ==
    /\ WF_deskVars(VenueNext) /\ WF_deskVars(Driver)
    /\ WF_deskVars(Slices(TimePasses \/ AdvanceBucket))
    /\ \A h \in Handlers : WF_deskVars(Records(h))

DeskSpec == DeskInit /\ [][DeskNext]_deskVars /\ DeskFairness

-----------------------------------------------------------------------------
(* The algorithms that keep their executed quantity with one atomic        *)
(* addition: whatever the interleaving of fills, clips, timers and changes *)
(* of the visible size, they keep the promise of a parent order.           *)
Exact == {"iceberg", "plain", "twap", "vwap", "discretionary"}
Parent ==
    INSTANCE ParentOrder WITH
        left <- IF algo \in Exact THEN Remaining ELSE Quantity,
        open <- IF algo \in Exact THEN working + Unrecorded ELSE 0
ImplementsParent == Parent!Spec

(* Records that do not overlap keep every algorithm's books, and the venue *)
(* fills more than the parent order only by what the manager of reserve    *)
(* orders ignored, or overlapping records of an adaptive order lost.       *)
BooksAgreeUnlessOverlapped ==
    /\ IcebergBooks /\ AdaptiveBooks /\ ReserveBooks
    /\ algo = "reserve" => filled <= Quantity + dropped
    /\ algo = "adaptive" /\ ~overlapped => filled <= Quantity
    /\ algo \in Exact => filled <= Quantity

(* A schedule that is not stopped, and a clip after clip, execute the      *)
(* whole order, although the clips themselves may be miscounted.           *)
ParentCompletes ==
    /\ algo \in {"twap", "vwap"} /\ <>[]active => <>(executed = Quantity)
    /\ algo \in {"iceberg", "plain", "discretionary"} => <>(executed = Quantity)
-----------------------------------------------------------------------------
(* For TLC: a profile of three buckets, and books that move by a tick or   *)
(* by several and close in on the bounds of the pegged order.              *)
SampleProfile == <<1, 2, 1>>
SampleBooks ==
    {[bid |-> b, ask |-> b + 2, primary |-> b + 1] : b \in 1 .. 4} \cup
    {[bid |-> 4, ask |-> 5, primary |-> 7]}
=============================================================================
