---------------------------- MODULE SliceSchedule ----------------------------
(***************************************************************************)
(* TwapExecutor and VwapExecutor of crates/execution/src/twap_vwap.rs.     *)
(* The driver asks should_execute_slice and get_next_slice_quantity and    *)
(* sends the slice.  update_total_quantity is left out: it assigns through *)
(* a shared reference, which does not compile.                             *)
(***************************************************************************)
EXTENDS ChildOrders

CONSTANTS
    Slice,          \* slice_quantity
    Interval,       \* slice_interval_ms, in ticks of the clock
    Profile,        \* volume_profile, before it is normalised
    MarketVolumes   \* market volume times participation rate

ASSUME SliceAssumption ==
    /\ Slice \in Nat \ {0} /\ Interval \in Nat
    /\ DOMAIN Profile \subseteq Nat \ {0} /\ Profile # << >>
    /\ MarketVolumes \subseteq Nat

VARIABLES
    active,         \* is_active
    elapsed,        \* since last_execution_ts, up to Interval
    bucket,         \* current_bucket
    bucketTarget    \* bucket_target, times the sum of the profile

sliceVars == <<active, elapsed, bucket, bucketTarget>>

SliceInit ==
    /\ active = FALSE
    /\ elapsed = Interval
    /\ bucket = 1
    /\ bucketTarget = 0

Buckets == DOMAIN Profile
Volume(bs) == MapThenSumSet(LAMBDA b : Profile[b], bs)

Start ==
    /\ algo \in {"twap", "vwap"}
    /\ active' = TRUE
    /\ bucketTarget' = IF algo = "vwap" THEN Quantity * Profile[1] ELSE bucketTarget
    /\ UNCHANGED <<childVars, elapsed, bucket>>

Stop ==
    /\ algo \in {"twap", "vwap"}
    /\ active' = FALSE
    /\ UNCHANGED <<childVars, elapsed, bucket, bucketTarget>>

PlaceTwapSlice ==
    /\ algo = "twap"
    /\ active /\ executed < Quantity /\ elapsed >= Interval
    /\ Place(Min({Slice, Remaining}))
    /\ UNCHANGED sliceVars

(* Mutant: the sum of the profile stops before the current bucket.         *)
MutantTargetParticipation == Volume({b \in Buckets : b < bucket})

(* get_current_target_participation, times the sum of the profile.         *)
TargetParticipation == Volume({b \in Buckets : b <= bucket})

PlaceVwapSlice ==
    /\ algo = "vwap"
    /\ active /\ executed < Quantity
    /\ executed * Volume(Buckets) < Quantity * TargetParticipation
    /\ \E m \in MarketVolumes : Place(Min({m, Remaining}))
    /\ UNCHANGED sliceVars

AddSlice(h) ==
    /\ algo \in {"twap", "vwap"}
    /\ Goto(h, "report", IF algo = "twap" THEN "stamp" ELSE "idle")
    /\ executed' = executed + qty[h]
    /\ UNCHANGED <<algo, working, filled, qty, held, overlapped, sliceVars>>

StampSlice(h) ==
    /\ Goto(h, "stamp", "idle")
    /\ elapsed' = 0
    /\ UNCHANGED <<algo, working, filled, executed, qty, held, overlapped,
                   active, bucket, bucketTarget>>

(* The wall clock.                                                         *)
TimePasses ==
    /\ algo = "twap" /\ elapsed < Interval
    /\ elapsed' = elapsed + 1
    /\ UNCHANGED <<childVars, active, bucket, bucketTarget>>

AdvanceBucket ==
    /\ algo = "vwap" /\ bucket + 1 \in Buckets
    /\ bucket' = bucket + 1
    /\ bucketTarget' = Remaining * Profile[bucket + 1]
    /\ UNCHANGED <<childVars, active, elapsed>>

SliceStep(h) == AddSlice(h) \/ StampSlice(h)

SliceNext ==
    \/ Start \/ Stop \/ PlaceTwapSlice \/ PlaceVwapSlice \/ TimePasses \/ AdvanceBucket
    \/ \E h \in Handlers : SliceStep(h)
=============================================================================
