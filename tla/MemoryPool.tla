----------------------------- MODULE MemoryPool -----------------------------
(***************************************************************************)
(* MemoryPool of crates/core-engine/src/memory_pool.rs, used by several    *)
(* threads at once.  Every atomic operation of allocate, of dropping a     *)
(* buffer and of the peak update is a step of its own.  Bytes are not      *)
(* modelled: a buffer is the position acquire gave it in a slab.           *)
(***************************************************************************)
EXTENDS ThreadSteps, Integers, FiniteSets

CONSTANTS
    NumSlabs,       \* num_slabs
    SlabSize,       \* positions acquire hands out before a slab is full
    MaxAllocations, \* bound on the calls of allocate
    Wrap            \* the unsigned counter of a slab wraps here

ASSUME PoolAssumption ==
    /\ NumSlabs \in Nat \ {0}
    /\ SlabSize \in Nat \ {0}
    /\ Wrap \in Nat /\ Wrap > SlabSize + 1
    /\ MaxAllocations \in Nat

VARIABLES
    used,           \* Slab.used, per slab
    allocations,
    deallocations,
    peak,           \* peak_usage
    calls,          \* how often allocate was called
    slab,           \* local slab_idx
    loaded,         \* local: allocations, then current
    seen,           \* local `peak`
    live,           \* buffers in use: <<thread, slab, position, call>>
    most            \* history: the largest allocations - deallocations so far

poolVars == <<used, allocations, deallocations, peak, calls, slab, loaded, seen, live, most>>

SlabIds == 0 .. (NumSlabs - 1)

PoolInit ==
    /\ used = [s \in SlabIds |-> 0]
    /\ allocations = 0
    /\ deallocations = 0
    /\ peak = 0
    /\ calls = 0
    /\ slab = [t \in Threads |-> 0]
    /\ loaded = [t \in Threads |-> 0]
    /\ seen = [t \in Threads |-> 0]
    /\ live = {}
    /\ most = 0

(* allocate: the round-robin choice of a slab.                             *)
Pick(t) ==
    /\ Goto(t, "idle", "acquire")
    /\ calls < MaxAllocations
    /\ calls' = calls + 1
    /\ slab' = [slab EXCEPT ![t] = allocations % NumSlabs]
    /\ UNCHANGED <<used, allocations, deallocations, peak, loaded, seen, live, most>>

(* Slab::acquire.                                                          *)
Acquire(t) ==
    LET s == slab[t] IN
    /\ used' = [used EXCEPT ![s] = (@ + 1) % Wrap]
    /\ IF used[s] < SlabSize
         THEN /\ Goto(t, "acquire", "count")
              /\ live' = live \cup {<<t, s, used[s], calls>>}
         ELSE Goto(t, "acquire", "rollback") /\ UNCHANGED live
    /\ UNCHANGED <<allocations, deallocations, peak, calls, slab, loaded, seen, most>>

Rollback(t) ==
    /\ Goto(t, "rollback", "idle")
    /\ used' = [used EXCEPT ![slab[t]] = (@ - 1) % Wrap]
    /\ UNCHANGED <<allocations, deallocations, peak, calls, slab, loaded, seen, live, most>>

Count(t) ==
    /\ Goto(t, "count", "loadAllocations")
    /\ allocations' = allocations + 1
    /\ most' = IF allocations + 1 - deallocations > most
                 THEN allocations + 1 - deallocations ELSE most
    /\ UNCHANGED <<used, deallocations, peak, calls, slab, loaded, seen, live>>

(* The peak update: current is computed from two separate loads.           *)
LoadAllocations(t) ==
    /\ Goto(t, "loadAllocations", "loadDeallocations")
    /\ loaded' = [loaded EXCEPT ![t] = allocations]
    /\ UNCHANGED <<used, allocations, deallocations, peak, calls, slab, seen, live, most>>

LoadDeallocations(t) ==
    /\ Goto(t, "loadDeallocations", "loadPeak")
    /\ loaded' = [loaded EXCEPT ![t] =
                     IF @ > deallocations THEN @ - deallocations ELSE 0]
    /\ UNCHANGED <<used, allocations, deallocations, peak, calls, slab, seen, live, most>>

LoadPeak(t) ==
    /\ Goto(t, "loadPeak", "exchange")
    /\ seen' = [seen EXCEPT ![t] = peak]
    /\ UNCHANGED <<used, allocations, deallocations, peak, calls, slab, loaded, live, most>>

(* Mutant: a plain store in the place of the compare-exchange.             *)
MutantExchangePeak(t) ==
    /\ IF loaded[t] > seen[t]
         THEN peak' = loaded[t] ELSE UNCHANGED peak
    /\ Goto(t, "exchange", "idle")
    /\ UNCHANGED <<used, allocations, deallocations, calls, slab, loaded, seen, live, most>>

(* The body of `while current > peak`.                                     *)
ExchangePeak(t) ==
    /\ \/ /\ loaded[t] > seen[t] /\ peak = seen[t]
          /\ peak' = loaded[t]
          /\ Goto(t, "exchange", "idle")
          /\ UNCHANGED seen
       \/ /\ loaded[t] > seen[t] /\ peak # seen[t]
          /\ Goto(t, "exchange", "exchange")
          /\ seen' = [seen EXCEPT ![t] = peak]
          /\ UNCHANGED peak
       \/ /\ loaded[t] <= seen[t]
          /\ Goto(t, "exchange", "idle")
          /\ UNCHANGED <<peak, seen>>
    /\ UNCHANGED <<used, allocations, deallocations, calls, slab, loaded, live, most>>

(* A buffer is dropped: Slab::release resets the slab's counter ...        *)
Release(t) ==
    \E b \in live :
        /\ b[1] = t
        /\ Goto(t, "idle", "countDrop")
        /\ live' = live \ {b}
        /\ used' = [used EXCEPT ![b[2]] = 0]
        /\ UNCHANGED <<allocations, deallocations, peak, calls, slab, loaded, seen, most>>

(* ... and the drop is counted.                                            *)
CountDrop(t) ==
    /\ Goto(t, "countDrop", "idle")
    /\ deallocations' = deallocations + 1
    /\ UNCHANGED <<used, allocations, peak, calls, slab, loaded, seen, live, most>>

Allocate(t) ==
    \/ Pick(t) \/ Acquire(t) \/ Rollback(t) \/ Count(t)
    \/ LoadAllocations(t) \/ LoadDeallocations(t) \/ LoadPeak(t) \/ ExchangePeak(t)

Drop(t) == Release(t) \/ CountDrop(t)

PoolNext == \E t \in Threads : Allocate(t) \/ Drop(t)

-----------------------------------------------------------------------------
(* The racing updates of the peak never lose one: it only grows, and a     *)
(* thread that is through its loop leaves it at least at its own count.    *)
(* Nor does it exaggerate: although that count comes from two loads at     *)
(* different times, so many buffers were once counted at once.             *)
PeakKeepsMaximum ==
    [][ /\ peak <= peak' /\ peak' <= most'
        /\ \A t \in Threads :
              pc[t] = "exchange" /\ pc'[t] = "idle" => peak' >= loaded[t] ]_<<pc, poolVars>>
=============================================================================
