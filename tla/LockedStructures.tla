-------------------------- MODULE LockedStructures --------------------------
(***************************************************************************)
(* The structures that several threads share behind locks.  They do not    *)
(* call one another: the threads are at work on one of them, whichever it  *)
(* is.                                                                     *)
(***************************************************************************)
EXTENDS ModelHotSwapper, UiStateCache, BatchScheduler, StateSynchronizer

CONSTANT Structures     \* those of interest: "swapper", "cache", "batches", "chains"

VARIABLE structure

lockedVars == <<pc, held, swapperVars, cacheVars, batchVars, chainVars, structure>>

LockedInit ==
    /\ structure \in Structures
    /\ pc = Idle /\ held = NoGuards
    /\ SwapperInit /\ CacheInit /\ BatchInit /\ ChainInit

AtSwapper == structure = "swapper" /\ UNCHANGED <<structure, cacheVars, batchVars, chainVars>>
AtCache == structure = "cache" /\ UNCHANGED <<structure, swapperVars, batchVars, chainVars>>
AtBatches == structure = "batches" /\ UNCHANGED <<structure, swapperVars, cacheVars, chainVars>>
AtChains == structure = "chains" /\ UNCHANGED <<structure, swapperVars, cacheVars, batchVars>>

LockedNext ==
    \/ SwapperNext /\ AtSwapper
    \/ CacheNext /\ AtCache
    \/ BatchNext /\ AtBatches
    \/ ChainNext /\ AtChains

Proceed(t) ==
    \/ SwapperStep(t) /\ AtSwapper
    \/ CacheStep(t) /\ AtCache
    \/ BatchStep(t) /\ AtBatches
    \/ ChainStep(t) /\ AtChains

LockedSpec == LockedInit /\ [][LockedNext]_lockedVars

(* A thread in a call runs on, and gets a lock that is free again and      *)
(* again: the scheduler's loop takes and gives up its locks for ever.      *)
FairSpec == LockedSpec /\ \A t \in Threads : SF_lockedVars(Proceed(t))

-----------------------------------------------------------------------------
Tangled ==
    \/ structure = "cache" /\ CacheTangled
    \/ structure = "batches" /\ BatchTangled
    \/ structure = "chains" /\ ChainTangled

(* The data behind the locks, whatever calls interleave: index and slots   *)
(* of the cache, the events of the scheduler, the maps of the synchronizer.*)
DataAgrees == IndexIsExact /\ EventsConserved /\ MapsAgree

(* No order of taking locks makes threads wait for one another, but for    *)
(* the ones named Tangled: every call returns, whatever other threads call *)
(* in between.                                                             *)
CallsEnd ==
    \A t \in Threads :
        Busy(t) ~> \/ ~ Busy(t)
                   \/ Tangled
                   \/ structure = "batches" /\ t = Scheduler

-----------------------------------------------------------------------------
(* Events for TLC: three, of which two have the same time.                 *)
SampleEvents == {[id |-> i, time |-> i \div 2, chain |-> 1 + (i % 2), block |-> i] : i \in 1 .. 3}
=============================================================================
