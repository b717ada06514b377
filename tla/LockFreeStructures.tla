------------------------- MODULE LockFreeStructures -------------------------
(***************************************************************************)
(* The structures that several threads share without a lock.  They do not  *)
(* call one another: the threads are at work on one of them, whichever it  *)
(* is.                                                                     *)
(***************************************************************************)
EXTENDS MemoryPool, TaskQueue, TokenBucket, TradeJournal, OrphanSweeper

CONSTANT Structures     \* those of interest: "pool", "queue", "bucket", "journal", "sweeper"

VARIABLE structure

Nobody == 0

sharedVars ==
    <<pc, held, poolVars, queueVars, bucketVars, journalVars, sweeperVars, structure>>

SharedInit ==
    /\ structure \in Structures
    /\ pc = Idle /\ held = NoGuards
    /\ PoolInit /\ QueueInit /\ BucketInit /\ JournalInit /\ SweeperInit
    /\ writer \in IF structure = "journal" THEN Threads ELSE {Nobody}

SharedNext ==
    /\ \/ /\ structure = "pool" /\ PoolNext
          /\ UNCHANGED <<queueVars, bucketVars, journalVars, sweeperVars>>
       \/ /\ structure = "queue" /\ QueueNext
          /\ UNCHANGED <<poolVars, bucketVars, journalVars, sweeperVars>>
       \/ /\ structure = "bucket" /\ BucketNext
          /\ UNCHANGED <<poolVars, queueVars, journalVars, sweeperVars>>
       \/ /\ structure = "journal" /\ JournalNext
          /\ UNCHANGED <<poolVars, queueVars, bucketVars, sweeperVars>>
       \/ /\ structure = "sweeper" /\ SweeperNext
          /\ UNCHANGED <<poolVars, queueVars, bucketVars, journalVars>>
    /\ UNCHANGED <<structure, held>>

(* Nothing that was accepted is mislaid or handled twice, neither a task   *)
(* of the scheduler's queue nor an order the sweeper watches.              *)
NothingMislaid == QueueAccounted /\ SweepAccounted

SharedSpec == SharedInit /\ [][SharedNext]_sharedVars

(* The threads are alike: TLC may take one for another.                    *)
Symmetry == Permutations(Threads)
=============================================================================
