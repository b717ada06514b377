--------------------------- MODULE LockFreeProofs ---------------------------
(***************************************************************************)
(* Proofs about the structures of LockFreeStructures.  Each section has    *)
(* the inductive invariant of one structure and the proof that its steps   *)
(* keep it; the last one carries the results over to SharedSpec, where the *)
(* threads are at work on one structure and the others stay untouched.     *)
(***************************************************************************)
EXTENDS LockFreeStructures, SequenceTheorems, FiniteSetTheorems, TLAPS

-----------------------------------------------------------------------------
(***************************************************************************)
(* The memory pool: what each thread has loaded bounds what it may store.  *)
(***************************************************************************)
PeakTypeOK ==
    /\ DOMAIN pc = Threads
    /\ allocations \in Nat /\ deallocations \in Nat /\ peak \in Nat /\ most \in Nat
    /\ loaded \in [Threads -> Nat] /\ seen \in [Threads -> Nat]

(* How far the count of a thread and what it saw of the peak can be off.   *)
PeakInv ==
    /\ peak <= most /\ allocations - deallocations <= most
    /\ \A t \in Threads :
         /\ pc[t] = "loadDeallocations" => loaded[t] <= allocations
         /\ pc[t] \in {"loadPeak", "exchange"} => loaded[t] <= most
         /\ pc[t] = "exchange" => seen[t] <= peak

PeakIInv == PeakTypeOK /\ PeakInv

(* A step to somewhere else moves one thread.                              *)
LEMMA PeakStep ==
    ASSUME PeakIInv, PoolNext
    PROVE  /\ PeakIInv' /\ peak <= peak' /\ peak' <= most'
           /\ \A t \in Threads :
                 pc[t] = "exchange" /\ pc'[t] = "idle" => peak' >= loaded[t]
  <1> DEFINE Goal == /\ PeakIInv' /\ peak <= peak' /\ peak' <= most'
                     /\ \A t \in Threads :
                          pc[t] = "exchange" /\ pc'[t] = "idle" => peak' >= loaded[t]
  <1> SUFFICES ASSUME NEW t \in Threads, Allocate(t) \/ Drop(t) PROVE Goal
    BY DEF PoolNext
  <1> USE DEF PeakIInv, PeakTypeOK, PeakInv, Goto
  <1>1. CASE Pick(t)
    BY <1>1 DEF Pick
  <1>2. CASE Acquire(t)
    BY <1>2 DEF Acquire
  <1>3. CASE Rollback(t)
    BY <1>3 DEF Rollback
  <1>4. CASE Count(t)
    BY <1>4 DEF Count
  <1>5. CASE LoadAllocations(t)
    BY <1>5 DEF LoadAllocations
  <1>6. CASE LoadDeallocations(t)
    BY <1>6 DEF LoadDeallocations
  <1>7. CASE LoadPeak(t)
    BY <1>7 DEF LoadPeak
  <1>8. CASE ExchangePeak(t)
    BY <1>8 DEF ExchangePeak
  <1>9. CASE Release(t) \/ CountDrop(t)
    BY <1>9 DEF Release, CountDrop
  <1> QED  BY <1>1, <1>2, <1>3, <1>4, <1>5, <1>6, <1>7, <1>8, <1>9 DEF Allocate, Drop

-----------------------------------------------------------------------------
(***************************************************************************)
(* The token bucket.  Two invariants: one of the tokens handed out while no *)
(* two refills overlap, and one of what a refused caller was promised, which *)
(* holds whether they overlap or not.                                      *)
(***************************************************************************)
(* The whole number of periods in a sum is at least that in its parts.     *)
LEMMA DivideSum ==
    ASSUME NEW a \in Nat, NEW b \in Nat, NEW P \in Nat \ {0}
    PROVE  /\ a \div P \in Nat
           /\ a \div P + b \div P <= (a + b) \div P
           /\ a <= b => a \div P <= b \div P
  <1>1. PICK x \in Nat : x = a \div P
    OBVIOUS
  <1>2. PICK y \in Nat : y = b \div P
    OBVIOUS
  <1>3. PICK z \in Nat : z = (a + b) \div P
    OBVIOUS
  <1>4. /\ P * x <= a /\ a < P * (x + 1)
        /\ P * y <= b /\ b < P * (y + 1)
        /\ P * z <= a + b /\ a + b < P * (z + 1)
    BY <1>1, <1>2, <1>3
  <1>5. x + y <= z
    <2> SUFFICES ASSUME z + 1 <= x + y PROVE FALSE
      OBVIOUS
    <2>1. P * (z + 1) <= P * (x + y)
      OBVIOUS
    <2>2. P * (x + y) = P * x + P * y
      OBVIOUS
    <2> QED  BY <1>4, <2>1, <2>2
  <1>6. a <= b => x <= y
    <2> SUFFICES ASSUME a <= b, y + 1 <= x PROVE FALSE
      OBVIOUS
    <2>1. P * (y + 1) <= P * x
      OBVIOUS
    <2> QED  BY <1>4, <2>1
  <1> QED  BY <1>1, <1>2, <1>3, <1>5, <1>6

(* The smaller of two numbers.                                             *)
LEMMA MinOfTwo ==
    ASSUME NEW a \in Int, NEW b \in Int
    PROVE  Min({a, b}) \in {a, b} /\ Min({a, b}) <= a /\ Min({a, b}) <= b
  <1>1. \E x \in {a, b} : \A y \in {a, b} : x <= y
    <2>1. CASE a <= b
      BY <2>1
    <2>2. CASE b <= a
      BY <2>2
    <2> QED  BY <2>1, <2>2
  <1> QED  BY <1>1 DEF Min

(* So many periods fit in.                                                 *)
LEMMA DivideEnough ==
    ASSUME NEW a \in Nat, NEW k \in Int, NEW P \in Nat \ {0}, k * P <= a
    PROVE  k <= a \div P
  <1>1. PICK x \in Nat : x = a \div P
    OBVIOUS
  <1>2. a < (x + 1) * P
    BY <1>1
  <1>3. CASE x + 1 <= k
    <2>1. (x + 1) * P <= k * P
      BY <1>3
    <2>2. (x + 1) * P \in Int /\ k * P \in Int
      OBVIOUS
    <2> QED  BY <1>2, <2>1, <2>2
  <1> QED  BY <1>1, <1>3

Refilling(t) == pc[t] \in {"elapsed", "add", "store"}

BucketTypeOK ==
    /\ DOMAIN pc = Threads
    /\ now \in Nat /\ tokens \in Nat /\ last \in Nat /\ admitted \in Nat
    /\ want \in [Threads -> Nat] /\ clock \in [Threads -> Nat] /\ add \in [Threads -> Nat]
    /\ last <= now
    /\ \A t \in Threads : clock[t] <= now

(* While no two refills have overlapped, one thread at a time is in a      *)
(* refill, and what was handed out and what is left are worth the time of  *)
(* the last refill, or of the one that has not stored its time yet.        *)
RefillInv ==
    ~ raced =>
      /\ \A t, u \in Threads : Refilling(t) /\ Refilling(u) => t = u
      /\ \A t \in Threads :
           /\ Refilling(t) => last <= clock[t]
           /\ pc[t] = "add" => add[t] = (clock[t] - last) \div Period
           /\ pc[t] = "store" => admitted + tokens <= Capacity + clock[t] \div Period
      /\ (\A t \in Threads : pc[t] # "store") => admitted + tokens <= Capacity + last \div Period

BucketIInv == BucketTypeOK /\ RefillInv

(* The invariant implies the rate.                                         *)
LEMMA RefillRespectsRate ==
    ASSUME BucketAssumption, BucketIInv
    PROVE  RateRespectedUnlessRaced
  <1> SUFFICES ASSUME ~ raced PROVE admitted <= Capacity + now \div Period
    BY DEF RateRespectedUnlessRaced, RateRespected
  <1> USE DEF BucketIInv, BucketTypeOK, BucketAssumption
  <1>1. CASE \A t \in Threads : pc[t] # "store"
    <2>1. admitted + tokens <= Capacity + last \div Period
      BY <1>1 DEF RefillInv
    <2>2. last \div Period <= now \div Period /\ last \div Period \in Nat /\ now \div Period \in Nat
      BY DivideSum
    <2> QED  BY <2>1, <2>2
  <1>2. ASSUME NEW t \in Threads, pc[t] = "store"
        PROVE  admitted <= Capacity + now \div Period
    <2>1. admitted + tokens <= Capacity + clock[t] \div Period
      BY <1>2 DEF RefillInv
    <2>2. clock[t] \div Period <= now \div Period /\ clock[t] \div Period \in Nat /\ now \div Period \in Nat
      BY DivideSum
    <2> QED  BY <2>1, <2>2
  <1> QED  BY <1>1, <1>2

(* A refill never adds more than it computed.                              *)
LEMMA FilledBound ==
    ASSUME BucketAssumption, BucketTypeOK, NEW t \in Threads
    PROVE  /\ Filled(t) \in Nat /\ Filled(t) <= tokens + add[t]
           /\ Filled(t) \in {tokens + add[t], Capacity}
  <1>1. PICK a \in Nat : a = tokens + add[t]
    BY DEF BucketTypeOK
  <1>2. Capacity \in Nat
    BY DEF BucketAssumption
  <1>3. /\ Min({a, Capacity}) \in {a, Capacity}
        /\ Min({a, Capacity}) <= a
    <2>1. a \in Int /\ Capacity \in Int
      BY <1>2
    <2> QED  BY <2>1, MinOfTwo
  <1>4. Min({a, Capacity}) \in Nat
    BY <1>2, <1>3
  <1> QED  BY <1>1, <1>3, <1>4 DEF Filled

(* Every step of the bucket keeps the types.                               *)
LEMMA BucketStepTypes ==
    ASSUME BucketAssumption, BucketTypeOK, BucketNext
    PROVE  BucketTypeOK'
  <1> USE DEF BucketTypeOK, BucketAssumption, Goto
  <1>1. CASE Tick
    BY <1>1 DEF Tick, bucketHistory
  <1>2. ASSUME NEW t \in Threads, Caller(t) PROVE BucketTypeOK'
    <2>1. CASE Request(t)
      BY <2>1 DEF Request, bucketHistory
    <2>2. CASE ReadClock(t)
      BY <2>2 DEF ReadClock
    <2>3. CASE LoadLast(t)
      <3>1. clock[t] >= last => (clock[t] - last) \div Period \in Nat
        BY DivideSum
      <3>2. TokensToAdd(t) \in Nat
        BY <3>1 DEF TokensToAdd
      <3> QED  BY <2>3, <3>2 DEF LoadLast, bucketHistory
    <2>4. CASE AddTokens(t)
      <3>1. Filled(t) \in Nat
        BY FilledBound
      <3> QED  BY <2>4, <3>1 DEF AddTokens
    <2>5. CASE StoreLast(t)
      BY <2>5 DEF StoreLast, bucketHistory
    <2>6. CASE LoadTokens(t)
      BY <2>6 DEF LoadTokens
    <2>7. CASE Consume(t)
      BY <2>7 DEF Consume
    <2>8. CASE ConsumeFails(t) \/ Refuse(t)
      BY <2>8 DEF ConsumeFails, Refuse, bucketHistory
    <2> QED  BY <1>2, <2>1, <2>2, <2>3, <2>4, <2>5, <2>6, <2>7, <2>8 DEF Caller
  <1> QED  BY <1>1, <1>2 DEF BucketNext

(* Every step keeps the bound on what was handed out.                      *)
LEMMA BucketStep ==
    ASSUME BucketAssumption, BucketIInv, BucketNext
    PROVE  BucketIInv'
  <1>a. BucketTypeOK'
    BY BucketStepTypes DEF BucketIInv
  <1> USE DEF BucketIInv, BucketTypeOK, BucketAssumption, Goto
  <1>1. CASE Tick
    BY <1>1, <1>a DEF Tick, RefillInv, Refilling, bucketHistory
  <1>2. ASSUME NEW t \in Threads, Caller(t) PROVE BucketIInv'
    <2>1. CASE Request(t)
      BY <1>a, <2>1 DEF Request, bucketHistory, RefillInv, Refilling
    <2>2. CASE ReadClock(t)
      BY <1>a, <2>2 DEF ReadClock, RefillInv, Refilling
    <2>3. CASE LoadLast(t)
      <3>1. RefillInv'
        BY <2>3 DEF LoadLast, bucketHistory, RefillInv, Refilling, Refilled, TokensToAdd
      <3> QED  BY <1>a, <3>1
    <2>4. CASE AddTokens(t)
      <3>1. RefillInv'
        <4> SUFFICES ASSUME ~ raced PROVE RefillInv'
          BY <2>4 DEF AddTokens, RefillInv
        <4>1. \A u \in Threads \ {t} : ~ Refilling(u)
          BY <2>4 DEF AddTokens, RefillInv, Refilling
        <4>2. admitted + tokens <= Capacity + last \div Period
          BY <2>4, <4>1 DEF AddTokens, RefillInv, Refilling
        <4>3. clock[t] - last \in Nat /\ add[t] = (clock[t] - last) \div Period
          BY <2>4 DEF AddTokens, RefillInv, Refilling
        <4>4. last \div Period + (clock[t] - last) \div Period <= clock[t] \div Period
          <5> DEFINE d == clock[t] - last
          <5>1. last \div Period + d \div Period <= (last + d) \div Period
            BY <4>3, DivideSum
          <5>2. last + d = clock[t]
            BY <4>3
          <5> QED  BY <5>1, <5>2
        <4>5. last \div Period \in Nat /\ clock[t] \div Period \in Nat
          BY DivideSum
        <4>6. admitted + Filled(t) <= Capacity + clock[t] \div Period
          BY FilledBound, <4>2, <4>3, <4>4, <4>5
        <4> QED  BY <2>4, <4>1, <4>6 DEF AddTokens, RefillInv, Refilling
      <3> QED  BY <1>a, <3>1
    <2>5. CASE StoreLast(t)
      BY <1>a, <2>5 DEF StoreLast, bucketHistory, RefillInv, Refilling, Refilled
    <2>6. CASE LoadTokens(t)
      BY <1>a, <2>6 DEF LoadTokens, RefillInv, Refilling
    <2>7. CASE Consume(t)
      BY <1>a, <2>7 DEF Consume, RefillInv, Refilling
    <2>8. CASE ConsumeFails(t) \/ Refuse(t)
      BY <1>a, <2>8 DEF ConsumeFails, Refuse, bucketHistory, RefillInv, Refilling
    <2> QED  BY <1>2, <2>1, <2>2, <2>3, <2>4, <2>5, <2>6, <2>7, <2>8 DEF Caller
  <1> QED  BY <1>1, <1>2 DEF BucketNext

(* How much time the tokens that are missing for a promise are worth.      *)
Due(t) == (promise[t].want - tokens) * Period

(* A caller that was refused and has not looked at last_refill_ns again.   *)
Waits(t) == pc[t] \in {"idle", "refuse"} \/ (round[t] = 1 /\ pc[t] \in {"clock", "elapsed"})

PhaseTypeOK ==
    \A t \in Threads :
      /\ round[t] \in {1, 2}
      /\ pc[t] \in {"idle", "clock", "elapsed", "add", "store", "load", "consume", "refuse"}
      /\ pc[t] = "load" => round[t] = 1
      /\ pc[t] = "consume" => round[t] = 2
      /\ pc[t] # "idle" => want[t] \in Weights
      /\ promise[t].want \in 0 .. Capacity /\ promise[t].until \in Nat

(* What a promise rests on, from the refusal to the next look.             *)
PromiseInv ==
    \A t \in Threads : promise[t].want # 0 =>
      /\ Waits(t) =>
           /\ tokens < promise[t].want
           /\ last + Due(t) <= promise[t].until
           /\ \A u \in Threads : pc[u] = "store" => clock[u] + Due(t) <= promise[t].until
      /\ round[t] = 1 /\ pc[t] = "add" /\ clock[t] >= promise[t].until =>
           tokens + add[t] >= promise[t].want
      /\ round[t] = 1 /\ pc[t] \in {"store", "load"} /\ clock[t] >= promise[t].until =>
           tokens >= promise[t].want
      /\ round[t] = 2 /\ pc[t] \in {"clock", "elapsed", "add", "store", "consume"} =>
           tokens >= want[t]

RetryIInv ==
    /\ BucketTypeOK /\ PhaseTypeOK /\ PromiseInv
    /\ DOMAIN round = Threads /\ DOMAIN promise = Threads

(* The time that is due is a number.                                       *)
LEMMA DueType ==
    ASSUME BucketAssumption, RetryIInv, NEW t \in Threads
    PROVE  Due(t) \in Int
  BY DEF Due, RetryIInv, PhaseTypeOK, BucketTypeOK, BucketAssumption

(* Every step keeps the promises.                                          *)
LEMMA RetryStep ==
    ASSUME BucketAssumption, RetryIInv, BucketNext
    PROVE  RetryIInv'
  <1>a. BucketTypeOK'
    BY BucketStepTypes DEF RetryIInv
  <1>d. \A u \in Threads : Due(u) \in Int
    BY DueType
  <1> USE DEF RetryIInv, BucketTypeOK, BucketAssumption, Goto
  <1>1. CASE Tick
    <2>1. \A u \in Threads : Due(u)' = Due(u) /\ Waits(u)' = Waits(u)
      BY <1>1 DEF Tick, bucketHistory, Due, Waits
    <2>2. PhaseTypeOK'
      BY <1>1 DEF Tick, bucketHistory, PhaseTypeOK
    <2>3. PromiseInv'
      BY <1>1, <2>1 DEF Tick, bucketHistory, PromiseInv
    <2> QED  BY <1>1, <1>a, <2>2, <2>3 DEF Tick, bucketHistory
  <1>2. ASSUME NEW t \in Threads, Caller(t) PROVE RetryIInv'
    <2>1. CASE Request(t)
      <3> USE <2>1 DEF Request, bucketHistory
      <3>1. \A u \in Threads : Due(u)' = Due(u)
        BY DEF Due
      <3>2. PhaseTypeOK'
        BY DEF PhaseTypeOK
      <3>3. PromiseInv'
        BY <3>1, <1>d DEF PromiseInv, Waits, PhaseTypeOK
      <3> QED  BY <1>a, <3>2, <3>3
    <2>2. CASE ReadClock(t)
      <3> USE <2>2 DEF ReadClock
      <3>1. \A u \in Threads : Due(u)' = Due(u)
        BY DEF Due
      <3>2. PhaseTypeOK'
        BY DEF PhaseTypeOK
      <3>3. PromiseInv'
        BY <3>1, <1>d DEF PromiseInv, Waits, PhaseTypeOK
      <3> QED  BY <1>a, <3>2, <3>3
    <2>3. CASE LoadLast(t)
      <3>0. PICK k \in Nat : k = TokensToAdd(t)
        <4>1. clock[t] >= last => (clock[t] - last) \div Period \in Nat
          BY DivideSum
        <4> QED  BY <4>1 DEF TokensToAdd
      <3>1. ASSUME promise[t].want # 0, Waits(t), clock[t] >= promise[t].until, pc[t] = "elapsed"
            PROVE  tokens + k >= promise[t].want
        <4>1. promise[t].want - tokens \in Int /\ promise[t].want <= Capacity
          BY DEF PhaseTypeOK
        <4>2. CASE clock[t] < last
          BY <3>0, <4>1, <4>2 DEF TokensToAdd, PhaseTypeOK
        <4>3. CASE clock[t] >= last
          <5>1. (promise[t].want - tokens) * Period <= clock[t] - last
            BY <1>d, <3>1 DEF PromiseInv, Due, PhaseTypeOK
          <5>2. promise[t].want - tokens <= (clock[t] - last) \div Period
            BY <4>1, <4>3, <5>1, DivideEnough
          <5>3. k = (clock[t] - last) \div Period
            BY <3>0, <4>3 DEF TokensToAdd
          <5>4. promise[t].want - tokens <= k
            BY <5>2, <5>3
          <5> HIDE DEF RetryIInv
          <5>5. promise[t].want \in Int /\ tokens \in Int
            BY DEF RetryIInv, BucketTypeOK, PhaseTypeOK
          <5> QED  BY <5>4, <5>5
        <4> QED  BY <4>2, <4>3
      <3>2. /\ pc[t] = "elapsed"
            /\ pc' = [pc EXCEPT ![t] = IF k = 0 THEN Refilled(t) ELSE "add"]
            /\ add' = [add EXCEPT ![t] = k]
            /\ UNCHANGED <<now, tokens, last, round, want, clock, admitted, promise, raced>>
        BY <2>3, <3>0 DEF LoadLast, bucketHistory
      <3>3. \A u \in Threads : Due(u)' = Due(u)
        BY <3>2 DEF Due
      <3>4. PhaseTypeOK'
        BY <3>2 DEF PhaseTypeOK, Refilled
      <3>5. ASSUME NEW u \in Threads, u # t
            PROVE  /\ pc'[u] = pc[u] /\ add'[u] = add[u] /\ Waits(u)' = Waits(u)
        BY <3>2, <3>5 DEF Waits
      <3>6. \A u \in Threads : pc'[u] = "store" => pc[u] = "store"
        BY <3>2 DEF Refilled
      <3>7. PromiseInv'
        <4>1. ASSUME NEW u \in Threads, u # t, promise[u].want # 0
              PROVE  /\ Waits(u)' =>
                          /\ tokens < promise[u].want
                          /\ last + Due(u) <= promise[u].until
                          /\ \A v \in Threads : pc'[v] = "store" => clock[v] + Due(u) <= promise[u].until
                     /\ round[u] = 1 /\ pc'[u] = "add" /\ clock[u] >= promise[u].until =>
                          tokens + add'[u] >= promise[u].want
                     /\ round[u] = 1 /\ pc'[u] \in {"store", "load"} /\ clock[u] >= promise[u].until =>
                          tokens >= promise[u].want
                     /\ round[u] = 2 /\ pc'[u] \in {"clock", "elapsed", "add", "store", "consume"} =>
                          tokens >= want[u]
          BY <3>5, <3>6, <4>1 DEF PromiseInv
        <4>2. ASSUME promise[t].want # 0
              PROVE  /\ ~ Waits(t)'
                     /\ round[t] = 1 /\ pc'[t] = "add" /\ clock[t] >= promise[t].until =>
                          tokens + add'[t] >= promise[t].want
                     /\ round[t] = 1 /\ pc'[t] \in {"store", "load"} /\ clock[t] >= promise[t].until =>
                          tokens >= promise[t].want
                     /\ round[t] = 2 /\ pc'[t] \in {"clock", "elapsed", "add", "store", "consume"} =>
                          tokens >= want[t]
          <5>1. ~ Waits(t)'
            BY <3>2 DEF Waits, Refilled, PhaseTypeOK
          <5>2. round[t] = 1 => Waits(t)
            BY <3>2 DEF Waits
          <5>3. round[t] = 1 /\ clock[t] >= promise[t].until => tokens + k >= promise[t].want
            BY <3>1, <3>2, <4>2, <5>2
          <5>4. round[t] = 2 => tokens >= want[t]
            BY <3>2, <4>2 DEF PromiseInv
          <5>5. add'[t] = k /\ (pc'[t] \in {"store", "load"} => k = 0)
            BY <3>2 DEF Refilled
          <5> QED  BY <3>0, <5>1, <5>3, <5>4, <5>5 DEF PhaseTypeOK
        <4> QED  BY <3>2, <3>3, <4>1, <4>2 DEF PromiseInv
      <3> QED  BY <1>a, <3>2, <3>4, <3>7
    <2>4. CASE AddTokens(t)
      <3> USE <2>4 DEF AddTokens, Disturbed
      <3>0. PICK f \in Nat : f = Filled(t) /\ (f = tokens + add[t] \/ f = Capacity)
        <4>1. PICK a \in Nat : a = tokens + add[t]
          OBVIOUS
        <4>2. Min({a, Capacity}) \in {a, Capacity}
          <5>1. a \in Int /\ Capacity \in Int
            OBVIOUS
          <5> QED  BY <5>1, MinOfTwo
        <4> QED  BY <4>1, <4>2 DEF Filled
      <3>1. tokens' = f /\ \A u \in Threads \ {t} : promise'[u].want = 0 /\ promise'[u].until = 0
        BY <3>0 DEF NoPromise
      <3>2. promise'[t] = promise[t] /\ DOMAIN promise' = Threads
        OBVIOUS
      <3>3. PhaseTypeOK'
        BY <3>1, <3>2 DEF PhaseTypeOK
      <3>4. Filled(t) = tokens + add[t] \/ Filled(t) = Capacity
        BY <3>0
      <3>5. ASSUME promise[t].want # 0
            PROVE  /\ ~ Waits(t)'
                   /\ round[t] = 1 /\ clock[t] >= promise[t].until => f >= promise[t].want
                   /\ round[t] = 2 => f >= want[t]
        <4>1. promise[t].want <= Capacity /\ want[t] <= Capacity /\ want[t] \in Nat
          BY DEF PhaseTypeOK
        <4>2. ~ Waits(t)'
          BY DEF Waits
        <4>3. round[t] = 1 /\ clock[t] >= promise[t].until => tokens + add[t] >= promise[t].want
          BY <3>5 DEF PromiseInv
        <4>4. round[t] = 2 => tokens >= want[t]
          BY <3>5 DEF PromiseInv
        <4> QED  BY <3>0, <4>1, <4>2, <4>3, <4>4 DEF PhaseTypeOK
      <3>6. PromiseInv'
        BY <3>1, <3>2, <3>5 DEF PromiseInv
      <3> QED  BY <1>a, <3>2, <3>3, <3>6
    <2>5. CASE StoreLast(t)
      <3> USE <2>5 DEF StoreLast, bucketHistory
      <3>1. \A u \in Threads : Due(u)' = Due(u)
        BY DEF Due
      <3>2. PhaseTypeOK'
        BY DEF PhaseTypeOK, Refilled
      <3>3. ~ Waits(t)' /\ \A u \in Threads \ {t} : Waits(u)' = Waits(u) /\ pc'[u] = pc[u]
        BY DEF Waits, Refilled, PhaseTypeOK
      <3>4. pc[t] = "store" /\ pc'[t] \in {"load", "consume"} /\ (pc'[t] = "load" <=> round[t] = 1)
        BY DEF Refilled, PhaseTypeOK
      <3>5. PromiseInv'
        BY <3>1, <3>3, <3>4, <1>d DEF PromiseInv
      <3> QED  BY <1>a, <3>2, <3>5
    <2>6. CASE LoadTokens(t) /\ tokens >= want[t]
      <3> USE <2>6 DEF LoadTokens
      <3>1. \A u \in Threads : Due(u)' = Due(u)
        BY DEF Due
      <3>2. PhaseTypeOK'
        BY DEF PhaseTypeOK
      <3>3. ~ Waits(t)' /\ \A u \in Threads \ {t} : Waits(u)' = Waits(u) /\ pc'[u] = pc[u]
        BY DEF Waits
      <3>4. PromiseInv'
        BY <3>1, <3>3, <1>d DEF PromiseInv
      <3> QED  BY <1>a, <3>2, <3>4
    <2>7. CASE LoadTokens(t) /\ tokens < want[t]
      <3>0. PICK d \in Nat : d = Wait(t)
        <4>1. want[t] - tokens \in Nat
          BY <2>7 DEF PhaseTypeOK
        <4> QED  BY <4>1 DEF Wait
      <3>1. /\ pc[t] = "load" /\ pc' = [pc EXCEPT ![t] = "refuse"]
            /\ round' = [round EXCEPT ![t] = 2]
            /\ promise' = [promise EXCEPT ![t] = [want |-> want[t], until |-> now + d]]
            /\ UNCHANGED <<now, tokens, last, want, clock, add, admitted, raced>>
        <4>1. ~ (tokens >= want[t])
          BY <2>7
        <4> QED  BY <2>7, <3>0, <4>1 DEF LoadTokens
      <3>2. promise'[t].want = want[t] /\ promise'[t].until = now + d
        BY <3>1
      <3>3. Due(t)' = d /\ \A u \in Threads \ {t} : Due(u)' = Due(u)
        BY <3>0, <3>1, <3>2 DEF Due, Wait
      <3>4. PhaseTypeOK'
        BY <3>1, <3>2 DEF PhaseTypeOK
      <3>5. \A u \in Threads \ {t} : Waits(u)' = Waits(u) /\ pc'[u] = pc[u] /\ promise'[u] = promise[u]
        BY <3>1 DEF Waits
      <3>6. PromiseInv'
        <4>1. ASSUME NEW u \in Threads, u # t, promise[u].want # 0
              PROVE  /\ Waits(u)' =>
                          /\ tokens < promise[u].want
                          /\ last + Due(u) <= promise[u].until
                          /\ \A v \in Threads : pc'[v] = "store" => clock[v] + Due(u) <= promise[u].until
                     /\ round'[u] = 1 /\ pc'[u] = "add" /\ clock[u] >= promise[u].until =>
                          tokens + add[u] >= promise[u].want
                     /\ round'[u] = 1 /\ pc'[u] \in {"store", "load"} /\ clock[u] >= promise[u].until =>
                          tokens >= promise[u].want
                     /\ round'[u] = 2 /\ pc'[u] \in {"clock", "elapsed", "add", "store", "consume"} =>
                          tokens >= want[u]
          BY <3>1, <3>5, <4>1 DEF PromiseInv
        <4>2. last + d <= now + d /\ \A u \in Threads : clock[u] + d <= now + d
          OBVIOUS
        <4>3. pc'[t] = "refuse"
          BY <3>1
        <4> QED  BY <2>7, <3>1, <3>2, <3>3, <3>5, <4>1, <4>2, <4>3 DEF PromiseInv
      <3> QED  BY <1>a, <3>1, <3>4, <3>6
    <2>8. CASE Consume(t)
      <3> USE <2>8 DEF Consume, Disturbed
      <3>1. \A u \in Threads : promise'[u].want = 0 /\ promise'[u].until = 0
        BY DEF NoPromise
      <3>2. DOMAIN promise' = Threads
        OBVIOUS
      <3>3. PhaseTypeOK'
        BY <3>1 DEF PhaseTypeOK
      <3>4. PromiseInv'
        BY <3>1 DEF PromiseInv
      <3> QED  BY <1>a, <3>2, <3>3, <3>4
    <2>9. CASE ConsumeFails(t)
      <3> USE <2>9 DEF ConsumeFails, bucketHistory
      <3>1. \A u \in Threads : Due(u)' = Due(u)
        BY DEF Due
      <3>2. PhaseTypeOK'
        BY DEF PhaseTypeOK
      <3>3. promise[t].want = 0
        BY DEF PromiseInv, PhaseTypeOK
      <3>4. \A u \in Threads \ {t} : Waits(u)' = Waits(u) /\ pc'[u] = pc[u]
        BY DEF Waits
      <3>5. PromiseInv'
        BY <3>1, <3>3, <3>4, <1>d DEF PromiseInv
      <3> QED  BY <1>a, <3>2, <3>5
    <2>10. CASE Refuse(t)
      <3> USE <2>10 DEF Refuse, bucketHistory
      <3>1. \A u \in Threads : Due(u)' = Due(u)
        BY DEF Due
      <3>2. PhaseTypeOK'
        BY DEF PhaseTypeOK
      <3>3. \A u \in Threads : Waits(u)' = Waits(u)
        BY DEF Waits
      <3>4. PromiseInv'
        BY <3>1, <3>3, <1>d DEF PromiseInv
      <3> QED  BY <1>a, <3>2, <3>4
    <2>t. tokens >= want[t] \/ tokens < want[t]
      OBVIOUS
    <2> QED  BY <1>2, <2>1, <2>2, <2>3, <2>4, <2>5, <2>6, <2>7, <2>8, <2>9, <2>10, <2>t DEF Caller
  <1> QED  BY <1>1, <1>2 DEF BucketNext

(* Nobody is refused what was promised.                                    *)
LEMMA PromiseIsKept ==
    ASSUME BucketAssumption, RetryIInv, NEW t \in Threads,
           LoadTokens(t), tokens < want[t], promise[t].want = want[t]
    PROVE  clock[t] < promise[t].until
  <1>1. pc[t] = "load" /\ round[t] = 1 /\ want[t] # 0
    BY DEF LoadTokens, Goto, RetryIInv, PhaseTypeOK, BucketAssumption
  <1>2. clock[t] >= promise[t].until => tokens >= want[t]
    BY <1>1 DEF RetryIInv, PromiseInv
  <1> QED  BY <1>2 DEF RetryIInv, BucketTypeOK, PhaseTypeOK

-----------------------------------------------------------------------------
(***************************************************************************)
(* Sequences.                                                              *)
(***************************************************************************)
(* A sequence by its positions.                                            *)
LEMMA AnyPosition ==
    ASSUME NEW S, NEW s \in Seq(S)
    PROVE  /\ \A x : x \in ToSet(s) <=> \E i \in 1 .. Len(s) : x = s[i]
           /\ IsInjective(s) <=> \A i, j \in 1 .. Len(s) : s[i] = s[j] => i = j
           /\ Len(s) \in Nat /\ \A i \in 1 .. Len(s) : s[i] \in S
  <1>1. DOMAIN s = 1 .. Len(s) /\ Len(s) \in Nat
    BY LenProperties
  <1>2. \A x : x \in ToSet(s) <=> \E i \in 1 .. Len(s) : x = s[i]
    BY <1>1, Zenon DEF ToSet
  <1>3. IsInjective(s) <=> \A i, j \in 1 .. Len(s) : s[i] = s[j] => i = j
    BY <1>1, Zenon DEF IsInjective
  <1> QED  BY <1>1, <1>2, <1>3, ElementOfSeq

LEMMA NumbersByPosition ==
    \A s \in Seq(Nat) : \A x : x \in ToSet(s) <=> \E i \in 1 .. Len(s) : x = s[i]
  BY AnyPosition, Zenon

(* Something put at the end of a sequence.                                 *)
LEMMA AppendedElement ==
    ASSUME NEW S, NEW s \in Seq(S), NEW e \in S
    PROVE  /\ Append(s, e) \in Seq(S) /\ Len(Append(s, e)) = Len(s) + 1
           /\ ToSet(Append(s, e)) = ToSet(s) \cup {e}
           /\ IsInjective(s) /\ e \notin ToSet(s) => IsInjective(Append(s, e))
  <1>1. PICK a \in Seq(S) : a = Append(s, e)
    BY AppendProperties
  <1>2. PICK n \in Nat : n = Len(s)
    OBVIOUS
  <1>3. Len(a) = n + 1 /\ a[n + 1] = e /\ \A i \in 1 .. n : a[i] = s[i]
    BY <1>1, <1>2, AppendProperties
  <1>4. ToSet(a) = ToSet(s) \cup {e}
    <2>1. \A x : x \in ToSet(s) <=> \E i \in 1 .. n : x = s[i]
      BY <1>2, AnyPosition
    <2>2. \A x : x \in ToSet(a) <=> \E i \in 1 .. (n + 1) : x = a[i]
      BY <1>3, AnyPosition
    <2> QED  BY <1>3, <2>1, <2>2
  <1>5. ASSUME IsInjective(s), e \notin ToSet(s) PROVE IsInjective(a)
    <2>1. \A i \in 1 .. n : s[i] # e
      BY <1>2, <1>5, AnyPosition
    <2>2. \A i, j \in 1 .. n : s[i] = s[j] => i = j
      BY <1>2, <1>5, AnyPosition
    <2>3. \A i, j \in 1 .. (n + 1) : a[i] = a[j] => i = j
      BY <1>3, <2>1, <2>2
    <2> QED  BY <1>3, <2>3, AnyPosition
  <1> QED  BY <1>1, <1>2, <1>3, <1>4, <1>5

(* The first element of a sequence without repetitions is taken away.      *)
LEMMA FirstElement ==
    ASSUME NEW S, NEW s \in Seq(S), s # <<>>, IsInjective(s)
    PROVE  /\ Head(s) \in ToSet(s) /\ Head(s) \in S
           /\ Tail(s) \in Seq(S) /\ IsInjective(Tail(s)) /\ Len(Tail(s)) = Len(s) - 1
           /\ ToSet(Tail(s)) = ToSet(s) \ {Head(s)}
  <1>1. PICK n \in Nat : n = Len(s) - 1
    BY EmptySeq
  <1>2. PICK r \in Seq(S) : r = Tail(s)
    BY HeadTailProperties
  <1>3. Head(s) = s[1] /\ Len(s) = n + 1 /\ Len(r) = n /\ \A i \in 1 .. n : r[i] = s[i + 1]
    BY <1>1, <1>2, HeadTailProperties
  <1>4. \A x : x \in ToSet(s) <=> \E i \in 1 .. (n + 1) : x = s[i]
    <2>1. \A x : x \in ToSet(s) <=> \E i \in 1 .. Len(s) : x = s[i]
      BY AnyPosition, Zenon
    <2> QED  BY <1>3, <2>1
  <1>5. \A x : x \in ToSet(r) <=> \E i \in 1 .. n : x = r[i]
    <2>1. \A x : x \in ToSet(r) <=> \E i \in 1 .. Len(r) : x = r[i]
      BY AnyPosition, Zenon
    <2> QED  BY <1>3, <2>1
  <1>6. \A i, j \in 1 .. (n + 1) : s[i] = s[j] => i = j
    <2>1. \A i, j \in 1 .. Len(s) : s[i] = s[j] => i = j
      BY AnyPosition, Zenon
    <2> QED  BY <1>3, <2>1
  <1>7. s[1] \in ToSet(s) /\ s[1] \in S
    BY <1>3, <1>4, AnyPosition
  <1>8. IsInjective(r)
    <2>1. \A i, j \in 1 .. n : r[i] = r[j] => i = j
      BY <1>3, <1>6
    <2> QED  BY <1>3, <2>1, AnyPosition
  <1>9. ASSUME NEW x \in ToSet(s), x # s[1] PROVE x \in ToSet(r)
    <2>1. PICK i \in 1 .. (n + 1) : x = s[i]
      BY <1>4, <1>9
    <2>2. i - 1 \in 1 .. n /\ x = r[i - 1]
      BY <1>3, <1>9, <2>1
    <2> QED  BY <1>5, <2>2
  <1>10. ASSUME NEW x \in ToSet(r) PROVE x \in ToSet(s) /\ x # s[1]
    <2>1. PICK i \in 1 .. n : x = r[i]
      BY <1>5, <1>10
    <2>2. x = s[i + 1] /\ i + 1 \in 1 .. (n + 1) /\ i + 1 # 1
      BY <1>3, <2>1
    <2>3. s[i + 1] # s[1]
      BY <1>6, <2>2
    <2> QED  BY <1>4, <2>2, <2>3
  <1>11. ToSet(r) = ToSet(s) \ {s[1]}
    BY <1>9, <1>10
  <1> QED  BY <1>1, <1>2, <1>3, <1>7, <1>8, <1>11

(* The empty sequence.                                                     *)
LEMMA EmptyHasNothing ==
    ToSet(<<>>) = {} /\ IsInjective(<<>>) /\ <<>> \in Seq(Nat)
  BY DEF ToSet, IsInjective

-----------------------------------------------------------------------------
(***************************************************************************)
(* The orphan sweeper.  An order is in the queue, in the hands of one sweep, *)
(* removed or reported.                                                    *)
(***************************************************************************)
SweepTypeOK ==
    /\ DOMAIN pc = Threads
    /\ registered \in Nat
    /\ pendingOrders \in Seq(Nat)
    /\ late \subseteq 1 .. registered
    /\ stillPending \in [Threads -> Seq(Nat)]
    /\ DOMAIN orphans = Threads
    /\ lateAtStart \in [Threads -> SUBSET (1 .. registered)]
    /\ overlapped \in [Threads -> BOOLEAN]

Kept(t) == ToSet(stillPending[t])

(* Where an order can be.                                                  *)
Somewhere(o) ==
    o \in Waiting \/ o \in removed \/ o \in reported
    \/ \E t \in Threads : o \in orphans[t] \/ o \in Kept(t)

PlacesInv ==
    /\ \A o \in 1 .. registered : Somewhere(o)
    /\ \A o : Somewhere(o) => o \in 1 .. registered
    /\ removed \cap reported = {}
    /\ Waiting \cap (removed \cup reported) = {}
    /\ \A t \in Threads :
         /\ orphans[t] \cap Kept(t) = {}
         /\ orphans[t] \cap (Waiting \cup removed \cup reported) = {}
         /\ Kept(t) \cap (Waiting \cup removed \cup reported) = {}
         /\ \A u \in Threads \ {t} :
              orphans[t] \cap (orphans[u] \cup Kept(u)) = {} /\ Kept(t) \cap Kept(u) = {}

(* What one sweep has seen of the clock, and that it knows of another one. *)
LateInv ==
    \A t \in Threads :
      /\ ~ Sweeping(t) => stillPending[t] = <<>>
      /\ Sweeping(t) /\ ~ overlapped[t] =>
            /\ \A u \in Threads \ {t} : ~ Sweeping(u)
            /\ lateAtStart[t] \cap Kept(t) = {}
            /\ pc[t] = "requeue" => lateAtStart[t] \cap Waiting = {}

UniqueInv ==
    IsInjective(pendingOrders) /\ \A t \in Threads : IsInjective(stillPending[t])

SweepIInv == SweepTypeOK /\ PlacesInv /\ UniqueInv /\ LateInv

(* The invariant implies what SweepAccounted says.                         *)
LEMMA SweepFollows ==
    ASSUME SweepIInv PROVE SweepAccounted
  <1> USE DEF SweepIInv
  <1>1. Waiting \cup removed \cup reported \cup (UNION {InHands(t) : t \in Threads})
           = 1 .. registered
    <2>1. \A o : o \in UNION {InHands(t) : t \in Threads} <=> \E t \in Threads : o \in InHands(t)
      OBVIOUS
    <2>2. \A o : \A t \in Threads : o \in InHands(t) <=> o \in orphans[t] \/ o \in Kept(t)
      BY DEF InHands, Kept
    <2>3. \A o : Somewhere(o) <=>
             o \in Waiting \/ o \in UNION {InHands(t) : t \in Threads} \/ o \in removed \/ o \in reported
      BY <2>1, <2>2 DEF Somewhere
    <2>4. \A o : Somewhere(o) <=> o \in 1 .. registered
      BY DEF PlacesInv
    <2> QED  BY <2>3, <2>4
  <1>2. ASSUME NEW t \in Threads
        PROVE  /\ InHands(t) \cap (Waiting \cup removed \cup reported) = {}
               /\ \A u \in Threads \ {t} : InHands(t) \cap InHands(u) = {}
    BY DEF PlacesInv, InHands, Kept
  <1>3. ASSUME NEW t \in Threads, pc[t] = "requeue", ~ overlapped[t]
        PROVE  lateAtStart[t] \cap (Waiting \cup ToSet(stillPending[t])) = {}
    BY <1>3 DEF LateInv, Sweeping, Kept
  <1> QED  BY <1>1, <1>2, <1>3 DEF SweepAccounted, PlacesInv, UniqueInv

(* Every step of a sweep keeps the orders in their places.                 *)
LEMMA SweepStep ==
    ASSUME SweepIInv, SweeperNext
    PROVE  SweepIInv'
  <1> USE DEF SweepIInv
  <1>1. CASE TimeOut
    <2>1. \A u \in Threads : Sweeping(u)' = Sweeping(u) /\ Kept(u)' = Kept(u)
      BY <1>1 DEF TimeOut, Sweeping, Kept
    <2>2. Waiting' = Waiting
      BY <1>1 DEF TimeOut, Waiting
    <2>3. SweepTypeOK'
      BY <1>1 DEF TimeOut, SweepTypeOK
    <2>4. PlacesInv'
      BY <1>1, <2>1, <2>2 DEF TimeOut, PlacesInv, Somewhere
    <2>5. UniqueInv' /\ LateInv'
      BY <1>1, <2>1, <2>2 DEF TimeOut, UniqueInv, LateInv
    <2> QED  BY <2>3, <2>4, <2>5
  <1>2. ASSUME NEW t \in Threads, RegisterPending(t) PROVE SweepIInv'
    <2> USE <1>2 DEF RegisterPending
    <2>1. \A u \in Threads : Sweeping(u)' = Sweeping(u) /\ Kept(u)' = Kept(u)
      BY DEF Sweeping, Kept
    <2>2. registered + 1 \notin 1 .. registered /\ registered + 1 \in Nat
      BY DEF SweepTypeOK
    <2>3. ~ Somewhere(registered + 1)
      BY <2>2 DEF PlacesInv
    <2>4. /\ pendingOrders' \in Seq(Nat) /\ IsInjective(pendingOrders')
          /\ Waiting' = Waiting \cup {registered + 1}
      BY <2>2, <2>3, AppendedElement DEF SweepTypeOK, UniqueInv, Somewhere, Waiting
    <2>5. 1 .. (registered + 1) = (1 .. registered) \cup {registered + 1}
      BY DEF SweepTypeOK
    <2>6. SweepTypeOK'
      BY <2>2, <2>4, <2>5 DEF SweepTypeOK
    <2>7. PlacesInv'
      BY <2>1, <2>3, <2>4, <2>5 DEF PlacesInv, Somewhere
    <2>8. UniqueInv'
      BY <2>4 DEF UniqueInv
    <2>9. LateInv'
      BY <2>1, <2>2, <2>4 DEF LateInv, SweepTypeOK
    <2> QED  BY <2>6, <2>7, <2>8, <2>9
  <1>3. ASSUME NEW t \in Threads, NetworkTurns(t) \/ SetActive(t) PROVE SweepIInv'
    <2> USE <1>3 DEF NetworkTurns, SetActive
    <2>1. \A u \in Threads : Sweeping(u)' = Sweeping(u) /\ Kept(u)' = Kept(u)
      BY DEF Sweeping, Kept
    <2>2. Waiting' = Waiting
      BY DEF Waiting
    <2>3. SweepTypeOK'
      BY DEF SweepTypeOK
    <2>4. PlacesInv'
      BY <2>1, <2>2 DEF PlacesInv, Somewhere
    <2>5. UniqueInv' /\ LateInv'
      BY <2>1, <2>2 DEF UniqueInv, LateInv
    <2> QED  BY <2>3, <2>4, <2>5
  <1>4. ASSUME NEW t \in Threads, StartSweep(t) PROVE SweepIInv'
    <2> USE <1>4 DEF StartSweep, Goto
    <2>1. \A u \in Threads : Kept(u)' = Kept(u)
      BY DEF Kept
    <2>2. Waiting' = Waiting
      BY DEF Waiting
    <2>3. SweepTypeOK'
      BY DEF SweepTypeOK, Sweeping
    <2>4. PlacesInv'
      BY <2>1, <2>2 DEF PlacesInv, Somewhere
    <2>5. UniqueInv'
      BY DEF UniqueInv
    <2>6. \A u \in Threads : Sweeping(u)' = (u = t \/ Sweeping(u))
      BY DEF Sweeping, SweepTypeOK
    <2>7. ~ Sweeping(t) /\ pc[t] = "idle" /\ pc'[t] = "sweep"
      BY DEF Sweeping, SweepTypeOK
    <2>8. Kept(t) = {}
      BY <2>7, EmptyHasNothing DEF LateInv, Kept
    <2>9. LateInv'
      <3>1. \A u \in Threads : ~ Sweeping(u)' => stillPending'[u] = <<>>
        BY <2>6 DEF LateInv
      <3>2. ASSUME NEW u \in Threads, Sweeping(u)', ~ overlapped'[u]
            PROVE  u = t /\ \A v \in Threads : ~ Sweeping(v)
        BY <2>6, <2>7, <3>2 
      <3> QED  BY <2>1, <2>6, <2>7, <2>8, <3>1, <3>2 DEF LateInv
    <2> QED  BY <2>3, <2>4, <2>5, <2>9
  <1>5. ASSUME NEW t \in Threads, SweepOne(t) PROVE SweepIInv'
    <2> USE <1>5 DEF SweepOne
    <2>1. PICK o : o = Head(pendingOrders)
      OBVIOUS
    <2>2. /\ o \in Nat /\ o \in Waiting /\ pendingOrders' \in Seq(Nat)
          /\ IsInjective(pendingOrders') /\ Waiting' = Waiting \ {o}
      BY <2>1, FirstElement DEF SweepTypeOK, UniqueInv, Waiting
    <2>3. \A u \in Threads : Sweeping(u)' = Sweeping(u)
      BY DEF Sweeping
    <2>4. CASE IsOrphan(t, o)
      <3>1. orphans' = [orphans EXCEPT ![t] = @ \cup {o}] /\ stillPending' = stillPending
        BY <2>1, <2>4
      <3>2. \A u \in Threads : Kept(u)' = Kept(u)
        BY <3>1 DEF Kept
      <3>3. SweepTypeOK'
        BY <2>2, <3>1 DEF SweepTypeOK
      <3>4. \A u \in Threads : orphans'[u] = IF u = t THEN orphans[t] \cup {o} ELSE orphans[u]
        BY <3>1 DEF SweepTypeOK
      <3>5. PlacesInv'
        <4>1. removed' = removed /\ reported' = reported /\ registered' = registered
          OBVIOUS
        <4> HIDE <1>5
        <4>2. \A x : Somewhere(x)' <=> Somewhere(x)
          BY <2>2, <3>2, <3>4, <4>1 DEF Somewhere, PlacesInv
        <4> QED  BY <2>2, <3>2, <3>4, <4>1, <4>2 DEF PlacesInv
      <3>6. UniqueInv'
        BY <2>2, <3>1 DEF UniqueInv
      <3>7. LateInv'
        BY <2>2, <2>3, <3>1, <3>2 DEF LateInv
      <3> QED  BY <3>3, <3>5, <3>6, <3>7
    <2>5. CASE ~ IsOrphan(t, o)
      <3>1. stillPending' = [stillPending EXCEPT ![t] = Append(@, o)] /\ orphans' = orphans
        BY <2>1, <2>5
      <3>2. o \notin Kept(t)
        BY <2>2 DEF PlacesInv
      <3>3. /\ Append(stillPending[t], o) \in Seq(Nat)
            /\ ToSet(Append(stillPending[t], o)) = Kept(t) \cup {o}
            /\ IsInjective(Append(stillPending[t], o))
        BY <2>2, <3>2, AppendedElement DEF SweepTypeOK, UniqueInv, Kept
      <3>4. \A u \in Threads : Kept(u)' = IF u = t THEN Kept(t) \cup {o} ELSE Kept(u)
        BY <3>1, <3>3 DEF Kept, SweepTypeOK
      <3>5. SweepTypeOK'
        BY <2>2, <3>1, <3>3 DEF SweepTypeOK
      <3>6. PlacesInv'
        <4>1. /\ removed' = removed /\ reported' = reported
              /\ registered' = registered /\ orphans' = orphans
          BY <3>1
        <4> HIDE <1>5
        <4>2. \A x : Somewhere(x)' <=> Somewhere(x)
          BY <2>2, <3>4, <4>1 DEF Somewhere, PlacesInv
        <4> QED  BY <2>2, <3>4, <4>1, <4>2 DEF PlacesInv
      <3>7. UniqueInv'
        BY <2>2, <3>1, <3>3 DEF UniqueInv, SweepTypeOK
      <3>8. o \notin lateAtStart[t] /\ Sweeping(t)
        BY <2>5 DEF IsOrphan, Sweeping
      <3>9. LateInv'
        BY <2>2, <2>3, <3>1, <3>4, <3>8 DEF LateInv, SweepTypeOK
      <3> QED  BY <3>5, <3>6, <3>7, <3>9
    <2> QED  BY <2>4, <2>5
  <1>6. ASSUME NEW t \in Threads, SweptAll(t) PROVE SweepIInv'
    <2> USE <1>6 DEF SweptAll, Goto, sweeperVars
    <2>1. \A u \in Threads : Sweeping(u)' = Sweeping(u) /\ Kept(u)' = Kept(u)
      BY DEF Sweeping, Kept, SweepTypeOK
    <2>2. Waiting' = Waiting /\ Waiting = {}
      BY EmptyHasNothing DEF Waiting
    <2>3. SweepTypeOK'
      BY DEF SweepTypeOK
    <2>4. PlacesInv'
      BY <2>1, <2>2 DEF PlacesInv, Somewhere
    <2>5. UniqueInv'
      BY DEF UniqueInv
    <2>6. LateInv'
      BY <2>1, <2>2 DEF LateInv
    <2> QED  BY <2>3, <2>4, <2>5, <2>6
  <1>7. ASSUME NEW t \in Threads, Requeue(t) PROVE SweepIInv'
    <2> USE <1>7 DEF Requeue
    <2>1. PICK o : o = Head(stillPending[t])
      OBVIOUS
    <2>2. /\ o \in Nat /\ o \in Kept(t)
          /\ Tail(stillPending[t]) \in Seq(Nat) /\ IsInjective(Tail(stillPending[t]))
          /\ ToSet(Tail(stillPending[t])) = Kept(t) \ {o}
      BY <2>1, FirstElement DEF SweepTypeOK, UniqueInv, Kept
    <2>3. o \notin Waiting
      BY <2>2 DEF PlacesInv
    <2>4. /\ pendingOrders' \in Seq(Nat) /\ IsInjective(pendingOrders')
          /\ Waiting' = Waiting \cup {o}
      BY <2>1, <2>2, <2>3, AppendedElement DEF SweepTypeOK, UniqueInv, Waiting
    <2>5. \A u \in Threads : Sweeping(u)' = Sweeping(u)
      BY DEF Sweeping
    <2>6. \A u \in Threads : Kept(u)' = IF u = t THEN Kept(t) \ {o} ELSE Kept(u)
      BY <2>2 DEF Kept, SweepTypeOK
    <2>7. SweepTypeOK'
      BY <2>2, <2>4 DEF SweepTypeOK
    <2>8. PlacesInv'
      <3>1. /\ removed' = removed /\ reported' = reported
            /\ registered' = registered /\ orphans' = orphans
        OBVIOUS
      <3> HIDE <1>7
      <3>2. \A x : Somewhere(x)' <=> Somewhere(x)
        BY <2>2, <2>4, <2>6, <3>1 DEF Somewhere, PlacesInv
      <3> QED  BY <2>2, <2>4, <2>6, <3>1, <3>2 DEF PlacesInv
    <2>9. UniqueInv'
      BY <2>2, <2>4 DEF UniqueInv, SweepTypeOK
    <2>10. Sweeping(t)
      BY DEF Sweeping
    <2>11. LateInv'
      BY <2>2, <2>4, <2>5, <2>6, <2>10 DEF LateInv, SweepTypeOK
    <2> QED  BY <2>7, <2>8, <2>9, <2>11
  <1>8. ASSUME NEW t \in Threads, SweepReturns(t) PROVE SweepIInv'
    <2> USE <1>8 DEF SweepReturns, Goto
    <2>1. \A u \in Threads : Kept(u)' = Kept(u)
      BY DEF Kept
    <2>2. Waiting' = Waiting
      BY DEF Waiting
    <2>3. SweepTypeOK'
      BY DEF SweepTypeOK
    <2>4. \A u \in Threads : orphans'[u] = IF u = t THEN {} ELSE orphans[u]
      BY DEF SweepTypeOK
    <2>5. PlacesInv'
      BY <2>1, <2>2, <2>4 DEF PlacesInv, Somewhere
    <2>6. UniqueInv'
      BY DEF UniqueInv
    <2>7. \A u \in Threads : Sweeping(u)' = (u # t /\ Sweeping(u))
      BY DEF Sweeping, SweepTypeOK
    <2>8. LateInv'
      BY <2>1, <2>2, <2>7 DEF LateInv, SweepTypeOK
    <2> QED  BY <2>3, <2>5, <2>6, <2>8
  <1>9. ASSUME NEW t \in Threads, ClearPending(t) PROVE SweepIInv'
    <2> USE <1>9 DEF ClearPending, Goto
    <2>1. \A u \in Threads : Sweeping(u)' = Sweeping(u) /\ Kept(u)' = Kept(u)
      BY DEF Sweeping, Kept, SweepTypeOK
    <2>2. PICK left : /\ left \subseteq Waiting /\ Waiting' = Waiting \ left
                      /\ removed' = removed \cup left
                      /\ pendingOrders' \in Seq(Nat) /\ IsInjective(pendingOrders')
      <3>1. CASE pendingOrders = <<>>
        BY <3>1, EmptyHasNothing DEF Waiting
      <3>2. CASE pendingOrders # <<>>
        <4>1. /\ Head(pendingOrders) \in Waiting
              /\ pendingOrders' \in Seq(Nat) /\ IsInjective(pendingOrders')
              /\ Waiting' = Waiting \ {Head(pendingOrders)}
          BY <3>2, FirstElement DEF SweepTypeOK, UniqueInv, Waiting
        <4> QED  BY <3>2, <4>1
      <3> QED  BY <3>1, <3>2
    <2>3. SweepTypeOK'
      BY <2>2 DEF SweepTypeOK
    <2>4. PlacesInv'
      BY <2>1, <2>2 DEF PlacesInv, Somewhere
    <2>5. UniqueInv'
      BY <2>2 DEF UniqueInv
    <2>6. \A u \in Threads : pc'[u] = "requeue" => pc[u] = "requeue"
      BY DEF SweepTypeOK
    <2>7. LateInv'
      BY <2>1, <2>2, <2>6 DEF LateInv
    <2> QED  BY <2>3, <2>4, <2>5, <2>7
  <1> QED  BY <1>1, <1>2, <1>3, <1>4, <1>5, <1>6, <1>7, <1>8, <1>9 DEF SweeperNext

-----------------------------------------------------------------------------
(***************************************************************************)
(* The trade journal.  At(k) is the k-th event that was not dropped,       *)
(* wherever it is: every step of the two threads keeps them in place.      *)
(***************************************************************************)
(* One writer and, as the ring of the journal is made for, one reader.     *)
OneReader == \A t, u, v \in Threads : t = u \/ t = v \/ u = v

(* What is left of a sequence from some position on.                       *)
LEMMA RestOfSequence ==
    ASSUME NEW b \in Seq(Nat), NEW f \in Nat, f <= Len(b)
    PROVE  /\ SubSeq(b, f + 1, Len(b)) \in Seq(Nat)
           /\ Len(SubSeq(b, f + 1, Len(b))) = Len(b) - f
           /\ \A i \in 1 .. (Len(b) - f) : SubSeq(b, f + 1, Len(b))[i] = b[f + i]
  <1>1. PICK n \in Nat : n = Len(b)
    OBVIOUS
  <1>2. \A i \in (f + 1) .. n : b[i] \in Nat
    BY <1>1, ElementOfSeq
  <1>3. /\ SubSeq(b, f + 1, n) \in Seq(Nat)
        /\ Len(SubSeq(b, f + 1, n)) = IF f + 1 <= n THEN n - (f + 1) + 1 ELSE 0
        /\ \A i \in 1 .. n - (f + 1) + 1 : SubSeq(b, f + 1, n)[i] = b[(f + 1) + i - 1]
    <2>1. f + 1 \in Int /\ n \in Int
      OBVIOUS
    <2> QED  BY <1>2, <2>1, SubSeqProperties
  <1>4. PICK s : s = SubSeq(b, f + 1, n)
    OBVIOUS
  <1>5. Len(s) = n - f
    BY <1>1, <1>3, <1>4
  <1>6. \A i \in 1 .. (n - f) : s[i] = b[f + i]
    BY <1>1, <1>3, <1>4
  <1> QED  BY <1>1, <1>3, <1>4, <1>5, <1>6

(* Two sequences in a row.                                                 *)
LEMMA TwoParts ==
    ASSUME NEW p \in Seq(Nat), NEW r \in Seq(Nat)
    PROVE  /\ p \o r \in Seq(Nat) /\ Len(p \o r) = Len(p) + Len(r)
           /\ \A i \in 1 .. Len(p) : (p \o r)[i] = p[i]
           /\ \A i \in 1 .. Len(r) : (p \o r)[Len(p) + i] = r[i]
  OBVIOUS

(* A number by its quotient and its rest.                                  *)
LEMMA QuotientAndRest ==
    ASSUME NEW a \in Nat, NEW N \in Nat \ {0}
    PROVE  \E x \in Nat, r \in Nat : a = N * x + r /\ r = a % N
  <1>1. PICK x \in Nat : x = a \div N
    OBVIOUS
  <1>2. PICK r \in Nat : r = a % N
    OBVIOUS
  <1>3. a = N * x + r
    BY <1>1, <1>2
  <1> QED  BY <1>2, <1>3

(* The slot of a place in the ring.                                        *)
Slot(i) == i % RingSlots

(* Two places of the ring less than a turn apart are not the same slot.    *)
LEMMA SlotsApart ==
    ASSUME JournalAssumption, NEW a \in Nat, NEW b \in Nat, a < b, b - a < RingSlots
    PROVE  Slot(a) # Slot(b)
  <1> SUFFICES ASSUME a % RingSlots = b % RingSlots PROVE FALSE
    BY DEF Slot
  <1>1. PICK N \in Nat \ {0} : N = RingSlots
    BY DEF JournalAssumption
  <1>2. PICK x \in Nat, r \in Nat : a = N * x + r /\ r = a % N
    BY QuotientAndRest
  <1>3. PICK y \in Nat, s \in Nat : b = N * y + s /\ s = b % N
    BY QuotientAndRest
  <1>4. r = s
    BY <1>1, <1>2, <1>3
  <1>5. CASE y <= x
    <2>1. N * y <= N * x
      BY <1>5
    <2> QED  BY <1>2, <1>3, <1>4, <2>1
  <1>6. CASE y >= x + 1
    <2>1. N * y >= N * (x + 1)
      BY <1>6
    <2>2. N * (x + 1) = N * x + N
      OBVIOUS
    <2> QED  BY <1>1, <1>2, <1>3, <1>4, <2>1, <2>2
  <1> QED  BY <1>5, <1>6

(* A slot is a position of the ring.                                       *)
LEMMA SlotInRange ==
    ASSUME JournalAssumption, NEW a \in Nat
    PROVE  Slot(a) \in 0 .. (RingSlots - 1)
  BY DEF JournalAssumption, Slot

(* The k-th event of the journal and how many there are.                   *)
At(k) ==
    IF k <= tail THEN popped[k]
    ELSE IF k <= head THEN ring[Slot(k - 1)]
    ELSE batch[flushed + (k - head)]
Total == head + (Len(batch) - flushed)

JournalTypeOK ==
    /\ DOMAIN pc = Threads
    /\ writer \in Threads
    /\ batch \in Seq(Nat) /\ flushed \in Nat /\ flushed <= Len(batch)
    /\ ring \in [0 .. (RingSlots - 1) -> Nat]
    /\ head \in Nat /\ tail \in Nat /\ tail <= head /\ head - tail <= RingSlots
    /\ count \in Int /\ taken \in Nat /\ logged \in Nat
    /\ popped \in Seq(Nat) /\ Len(popped) = tail

EventsInv ==
    /\ \A k \in 1 .. Total : At(k) \in 1 .. logged /\ At(k) \notin discarded
    /\ \A j, k \in 1 .. Total : j < k => At(j) < At(k)
    /\ discarded \subseteq 1 .. logged
    /\ \A e \in 1 .. logged : e \in discarded \/ \E k \in 1 .. Total : At(k) = e

WriterInv ==
    /\ pc[writer] \in {"idle", "push", "write", "publish", "countPush"}
    /\ pc[writer] = "idle" => flushed = 0
    /\ pc[writer] \in {"push", "write", "publish"} => flushed < Len(batch)
    /\ pc[writer] \in {"write", "publish"} => head - tail < RingSlots
    /\ pc[writer] = "publish" => ring[Slot(head)] = batch[flushed + 1]

ReaderInv ==
    \A t \in Threads \ {writer} :
        /\ pc[t] \in {"idle", "advance", "countPop"}
        /\ pc[t] = "advance" => tail < head /\ taken = ring[Slot(tail)]

CountInv ==
    count = (head - tail) - (IF pc[writer] = "countPush" THEN 1 ELSE 0)
              + (IF \E t \in Threads \ {writer} : pc[t] = "countPop" THEN 1 ELSE 0)

JournalIInv == JournalTypeOK /\ EventsInv /\ WriterInv /\ ReaderInv /\ CountInv

(* The invariant implies what JournalIsComplete says.                      *)
LEMMA JournalFollows ==
    ASSUME JournalAssumption, JournalIInv
    PROVE  JournalIsComplete
  <1> USE DEF JournalIInv, JournalTypeOK, JournalAssumption
  <1>1. PICK n \in Nat : n = head - tail
    OBVIOUS
  <1>2. PICK r \in Seq(Nat) : r = InRing /\ Len(r) = n /\ \A i \in 1 .. n : r[i] = ring[Slot(tail + i - 1)]
    <2>1. \A i \in 1 .. n : tail + i - 1 \in Nat
      OBVIOUS
    <2>2. \A i \in 1 .. n : Slot(tail + i - 1) \in 0 .. (RingSlots - 1)
      BY <2>1, SlotInRange
    <2>3. InRing = [i \in 1 .. n |-> ring[Slot(tail + i - 1)]]
      BY <1>1 DEF InRing, Slot
    <2>4. InRing \in [1 .. n -> Nat]
      BY <2>2, <2>3
    <2>5. InRing \in Seq(Nat) /\ Len(InRing) = n
      BY <2>4
    <2> QED  BY <2>3, <2>5
  <1>3. PICK q \in Seq(Nat), m \in Nat :
             /\ q = SubSeq(batch, flushed + 1, Len(batch))
             /\ m = Len(batch) - flushed /\ Len(q) = m
             /\ \A i \in 1 .. m : q[i] = batch[flushed + i]
    <2>1. Len(batch) - flushed \in Nat
      OBVIOUS
    <2>2. batch \in Seq(Nat) /\ flushed \in Nat /\ flushed <= Len(batch)
      OBVIOUS
    <2> HIDE DEF JournalIInv
    <2>3. /\ SubSeq(batch, flushed + 1, Len(batch)) \in Seq(Nat)
          /\ Len(SubSeq(batch, flushed + 1, Len(batch))) = Len(batch) - flushed
          /\ \A i \in 1 .. (Len(batch) - flushed) :
               SubSeq(batch, flushed + 1, Len(batch))[i] = batch[flushed + i]
      BY <2>2, RestOfSequence, Zenon
    <2> QED  BY <2>1, <2>3, Zenon
  <1>4. PICK p \in Seq(Nat) :
             /\ p = popped \o r /\ Len(p) = tail + n
             /\ \A i \in 1 .. tail : p[i] = popped[i]
             /\ \A i \in 1 .. n : p[tail + i] = r[i]
    <2>1. /\ popped \in Seq(Nat) /\ r \in Seq(Nat) /\ tail \in Nat /\ n \in Nat
          /\ Len(popped) = tail /\ Len(r) = n
      BY <1>2
    <2> HIDE DEF JournalIInv, JournalTypeOK, JournalAssumption
    <2>2. /\ popped \o r \in Seq(Nat) /\ Len(popped \o r) = Len(popped) + Len(r)
          /\ \A i \in 1 .. Len(popped) : (popped \o r)[i] = popped[i]
          /\ \A i \in 1 .. Len(r) : (popped \o r)[Len(popped) + i] = r[i]
      BY <2>1, TwoParts, Zenon
    <2> QED  BY <2>1, <2>2, Zenon
  <1>5. PICK J \in Seq(Nat) :
             /\ J = p \o q /\ Len(J) = tail + n + m
             /\ \A i \in 1 .. (tail + n) : J[i] = p[i]
             /\ \A i \in 1 .. m : J[tail + n + i] = q[i]
    <2>0. tail + n \in Nat
      OBVIOUS
    <2> HIDE DEF JournalIInv, JournalTypeOK, JournalAssumption
    <2>1. p \in Seq(Nat) /\ q \in Seq(Nat) /\ tail + n \in Nat /\ m \in Nat
          /\ Len(p) = tail + n /\ Len(q) = m
      BY <2>0, <1>3, <1>4, Zenon
    <2>2. /\ p \o q \in Seq(Nat) /\ Len(p \o q) = Len(p) + Len(q)
          /\ \A i \in 1 .. Len(p) : (p \o q)[i] = p[i]
          /\ \A i \in 1 .. Len(q) : (p \o q)[Len(p) + i] = q[i]
      BY <2>1, TwoParts, Zenon
    <2> QED  BY <2>1, <2>2, Zenon
  <1>6. J = Journal
    BY <1>2, <1>3, <1>4, <1>5 DEF Journal
  <1>7. head = tail + n /\ Total = head + m
    BY <1>1, <1>3 DEF Total
  <1>8. ASSUME NEW k \in 1 .. Total PROVE J[k] = At(k)
    <2>1. k \in Nat /\ 1 <= k /\ k <= tail + n + m
      BY <1>7
    <2>2. CASE k <= tail
      BY <1>4, <1>5, <2>1, <2>2 DEF At
    <2>3. CASE tail < k /\ k <= head
      <3>1. PICK i \in 1 .. n : k = tail + i /\ tail + i - 1 = k - 1
        <4>1. k - tail \in 1 .. n /\ k = tail + (k - tail) /\ tail + (k - tail) - 1 = k - 1
          BY <1>7, <2>1, <2>3
        <4> QED  BY <4>1
      <3>2. J[k] = ring[Slot(k - 1)]
        <4>0. k \in 1 .. (tail + n)
          BY <3>1
        <4>1. J[k] = p[tail + i]
          BY <1>5, <3>1, <4>0, Zenon
        <4> QED  BY <1>2, <1>4, <3>1, <4>1
      <3> QED  BY <2>3, <3>2 DEF At
    <2>4. CASE head < k
      <3>1. PICK i \in 1 .. m : k = tail + n + i /\ i = k - head
        <4>1. k - head \in 1 .. m /\ k = tail + n + (k - head)
          BY <1>7, <2>1, <2>4
        <4> QED  BY <4>1
      <3>2. J[k] = batch[flushed + (k - head)]
        BY <1>3, <1>5, <3>1
      <3> QED  BY <2>1, <2>4, <3>2 DEF At
    <2> QED  BY <2>1, <2>2, <2>3, <2>4
  <1>8a. Len(J) = Total /\ Total \in Nat
    <2>1. Len(J) = tail + n + m /\ head = tail + n /\ Total = head + m
      BY <1>5, <1>7, Zenon
    <2>2. tail + n + m \in Nat
      OBVIOUS
    <2> QED  BY <2>1, <2>2, Zenon
  <1>9. \A x : x \in ToSet(J) <=> \E k \in 1 .. Total : x = At(k)
    <2>1. \A x : x \in ToSet(J) <=> \E k \in 1 .. Len(J) : x = J[k]
      BY <1>5, NumbersByPosition, Zenon
    <2> QED  BY <1>8, <1>8a, <2>1
  <1>10. \A i \in 1 .. (Len(J) - 1) : J[i] < J[i + 1]
    <2> TAKE i \in 1 .. (Len(J) - 1)
    <2>1. i \in 1 .. Total /\ i + 1 \in 1 .. Total /\ i < i + 1
      BY <1>8a
    <2> QED  BY <1>8, <2>1 DEF EventsInv
  <1>11. ToSet(J) \cup discarded = 1 .. logged /\ ToSet(J) \cap discarded = {}
    <2>1. EventsInv
      OBVIOUS
    <2> HIDE DEF JournalIInv
    <2>2. \A k \in 1 .. Total : At(k) \in 1 .. logged /\ At(k) \notin discarded
      BY <2>1 DEF EventsInv
    <2>3. \A e \in 1 .. logged : e \in discarded \/ \E k \in 1 .. Total : At(k) = e
      BY <2>1 DEF EventsInv
    <2>4. \A x \in discarded : x \in 1 .. logged
      BY <2>1 DEF EventsInv
    <2>5. \A x \in ToSet(J) : x \in 1 .. logged /\ x \notin discarded
      BY <1>9, <2>2
    <2>6. \A x \in 1 .. logged : x \in discarded \/ x \in ToSet(J)
      BY <1>9, <2>3
    <2> QED  BY <2>4, <2>5, <2>6
  <1>12. Quiet => count = Len(InRing)
    <2> SUFFICES ASSUME Quiet PROVE count = Len(InRing)
      OBVIOUS
    <2>1. \A t \in Threads : pc[t] = "idle"
      BY DEF Quiet, Idle
    <2> QED  BY <1>1, <1>2, <2>1 DEF CountInv
  <1> QED  BY <1>6, <1>10, <1>11, <1>12 DEF JournalIsComplete

(* A step that moves no event keeps the invariant of the events.           *)
LEMMA EventsKept ==
    ASSUME EventsInv, Total' = Total, \A k \in 1 .. Total : At(k)' = At(k),
           logged' = logged, discarded' = discarded
    PROVE  EventsInv'
  BY DEF EventsInv

(* Every step of the writer keeps the journal.                             *)
LEMMA WriterStep ==
    ASSUME JournalAssumption, JournalIInv, NEW t \in Threads,
           \/ LogEvent(t) \/ ForceFlush(t) \/ PushTest(t) \/ WriteSlot(t) \/ Publish(t)
           \/ CountWritten(t)
    PROVE  JournalIInv'
  <1> USE DEF JournalIInv, JournalTypeOK, JournalAssumption, Goto
  <1>0. PICK b \in Nat : b = Len(batch)
    OBVIOUS
  <1>1. CASE LogEvent(t)
    <2> USE <1>1 DEF LogEvent
    <2>1. /\ batch' \in Seq(Nat) /\ Len(batch') = b + 1 /\ batch'[b + 1] = logged + 1
          /\ \A i \in 1 .. b : batch'[i] = batch[i]
      BY <1>0, AppendProperties
    <2>2. pc[t] = "idle" /\ flushed = 0 /\ flushed' = 0 /\ pc'[t] \in {"idle", "push"}
      BY DEF WriterInv
    <2>3. JournalTypeOK'
      BY <2>1, <2>2
    <2>4. WriterInv'
      BY <2>1, <2>2 DEF WriterInv
    <2>5. ReaderInv' /\ CountInv'
      BY <2>2 DEF ReaderInv, CountInv
    <2>6. PICK n \in Nat : n = Total /\ n = head + b /\ Total' = n + 1
      <3>1. Total = head + b
        BY <1>0, <2>2 DEF Total
      <3>2. Total' = head + (b + 1)
        <4>1. head' = head /\ Len(batch') = b + 1 /\ flushed' = 0 /\ head \in Nat
          BY <2>1, <2>2
        <4> HIDE <1>1 DEF JournalIInv
        <4> QED  BY <4>1 DEF Total
      <3>3. head + b \in Nat /\ head + (b + 1) = (head + b) + 1
        OBVIOUS
      <3> HIDE <1>1 DEF JournalIInv
      <3> QED  BY <3>1, <3>2, <3>3, Zenon
    <2>7. ASSUME NEW k \in 1 .. n PROVE At(k)' = At(k)
      <3>1. CASE k <= head
        BY <3>1 DEF At
      <3>2. CASE k > head
        <4>1. k - head \in 1 .. b /\ ~ (k <= tail)
          BY <2>6, <3>2
        <4> QED  BY <2>1, <2>2, <3>2, <4>1 DEF At
      <3> QED  BY <3>1, <3>2
    <2>8. At(n + 1)' = logged + 1
      <3>1. /\ head' = head /\ tail' = tail /\ head \in Nat /\ tail \in Nat /\ tail <= head
            /\ n + 1 > head /\ (n + 1) - head = b + 1
        BY <2>6
      <3> HIDE <1>1 DEF JournalIInv
      <3> QED  BY <2>1, <2>2, <2>6, <3>1 DEF At
    <2>9. EventsInv'
      <3>0. logged' = logged + 1 /\ discarded' = discarded
        OBVIOUS
      <3>e. /\ \A k \in 1 .. n : At(k) \in 1 .. logged /\ At(k) \notin discarded
            /\ \A j, k \in 1 .. n : j < k => At(j) < At(k)
            /\ discarded \subseteq 1 .. logged
            /\ \A e \in 1 .. logged : e \in discarded \/ \E k \in 1 .. n : At(k) = e
        BY <2>6 DEF EventsInv
      <3> HIDE <1>1 DEF JournalIInv, JournalTypeOK
      <3>t. logged \in Nat
        BY DEF JournalIInv, JournalTypeOK
      <3>1. \A k \in 1 .. (n + 1) : k \in 1 .. n \/ k = n + 1
        OBVIOUS
      <3>2. \A k \in 1 .. (n + 1) : At(k)' \in 1 .. (logged + 1) /\ At(k)' \notin discarded
        <4> TAKE k \in 1 .. (n + 1)
        <4>1. CASE k \in 1 .. n
          BY <2>7, <3>e, <3>t, <4>1
        <4>2. CASE k = n + 1
          <5>1. \A x \in discarded : x \in 1 .. logged
            BY <3>e
          <5> QED  BY <2>8, <3>t, <4>2, <5>1
        <4> QED  BY <3>1, <4>1, <4>2
      <3>3. \A j, k \in 1 .. (n + 1) : j < k => At(j)' < At(k)'
        <4> TAKE j, k \in 1 .. (n + 1)
        <4> HAVE j < k
        <4>1. j \in 1 .. n
          OBVIOUS
        <4>2. CASE k \in 1 .. n
          BY <2>7, <3>e, <4>1, <4>2
        <4>3. CASE k = n + 1
          <5>1. At(j) \in 1 .. logged /\ At(j)' = At(j)
            BY <2>7, <3>e, <4>1
          <5> QED  BY <2>8, <3>t, <4>3, <5>1
        <4> QED  BY <3>1, <4>2, <4>3
      <3>4. \A e \in 1 .. (logged + 1) : e \in discarded \/ \E k \in 1 .. (n + 1) : At(k)' = e
        <4>1. n + 1 \in 1 .. (n + 1) /\ \A k \in 1 .. n : k \in 1 .. (n + 1)
          OBVIOUS
        <4>2. \A e \in 1 .. (logged + 1) : e \in 1 .. logged \/ e = logged + 1
          BY <3>t
        <4> QED  BY <2>7, <2>8, <3>e, <4>1, <4>2
      <3>5. discarded \subseteq 1 .. (logged + 1)
        BY <3>e, <3>t
      <3> QED  BY <2>6, <3>0, <3>2, <3>3, <3>4, <3>5 DEF EventsInv
    <2> QED  BY <2>3, <2>4, <2>5, <2>9
  <1>2. CASE ForceFlush(t)
    <2> USE <1>2 DEF ForceFlush
    <2>1. flushed = 0 /\ flushed' = 0 /\ b > 0
      BY <1>0, EmptySeq DEF WriterInv
    <2>2. JournalTypeOK'
      BY <2>1
    <2>3. WriterInv' /\ ReaderInv' /\ CountInv'
      BY <1>0, <2>1 DEF WriterInv, ReaderInv, CountInv
    <2>4. Total' = Total /\ \A k \in 1 .. Total : At(k)' = At(k)
      BY <2>1 DEF Total, At
    <2>5. EventsInv'
      BY <2>4, EventsKept
    <2> QED  BY <2>2, <2>3, <2>5
  <1>3. CASE PushTest(t) /\ (down \/ RingFull)
    <2> USE <1>3 DEF PushTest
    <2>1. batch' = <<>> /\ Len(batch') = 0 /\ batch' \in Seq(Nat)
      BY EmptySeq
    <2>2. JournalTypeOK'
      BY <2>1
    <2>3. WriterInv' /\ ReaderInv' /\ CountInv'
      BY <2>1 DEF WriterInv, ReaderInv, CountInv
    <2>4. Total' = head /\ head <= Total /\ Total = head + (b - flushed) /\ Total \in Nat
      BY <1>0, <2>1 DEF Total
    <2>5. \A k \in 1 .. head : At(k)' = At(k)
      BY <2>1 DEF At
    <2>6. \A x : x \in ToSet(SubSeq(batch, flushed + 1, Len(batch)))
                   <=> \E k \in (head + 1) .. Total : x = At(k)
      <3>1. PICK s \in Seq(Nat), m \in Nat :
              /\ s = SubSeq(batch, flushed + 1, Len(batch))
              /\ m = b - flushed /\ Len(s) = m
              /\ \A i \in 1 .. m : s[i] = batch[flushed + i]
        <4>1. Len(batch) - flushed \in Nat /\ b = Len(batch)
          BY <1>0
        <4>2. batch \in Seq(Nat) /\ flushed \in Nat /\ flushed <= Len(batch)
          OBVIOUS
        <4> HIDE <1>3 DEF JournalIInv
        <4> QED  BY <4>1, <4>2, RestOfSequence, Zenon
      <3>2. \A x : x \in ToSet(s) <=> \E i \in 1 .. Len(s) : x = s[i]
        BY <3>1, NumbersByPosition, Zenon
      <3>3. ASSUME NEW i \in 1 .. m PROVE head + i \in (head + 1) .. Total /\ At(head + i) = s[i]
        <4>1. ~ (head + i <= tail) /\ ~ (head + i <= head) /\ (head + i) - head = i
          OBVIOUS
        <4>2. head + i \in (head + 1) .. Total
          BY <2>4, <3>1
        <4> QED  BY <3>1, <4>1, <4>2 DEF At
      <3>4. ASSUME NEW k \in (head + 1) .. Total PROVE \E i \in 1 .. m : k = head + i
        <4>1. k - head \in 1 .. m /\ k = head + (k - head)
          BY <2>4, <3>1
        <4> QED  BY <4>1
      <3>5. ASSUME NEW x, x \in ToSet(s) PROVE \E k \in (head + 1) .. Total : x = At(k)
        <4>1. PICK i \in 1 .. m : x = s[i]
          BY <3>1, <3>2, <3>5
        <4> QED  BY <3>3, <4>1
      <3>6. ASSUME NEW k \in (head + 1) .. Total PROVE At(k) \in ToSet(s)
        <4>1. PICK i \in 1 .. m : k = head + i
          BY <3>4
        <4>2. At(k) = s[i]
          BY <3>3, <4>1
        <4> QED  BY <3>1, <3>2, <4>2
      <3> QED  BY <3>1, <3>5, <3>6
    <2>7. EventsInv'
      <3>1. \A x : x \in discarded' <=> x \in discarded \/ \E k \in (head + 1) .. Total : x = At(k)
        <4>1. discarded' = discarded \cup ToSet(SubSeq(batch, flushed + 1, Len(batch)))
          OBVIOUS
        <4> HIDE <1>3 DEF JournalIInv
        <4> QED  BY <2>6, <4>1
      <3>2. \A k \in 1 .. Total : k \in 1 .. head \/ k \in (head + 1) .. Total
        BY <2>4
      <3>3. \A k \in (head + 1) .. Total : k \in 1 .. Total /\ \A j \in 1 .. head : j < k
        BY <2>4
      <3>4. \A k \in 1 .. head : k \in 1 .. Total
        BY <2>4
      <3>5. logged' = logged
        OBVIOUS
      <3>t. logged \in Nat /\ EventsInv
        OBVIOUS
      <3> HIDE <1>3 DEF JournalIInv, JournalTypeOK
      <3>7. ASSUME NEW k \in 1 .. head PROVE At(k)' \in 1 .. logged /\ At(k)' \notin discarded'
        <4>1. k \in 1 .. Total /\ At(k)' = At(k)
          BY <2>5, <3>4
        <4>2. At(k) \in 1 .. logged /\ At(k) \notin discarded
          BY <3>t, <4>1 DEF EventsInv
        <4>3. ASSUME NEW l \in (head + 1) .. Total PROVE At(k) # At(l)
          <5>1. l \in 1 .. Total /\ k < l
            BY <3>3
          <5>2. At(k) < At(l) /\ At(l) \in 1 .. logged
            BY <3>t, <4>1, <5>1 DEF EventsInv
          <5> QED  BY <4>2, <5>2
        <4> QED  BY <3>1, <4>1, <4>2, <4>3
      <3>8. \A j, k \in 1 .. head : j < k => At(j)' < At(k)'
        BY <2>5, <3>4, <3>t DEF EventsInv
      <3>9. discarded' \subseteq 1 .. logged
        <4>1. \A k \in (head + 1) .. Total : At(k) \in 1 .. logged
          BY <3>3, <3>t DEF EventsInv
        <4>2. \A x \in discarded : x \in 1 .. logged
          BY <3>t DEF EventsInv
        <4> QED  BY <3>1, <4>1, <4>2
      <3>10. \A e \in 1 .. logged : e \in discarded' \/ \E k \in 1 .. head : At(k)' = e
        BY <2>5, <3>1, <3>2, <3>t DEF EventsInv
      <3> QED  BY <2>4, <3>5, <3>7, <3>8, <3>9, <3>10 DEF EventsInv
    <2> QED  BY <2>2, <2>3, <2>7
  <1>4. CASE PushTest(t) /\ ~ (down \/ RingFull)
    <2> USE <1>4 DEF PushTest
    <2>1. JournalTypeOK'
      OBVIOUS
    <2>2. head - tail < RingSlots
      BY DEF RingFull
    <2>3. WriterInv' /\ ReaderInv' /\ CountInv'
      BY <2>2 DEF WriterInv, ReaderInv, CountInv
    <2>4. Total' = Total /\ \A k \in 1 .. Total : At(k)' = At(k)
      BY DEF Total, At
    <2>5. EventsInv'
      BY <2>4, EventsKept
    <2> QED  BY <2>1, <2>3, <2>5
  <1>5. CASE WriteSlot(t)
    <2>0. /\ t = writer /\ pc[t] = "write" /\ pc' = [pc EXCEPT ![t] = "publish"]
          /\ ring' = [ring EXCEPT ![Slot(head)] = batch[flushed + 1]]
          /\ UNCHANGED <<writer, batch, flushed, head, tail, count, down, taken, logged, popped, discarded>>
      BY <1>5 DEF WriteSlot, Slot
    <2> USE <2>0
    <2>1. PICK h \in 0 .. (RingSlots - 1) : h = Slot(head)
      BY SlotInRange
    <2>2. PICK e \in Nat : e = batch[flushed + 1]
      <3>1. flushed + 1 \in 1 .. b
        BY <1>0 DEF WriterInv
      <3> QED  BY <1>0, <3>1, ElementOfSeq
    <2>3. ring' = [ring EXCEPT ![h] = e]
      BY <2>1, <2>2
    <2>4. JournalTypeOK'
      BY <2>3
    <2>5. \A a \in Nat : tail <= a /\ a < head => Slot(a) # h /\ Slot(a) \in 0 .. (RingSlots - 1)
      <3> TAKE a \in Nat
      <3>1. ASSUME tail <= a, a < head PROVE Slot(a) # Slot(head)
        <4>1. head - a < RingSlots
          BY <3>1 DEF WriterInv
        <4> QED  BY <3>1, <4>1, SlotsApart
      <3> QED  BY <2>1, <3>1, SlotInRange
    <2>6. WriterInv'
      BY <2>1, <2>2, <2>3 DEF WriterInv
    <2>7. ReaderInv'
      BY <2>3, <2>5 DEF ReaderInv
    <2>8. CountInv'
      BY DEF CountInv
    <2>9. \A k \in 1 .. Total : At(k)' = At(k)
      <3>1. ASSUME NEW k \in 1 .. Total, tail < k, k <= head PROVE ring'[Slot(k - 1)] = ring[Slot(k - 1)]
        <4>1. k - 1 \in Nat /\ tail <= k - 1 /\ k - 1 < head
          BY <3>1 DEF Total
        <4> QED  BY <2>3, <2>5, <4>1
      <3>2. Total \in Nat
        BY DEF Total
      <3> QED  BY <3>1, <3>2 DEF At
    <2>10. Total' = Total
      BY DEF Total
    <2>11. EventsInv'
      BY <2>9, <2>10, EventsKept
    <2> QED  BY <2>4, <2>6, <2>7, <2>8, <2>11
  <1>6. CASE Publish(t)
    <2> USE <1>6 DEF Publish
    <2>1. flushed < b /\ head - tail < RingSlots /\ ring[Slot(head)] = batch[flushed + 1]
      BY <1>0 DEF WriterInv
    <2>2. JournalTypeOK'
      BY <1>0, <2>1
    <2>3. WriterInv' /\ ReaderInv'
      BY DEF WriterInv, ReaderInv
    <2>4. CountInv'
      BY DEF CountInv
    <2>5. Total' = Total /\ Total \in Nat /\ head < Total
      BY <1>0, <2>1 DEF Total
    <2>6. ASSUME NEW k \in 1 .. Total PROVE At(k)' = At(k)
      <3>1. CASE k <= head
        BY <3>1 DEF At
      <3>2. CASE k = head + 1
        <4>1. At(k)' = ring[Slot(head)]
          BY <3>2 DEF At
        <4>2. At(k) = batch[flushed + 1]
          BY <3>2 DEF At
        <4> QED  BY <2>1, <4>1, <4>2
      <3>3. CASE k > head + 1
        BY <3>3 DEF At
      <3> QED  BY <3>1, <3>2, <3>3
    <2>7. EventsInv'
      BY <2>5, <2>6, EventsKept
    <2> QED  BY <2>2, <2>3, <2>4, <2>7
  <1>7. CASE CountWritten(t)
    <2> USE <1>7 DEF CountWritten
    <2>1. CASE flushed = b
      <3>1. batch' = <<>> /\ Len(batch') = 0 /\ batch' \in Seq(Nat) /\ flushed' = 0 /\ pc'[t] = "idle"
        BY <1>0, <2>1, EmptySeq
      <3>2. JournalTypeOK'
        BY <3>1
      <3>3. WriterInv' /\ ReaderInv'
        BY <3>1 DEF WriterInv, ReaderInv
      <3>4. CountInv'
        BY <3>1 DEF CountInv
      <3>5. Total' = Total /\ Total = head
        BY <1>0, <2>1, <3>1 DEF Total
      <3>6. \A k \in 1 .. Total : At(k)' = At(k)
        BY <3>5 DEF At
      <3>7. EventsInv'
        BY <3>5, <3>6, EventsKept
      <3> QED  BY <3>2, <3>3, <3>4, <3>7
    <2>2. CASE flushed # b
      <3>1. batch' = batch /\ flushed' = flushed /\ pc'[t] = "push" /\ flushed < b
        BY <1>0, <2>2
      <3>2. JournalTypeOK'
        BY <3>1
      <3>3. WriterInv' /\ ReaderInv'
        BY <1>0, <3>1 DEF WriterInv, ReaderInv
      <3>4. CountInv'
        BY <3>1 DEF CountInv
      <3>5. Total' = Total /\ \A k \in 1 .. Total : At(k)' = At(k)
        BY <3>1 DEF Total, At
      <3>6. EventsInv'
        BY <3>5, EventsKept
      <3> QED  BY <3>2, <3>3, <3>4, <3>6
    <2> QED  BY <2>1, <2>2
  <1> QED  BY <1>1, <1>2, <1>3, <1>4, <1>5, <1>6, <1>7

(* Every step of the reader keeps the journal.                             *)
LEMMA ReaderStep ==
    ASSUME JournalAssumption, OneReader, JournalIInv, NEW t \in Threads,
           ReadSlot(t) \/ AdvanceTail(t) \/ CountPopped(t) \/ ShutDownRing(t)
    PROVE  JournalIInv'
  <1> USE DEF JournalIInv, JournalTypeOK, JournalAssumption, Goto
  <1>0. t \in Threads \ {writer} /\ \A u \in Threads : u = t \/ u = writer
    BY DEF ReadSlot, AdvanceTail, CountPopped, ShutDownRing, OneReader
  <1>1. CASE ReadSlot(t)
    <2>0. /\ tail < head /\ pc[t] = "idle" /\ pc' = [pc EXCEPT ![t] = "advance"]
          /\ taken' = ring[Slot(tail)]
          /\ UNCHANGED <<writer, batch, flushed, ring, head, tail, count, down, logged, popped, discarded>>
      BY <1>1 DEF ReadSlot, Slot
    <2> USE <2>0
    <2>1. Slot(tail) \in 0 .. (RingSlots - 1)
      BY SlotInRange
    <2>2. JournalTypeOK'
      BY <2>1
    <2>3. WriterInv' /\ ReaderInv' /\ CountInv'
      BY <1>0 DEF WriterInv, ReaderInv, CountInv
    <2>4. Total' = Total /\ \A k \in 1 .. Total : At(k)' = At(k)
      BY DEF Total, At
    <2>5. EventsInv'
      BY <2>4, EventsKept
    <2> QED  BY <2>2, <2>3, <2>5
  <1>2. CASE AdvanceTail(t)
    <2> USE <1>2 DEF AdvanceTail
    <2>1. tail < head /\ taken = ring[Slot(tail)]
      BY <1>0 DEF ReaderInv
    <2>2. /\ popped' \in Seq(Nat) /\ Len(popped') = tail + 1 /\ popped'[tail + 1] = taken
          /\ \A i \in 1 .. tail : popped'[i] = popped[i]
      <3>1. /\ popped' = Append(popped, taken) /\ popped \in Seq(Nat) /\ taken \in Nat
            /\ Len(popped) = tail
        OBVIOUS
      <3> HIDE <1>2 DEF JournalIInv, JournalTypeOK
      <3> QED  BY <3>1, AppendProperties
    <2>3. JournalTypeOK'
      BY <2>1, <2>2
    <2>4. WriterInv' /\ ReaderInv'
      BY <1>0 DEF WriterInv, ReaderInv
    <2>5. CountInv'
      BY <1>0 DEF CountInv
    <2>6. Total' = Total
      BY DEF Total
    <2>7. ASSUME NEW k \in 1 .. Total PROVE At(k)' = At(k)
      <3>1. CASE k <= tail
        BY <2>2, <3>1 DEF At
      <3>2. CASE k = tail + 1
        BY <2>1, <2>2, <3>2 DEF At
      <3>3. CASE k > tail + 1
        BY <3>3 DEF At
      <3> QED  BY <3>1, <3>2, <3>3 DEF Total
    <2>8. EventsInv'
      BY <2>6, <2>7, EventsKept
    <2> QED  BY <2>3, <2>4, <2>5, <2>8
  <1>3. CASE CountPopped(t)
    <2> USE <1>3 DEF CountPopped
    <2>1. JournalTypeOK'
      OBVIOUS
    <2>2. WriterInv' /\ ReaderInv'
      BY <1>0 DEF WriterInv, ReaderInv
    <2>3. CountInv'
      BY <1>0 DEF CountInv
    <2>4. Total' = Total /\ \A k \in 1 .. Total : At(k)' = At(k)
      BY DEF Total, At
    <2>5. EventsInv'
      BY <2>4, EventsKept
    <2> QED  BY <2>1, <2>2, <2>3, <2>5
  <1>4. CASE ShutDownRing(t)
    <2> USE <1>4 DEF ShutDownRing
    <2>1. JournalTypeOK' /\ WriterInv' /\ ReaderInv' /\ CountInv'
      BY DEF WriterInv, ReaderInv, CountInv
    <2>2. Total' = Total /\ \A k \in 1 .. Total : At(k)' = At(k)
      BY DEF Total, At
    <2>3. EventsInv'
      BY <2>2, EventsKept
    <2> QED  BY <2>1, <2>3
  <1> QED  BY <1>1, <1>2, <1>3, <1>4

-----------------------------------------------------------------------------
(***************************************************************************)
(* The task queue.  A task is in the queue, in the hands of one thread,    *)
(* chosen by one pop, or gone.                                             *)
(***************************************************************************)
(* Sorting loses nothing and repeats nothing.                              *)
LEMMA SortedIsWhole ==
    ASSUME NEW S, NEW s \in Seq(S), IsInjective(s), NEW r \in Sorted(s)
    PROVE  r \in Seq(S) /\ Len(r) = Len(s) /\ ToSet(r) = ToSet(s) /\ IsInjective(r)
  <1>1. PICK n \in Nat : n = Len(s)
    OBVIOUS
  <1>2. DOMAIN s = 1 .. n
    BY <1>1
  <1>3. PICK p \in Bijection(1 .. n, 1 .. n) : r = [i \in 1 .. n |-> s[p[i]]]
    BY <1>2 DEF Sorted
  <1>4. /\ p \in [1 .. n -> 1 .. n] /\ \A i, j \in 1 .. n : p[i] = p[j] => i = j
        /\ \A j \in 1 .. n : \E i \in 1 .. n : p[i] = j
    BY <1>3 DEF Bijection, Injection, Surjection, IsInjective
  <1>5. \A i \in 1 .. n : s[i] \in S
    BY <1>1, AnyPosition
  <1>6. r \in Seq(S) /\ Len(r) = n /\ \A i \in 1 .. n : r[i] = s[p[i]]
    <2>1. \A i \in 1 .. n : s[p[i]] \in S
      BY <1>4, <1>5
    <2>2. r \in [1 .. n -> S]
      BY <1>3, <2>1
    <2>3. r \in Seq(S) /\ Len(r) = n
      BY <2>2
    <2> QED  BY <1>3, <2>3
  <1>7. /\ \A x : x \in ToSet(s) <=> \E i \in 1 .. n : x = s[i]
        /\ \A i, j \in 1 .. n : s[i] = s[j] => i = j
    BY <1>1, AnyPosition
  <1>8. \A x : x \in ToSet(r) <=> \E i \in 1 .. n : x = r[i]
    BY <1>6, AnyPosition
  <1>9. ToSet(r) = ToSet(s)
    <2>1. ASSUME NEW x \in ToSet(r) PROVE x \in ToSet(s)
      <3>1. PICK i \in 1 .. n : x = s[p[i]]
        BY <1>6, <1>8, <2>1
      <3>2. p[i] \in 1 .. n
        BY <1>4
      <3> QED  BY <1>7, <3>1, <3>2
    <2>2. ASSUME NEW x \in ToSet(s) PROVE x \in ToSet(r)
      <3>1. PICK j \in 1 .. n : x = s[j]
        BY <1>7, <2>2
      <3>2. PICK i \in 1 .. n : p[i] = j
        BY <1>4
      <3>3. x = r[i]
        BY <1>6, <3>1, <3>2
      <3> QED  BY <1>8, <3>3
    <2> QED  BY <2>1, <2>2
  <1>10. IsInjective(r)
    <2>1. \A i, j \in 1 .. n : r[i] = r[j] => i = j
      <3> SUFFICES ASSUME NEW i \in 1 .. n, NEW j \in 1 .. n, r[i] = r[j] PROVE i = j
        OBVIOUS
      <3>1. p[i] \in 1 .. n /\ p[j] \in 1 .. n /\ s[p[i]] = s[p[j]]
        BY <1>4, <1>6
      <3>2. p[i] = p[j]
        BY <1>7, <3>1
      <3> QED  BY <1>4, <3>2
    <2> QED  BY <1>6, <2>1, AnyPosition
  <1> QED  BY <1>1, <1>6, <1>9, <1>10

(* How many pairs there are when one thread has more or fewer.             *)
LEMMA PairsChange ==
    ASSUME NEW f, NEW g, NEW t \in Threads, f[t] \in Nat, g[t] \in Nat,
           \A u \in Threads \ {t} : g[u] = f[u], IsFiniteSet(Pairs(f))
    PROVE  /\ IsFiniteSet(Pairs(g)) /\ Cardinality(Pairs(f)) \in Nat
           /\ Cardinality(Pairs(g)) = Cardinality(Pairs(f)) - f[t] + g[t]
  <1> DEFINE F == {t} \X (1 .. f[t])
             G == {t} \X (1 .. g[t])
             R == Pairs(f) \ F
  <1>1. \A n \in Nat : IsFiniteSet({t} \X (1 .. n)) /\ Cardinality({t} \X (1 .. n)) = n
    <2> TAKE n \in Nat
    <2>1. IsFiniteSet({t}) /\ Cardinality({t}) = 1
      BY FS_Singleton
    <2>2. IsFiniteSet(1 .. n) /\ Cardinality(1 .. n) = n
      <3>1. /\ IsFiniteSet(1 .. n)
            /\ Cardinality(1 .. n) = IF 1 > n THEN 0 ELSE n - 1 + 1
        <4>1. \A a, b \in Int : /\ IsFiniteSet(a .. b)
                               /\ Cardinality(a .. b) = IF a > b THEN 0 ELSE b - a + 1
          BY FS_Interval
        <4>2. 1 \in Int /\ n \in Int
          OBVIOUS
        <4> QED  BY <4>1, <4>2
      <3>2. (IF 1 > n THEN 0 ELSE n - 1 + 1) = n
        OBVIOUS
      <3> QED  BY <3>1, <3>2
    <2>3. /\ IsFiniteSet({t} \X (1 .. n))
          /\ Cardinality({t} \X (1 .. n)) = Cardinality({t}) * Cardinality(1 .. n)
      BY <2>1, <2>2, FS_Product
    <2>4. 1 * n = n
      OBVIOUS
    <2> QED  BY <2>1, <2>2, <2>3, <2>4
  <1>2. /\ IsFiniteSet(F) /\ Cardinality(F) = f[t]
        /\ IsFiniteSet(G) /\ Cardinality(G) = g[t]
    BY <1>1
  <1>3. Pairs(f) = R \cup F /\ R \cap F = {} /\ F \subseteq Pairs(f)
    BY DEF Pairs
  <1>4. Pairs(g) = R \cup G /\ R \cap G = {}
    <2>1. \A x : x \in R <=> \E u \in Threads \ {t} : x \in {u} \X (1 .. f[u])
      BY DEF Pairs
    <2>2. \A x : x \in Pairs(g) <=>
             x \in G \/ \E u \in Threads \ {t} : x \in {u} \X (1 .. g[u])
      BY DEF Pairs
    <2>3. \A x : x \in Pairs(g) <=> x \in G \/ x \in R
      BY <2>1, <2>2
    <2>4. \A x : x \in R => x \notin G
      BY <2>1
    <2> QED  BY <2>3, <2>4
  <1> HIDE DEF F, G
  <1>5. /\ IsFiniteSet(R) /\ Cardinality(R) = Cardinality(Pairs(f)) - Cardinality(F)
    <2>1. Pairs(f) \cap F = F
      BY <1>3
    <2> QED  BY <2>1, FS_Difference
  <1> HIDE DEF R
  <1>6. IsFiniteSet(R \cup G) /\ Cardinality(R \cup G) = Cardinality(R) + Cardinality(G)
    <2>1. Cardinality(R \cup G) = Cardinality(R) + Cardinality(G) - Cardinality(R \cap G)
      BY <1>2, <1>5, FS_Union
    <2>2. Cardinality(R) \in Nat
      BY <1>5, FS_CardinalityType
    <2>3. Cardinality(R \cap G) = 0
      BY <1>4, FS_EmptySet
    <2>4. Cardinality(G) \in Nat /\ IsFiniteSet(R \cup G)
      BY <1>2, <1>5, FS_Union, FS_CardinalityType
    <2> QED  BY <2>1, <2>2, <2>3, <2>4
  <1>7. Cardinality(Pairs(f)) \in Nat
    BY FS_CardinalityType
  <1> QED  BY <1>2, <1>4, <1>5, <1>6, <1>7

Lengths == [t \in Threads |-> Len(local[t])]
Choosing == {t \in Threads : best[t] # NoTask}
Pushing == {t \in Threads : pc[t] \in {"enqueue", "count"}}

QueueTypeOK ==
    /\ pc = [t \in Threads |-> pc[t]]
    /\ counter \in Nat /\ size \in Int /\ cleared \in BOOLEAN
    /\ heap \in Seq(Tasks) /\ gone \subseteq Tasks
    /\ local \in [Threads -> Seq(Tasks)]
    /\ best \in [Threads -> Tasks \cup {NoTask}]
    /\ dropped \in [Threads -> Nat]
    /\ IsFiniteSet(gone) /\ IsFiniteSet(Pairs(Lengths)) /\ IsFiniteSet(Pairs(dropped))

(* What a thread has in its hands where it is.                             *)
InHandsOK ==
    \A t \in Threads :
      /\ pc[t] \in {"enqueue", "peekReturn"} => Len(local[t]) = 1
      /\ local[t] # <<>> =>
           pc[t] \in {"enqueue", "drain", "putBack", "sift", "keep", "peekReturn"}
      /\ best[t] # NoTask <=> pc[t] = "putBack"
      /\ dropped[t] # 0 => pc[t] \in {"sift", "keep"}
      /\ pc[t] = "clear" => cleared

TaskPlaces ==
    {<<"heap", "">>, <<"gone", "">>}
    \cup {<<"local", t>> : t \in Threads} \cup {<<"best", t>> : t \in Threads}

TasksAt(p) ==
    IF p[1] = "heap" THEN ToSet(heap)
    ELSE IF p[1] = "gone" THEN gone
    ELSE IF p[1] = "local" THEN ToSet(local[p[2]])
    ELSE {best[p[2]]} \ {NoTask}

Apart == \A p, q \in TaskPlaces : p # q => TasksAt(p) \cap TasksAt(q) = {}

NoneTwice == IsInjective(heap) /\ \A t \in Threads : IsInjective(local[t])

Known == \A n : n \in 1 .. counter <=> \E x \in Present : x.id = n

Queued == Len(heap) + InHand

(* The tasks are as many as were pushed; size counts neither those being   *)
(* pushed nor what a drop has still to subtract.                           *)
Counted ==
    /\ Queued + Cardinality(gone) = counter
    /\ ~ cleared =>
         /\ Queued <= MaxSize + Cardinality(Threads) - 1
         /\ size = Queued - Cardinality(Pushing) + Cardinality(Pairs(dropped))

QueueIInv == QueueTypeOK /\ InHandsOK /\ Apart /\ NoneTwice /\ Known /\ Counted

(* The places hold what is present.                                        *)
PresentPlaced == \A x : x \in Present <=> \E p \in TaskPlaces : x \in TasksAt(p)

LEMMA PresentIsPlaced == PresentPlaced
  <1> SUFFICES ASSUME NEW x
               PROVE  x \in Present <=> \E p \in TaskPlaces : x \in TasksAt(p)
    BY DEF PresentPlaced
  <1>1. x \in Present <=>
          \/ x \in ToSet(heap) \/ x \in gone
          \/ \E t \in Threads : x \in ToSet(local[t])
          \/ \E t \in Threads : best[t] # NoTask /\ x = best[t]
    BY DEF Present
  <1>2. /\ <<"heap", "">> \in TaskPlaces /\ TasksAt(<<"heap", "">>) = ToSet(heap)
        /\ <<"gone", "">> \in TaskPlaces /\ TasksAt(<<"gone", "">>) = gone
        /\ \A t \in Threads :
             /\ <<"local", t>> \in TaskPlaces /\ TasksAt(<<"local", t>>) = ToSet(local[t])
             /\ <<"best", t>> \in TaskPlaces /\ TasksAt(<<"best", t>>) = {best[t]} \ {NoTask}
    BY DEF TaskPlaces, TasksAt
  <1>3. \A p \in TaskPlaces : \/ p = <<"heap", "">> \/ p = <<"gone", "">>
                              \/ \E t \in Threads : p = <<"local", t>> \/ p = <<"best", t>>
    BY DEF TaskPlaces
  <1>4. ASSUME NEW p \in TaskPlaces, x \in TasksAt(p) PROVE x \in Present
    <2>1. CASE p = <<"heap", "">> \/ p = <<"gone", "">>
      BY <1>1, <1>2, <1>4, <2>1
    <2>2. CASE \E t \in Threads : p = <<"local", t>> \/ p = <<"best", t>>
      <3>1. PICK t \in Threads : p = <<"local", t>> \/ p = <<"best", t>>
        BY <2>2
      <3>2. x \in ToSet(local[t]) \/ (best[t] # NoTask /\ x = best[t])
        BY <1>2, <1>4, <3>1
      <3> QED  BY <1>1, <3>2
    <2> QED  BY <1>3, <2>1, <2>2
  <1>5. ASSUME x \in Present PROVE \E p \in TaskPlaces : x \in TasksAt(p)
    <2>1. CASE x \in ToSet(heap) \/ x \in gone
      BY <1>2, <2>1
    <2>2. CASE \E t \in Threads : x \in ToSet(local[t])
      BY <1>2, <2>2
    <2>3. CASE \E t \in Threads : best[t] # NoTask /\ x = best[t]
      <3>1. PICK t \in Threads : best[t] # NoTask /\ x = best[t]
        BY <2>3
      <3>2. x \in TasksAt(<<"best", t>>)
        BY <1>2, <3>1
      <3> QED  BY <1>2, <3>2
    <2> QED  BY <1>1, <1>5, <2>1, <2>2, <2>3
  <1> QED  BY <1>4, <1>5

(* A task that goes from one place to another is in one place.             *)
LEMMA TaskMoves ==
    ASSUME Apart, NEW p \in TaskPlaces, NEW q \in TaskPlaces, p # q, NEW x \in TasksAt(p),
           TasksAt(p)' = TasksAt(p) \ {x}, TasksAt(q)' = TasksAt(q) \cup {x},
           \A r \in TaskPlaces \ {p, q} : TasksAt(r)' = TasksAt(r)
    PROVE  Apart' /\ Present' = Present /\ x \notin TasksAt(q)
  <1>0. TaskPlaces' = TaskPlaces
    BY DEF TaskPlaces
  <1>1. Apart'
    <2> SUFFICES ASSUME NEW a \in TaskPlaces, NEW b \in TaskPlaces, a # b
                 PROVE  TasksAt(a)' \cap TasksAt(b)' = {}
      BY <1>0 DEF Apart
    <2>1. /\ TasksAt(a) \cap TasksAt(b) = {} /\ TasksAt(p) \cap TasksAt(q) = {}
          /\ (a # p => TasksAt(a) \cap TasksAt(p) = {}) /\ (b # p => TasksAt(b) \cap TasksAt(p) = {})
      BY DEF Apart
    <2>2. CASE a = p
      <3>1. CASE b = q
        BY <2>1, <2>2, <3>1
      <3>2. CASE b # q
        BY <2>1, <2>2, <3>2
      <3> QED  BY <3>1, <3>2
    <2>3. CASE a = q
      <3>1. CASE b = p
        BY <2>1, <2>3, <3>1
      <3>2. CASE b # p
        BY <2>1, <2>3, <3>2
      <3> QED  BY <3>1, <3>2
    <2>4. CASE a # p /\ a # q
      <3>1. CASE b = p
        BY <2>1, <2>4, <3>1
      <3>2. CASE b = q
        BY <2>1, <2>4, <3>2
      <3>3. CASE b # p /\ b # q
        BY <2>1, <2>4, <3>3
      <3> QED  BY <3>1, <3>2, <3>3
    <2> QED  BY <2>2, <2>3, <2>4
  <1>2. \A y : (\E r \in TaskPlaces : y \in TasksAt(r)) <=> (\E r \in TaskPlaces : y \in TasksAt(r)')
    OBVIOUS
  <1>3. \A y : y \in Present' <=> \E r \in TaskPlaces : y \in TasksAt(r)'
    <2>1. PresentPlaced'
      BY PresentIsPlaced, PTL
    <2> QED  BY <1>0, <2>1 DEF PresentPlaced
  <1>4. Present' = Present
    BY <1>2, <1>3, PresentIsPlaced DEF PresentPlaced
  <1> QED  BY <1>1, <1>4 DEF Apart

(* The places by name.                                                     *)
LEMMA PlacesByName ==
    /\ <<"heap", "">> \in TaskPlaces /\ <<"gone", "">> \in TaskPlaces
    /\ \A t \in Threads : <<"local", t>> \in TaskPlaces /\ <<"best", t>> \in TaskPlaces
    /\ \A p \in TaskPlaces : \/ p = <<"heap", "">> \/ p = <<"gone", "">>
                            \/ \E t \in Threads : p = <<"local", t>> \/ p = <<"best", t>>
    /\ <<"heap", "">> # <<"gone", "">>
    /\ \A t \in Threads : /\ <<"local", t>> \notin {<<"heap", "">>, <<"gone", "">>}
                          /\ <<"best", t>> \notin {<<"heap", "">>, <<"gone", "">>}
    /\ \A t, u \in Threads : /\ <<"local", t>> # <<"best", u>>
                             /\ <<"local", t>> = <<"local", u>> => t = u
                             /\ <<"best", t>> = <<"best", u>> => t = u
  BY DEF TaskPlaces

(* The numbers behind InHand.                                              *)
LEMMA HandsAreCounted ==
    ASSUME QueueTypeOK
    PROVE  /\ InHand = Cardinality(Pairs(Lengths)) + Cardinality(Choosing)
           /\ Cardinality(Pairs(Lengths)) \in Nat /\ Cardinality(Choosing) \in Nat
           /\ IsFiniteSet(Choosing) /\ IsFiniteSet(Pushing) /\ Cardinality(Pushing) \in Nat
           /\ Cardinality(gone) \in Nat /\ Cardinality(Pairs(dropped)) \in Nat
           /\ Len(heap) \in Nat /\ Cardinality(Threads) \in Nat /\ Queued \in Nat
  <1>1. InHand = Cardinality(Pairs(Lengths)) + Cardinality(Choosing)
    BY DEF InHand, Lengths, Choosing
  <1>2. IsFiniteSet(Threads)
    BY TaskQueueAssumption DEF TaskQueueAssumption
  <1>3. IsFiniteSet(Choosing) /\ IsFiniteSet(Pushing)
    <2>1. Choosing \in SUBSET Threads /\ Pushing \in SUBSET Threads
      BY DEF Choosing, Pushing
    <2> QED  BY <1>2, <2>1, FS_Subset
  <1>4. Len(heap) \in Nat
    BY DEF QueueTypeOK
  <1>5. /\ Cardinality(Pairs(Lengths)) \in Nat /\ Cardinality(Choosing) \in Nat
        /\ Cardinality(Pushing) \in Nat /\ Cardinality(gone) \in Nat
        /\ Cardinality(Pairs(dropped)) \in Nat /\ Cardinality(Threads) \in Nat
    BY <1>2, <1>3, FS_CardinalityType DEF QueueTypeOK
  <1>6. Queued \in Nat
    BY <1>1, <1>4, <1>5 DEF Queued
  <1> QED  BY <1>1, <1>3, <1>4, <1>5, <1>6

(* A task is taken out of the queue.                                       *)
LEMMA TakeKeeps ==
    ASSUME QueueIInv, NEW t \in Threads, Take(t)
    PROVE  /\ heap' \in Seq(Tasks) /\ local' \in [Threads -> Seq(Tasks)]
           /\ local'[t] # <<>> /\ Len(local'[t]) = Len(local[t]) + 1
           /\ \A u \in Threads \ {t} : local'[u] = local[u]
           /\ Apart' /\ Present' = Present /\ NoneTwice'
           /\ IsFiniteSet(Pairs(Lengths')) /\ Queued' = Queued
  <1> DEFINE h == Head(heap)
  <1>1. /\ heap # <<>> /\ heap' = Tail(heap) /\ best' = best /\ gone' = gone
        /\ local' = [local EXCEPT ![t] = Append(local[t], h)]
    BY DEF Take
  <1>2. QueueTypeOK /\ Apart /\ NoneTwice
    BY DEF QueueIInv
  <1>3. /\ h \in ToSet(heap) /\ h \in Tasks
        /\ heap' \in Seq(Tasks) /\ IsInjective(heap') /\ Len(heap') = Len(heap) - 1
        /\ ToSet(heap') = ToSet(heap) \ {h}
    BY <1>1, <1>2, FirstElement DEF QueueTypeOK, NoneTwice
  <1> HIDE DEF h
  <1>4. local[t] \in Seq(Tasks) /\ IsInjective(local[t]) /\ Len(local[t]) \in Nat
    BY <1>2 DEF QueueTypeOK, NoneTwice
  <1>5. local'[t] = Append(local[t], h) /\ \A u \in Threads \ {t} : local'[u] = local[u]
    BY <1>1, <1>2 DEF QueueTypeOK
  <1>6. h \notin ToSet(local[t])
    <2>1. TasksAt(<<"heap", "">>) = ToSet(heap) /\ TasksAt(<<"local", t>>) = ToSet(local[t])
      BY DEF TasksAt
    <2>2. TasksAt(<<"heap", "">>) \cap TasksAt(<<"local", t>>) = {}
      BY <1>2, PlacesByName, Zenon DEF Apart
    <2> QED  BY <1>3, <2>1, <2>2
  <1>7. /\ local'[t] \in Seq(Tasks) /\ Len(local'[t]) = Len(local[t]) + 1
        /\ ToSet(local'[t]) = ToSet(local[t]) \cup {h} /\ IsInjective(local'[t])
    BY <1>3, <1>4, <1>5, <1>6, AppendedElement
  <1>8. local' \in [Threads -> Seq(Tasks)]
    BY <1>1, <1>2, <1>5, <1>7 DEF QueueTypeOK
  <1>9. local'[t] # <<>>
    BY <1>4, <1>7, EmptySeq
  <1>10. Apart' /\ Present' = Present
    <2> DEFINE p == <<"heap", "">>
               q == <<"local", t>>
    <2>1. p \in TaskPlaces /\ q \in TaskPlaces /\ p # q
      BY PlacesByName
    <2>2. h \in TasksAt(p) /\ TasksAt(p)' = TasksAt(p) \ {h} /\ TasksAt(q)' = TasksAt(q) \cup {h}
      BY <1>3, <1>7 DEF TasksAt
    <2>3. ASSUME NEW r \in TaskPlaces \ {p, q} PROVE TasksAt(r)' = TasksAt(r)
      <3>1. \/ r = <<"gone", "">>
            \/ \E u \in Threads \ {t} : r = <<"local", u>>
            \/ \E u \in Threads : r = <<"best", u>>
        BY <2>3, PlacesByName
      <3>2. CASE r = <<"gone", "">>
        BY <1>1, <3>2 DEF TasksAt
      <3>3. CASE \E u \in Threads \ {t} : r = <<"local", u>>
        BY <1>5, <3>3 DEF TasksAt
      <3>4. CASE \E u \in Threads : r = <<"best", u>>
        BY <1>1, <3>4 DEF TasksAt
      <3> QED  BY <3>1, <3>2, <3>3, <3>4
    <2> HIDE DEF p, q
    <2> QED  BY <1>2, <2>1, <2>2, <2>3, TaskMoves
  <1>11. NoneTwice'
    BY <1>2, <1>3, <1>5, <1>7 DEF NoneTwice
  <1>12. /\ IsFiniteSet(Pairs(Lengths'))
         /\ Cardinality(Pairs(Lengths')) = Cardinality(Pairs(Lengths)) + 1
    <2>1. /\ Lengths[t] = Len(local[t]) /\ Lengths'[t] = Len(local[t]) + 1
          /\ \A u \in Threads \ {t} : Lengths'[u] = Lengths[u]
      BY <1>5, <1>7 DEF Lengths
    <2>2. Lengths[t] \in Nat /\ Lengths'[t] \in Nat /\ IsFiniteSet(Pairs(Lengths))
      BY <1>2, <1>4, <2>1 DEF QueueTypeOK
    <2>3. /\ IsFiniteSet(Pairs(Lengths')) /\ Cardinality(Pairs(Lengths)) \in Nat
          /\ Cardinality(Pairs(Lengths')) = Cardinality(Pairs(Lengths)) - Lengths[t] + Lengths'[t]
      BY <2>1, <2>2, PairsChange
    <2> QED  BY <1>4, <2>1, <2>3
  <1>13. InHand' = Cardinality(Pairs(Lengths')) + Cardinality(Choosing)
    BY <1>1 DEF InHand, Lengths, Choosing
  <1>14. Queued' = Queued
    <2>1. /\ InHand = Cardinality(Pairs(Lengths)) + Cardinality(Choosing)
          /\ Cardinality(Pairs(Lengths)) \in Nat /\ Cardinality(Choosing) \in Nat
          /\ Len(heap) \in Nat
      BY <1>2, HandsAreCounted
    <2>2. InHand' = InHand + 1 /\ InHand \in Nat
      BY <1>12, <1>13, <2>1
    <2> QED  BY <1>3, <2>1, <2>2 DEF Queued
  <1> QED  BY <1>3, <1>5, <1>7, <1>8, <1>9, <1>10, <1>11, <1>12, <1>14
(* And a task is put back.                                                 *)
LEMMA PutKeeps ==
    ASSUME QueueIInv, NEW t \in Threads, Put(t)
    PROVE  /\ heap' \in Seq(Tasks) /\ local' \in [Threads -> Seq(Tasks)]
           /\ Len(local'[t]) = Len(local[t]) - 1
           /\ \A u \in Threads \ {t} : local'[u] = local[u]
           /\ Apart' /\ Present' = Present /\ NoneTwice'
           /\ IsFiniteSet(Pairs(Lengths')) /\ Queued' = Queued
  <1> DEFINE h == Head(local[t])
  <1>1. /\ local[t] # <<>> /\ heap' = Append(heap, h) /\ best' = best /\ gone' = gone
        /\ local' = [local EXCEPT ![t] = Tail(local[t])]
    BY DEF Put
  <1>2. QueueTypeOK /\ Apart /\ NoneTwice
    BY DEF QueueIInv
  <1>3. local[t] \in Seq(Tasks) /\ IsInjective(local[t]) /\ Len(local[t]) \in Nat
    BY <1>2 DEF QueueTypeOK, NoneTwice
  <1>4. local'[t] = Tail(local[t]) /\ \A u \in Threads \ {t} : local'[u] = local[u]
    BY <1>1, <1>2 DEF QueueTypeOK
  <1>5. /\ h \in ToSet(local[t]) /\ h \in Tasks
        /\ local'[t] \in Seq(Tasks) /\ IsInjective(local'[t])
        /\ Len(local'[t]) = Len(local[t]) - 1 /\ ToSet(local'[t]) = ToSet(local[t]) \ {h}
    BY <1>1, <1>3, <1>4, FirstElement
  <1> HIDE DEF h
  <1>6. h \notin ToSet(heap)
    <2>1. TasksAt(<<"heap", "">>) = ToSet(heap) /\ TasksAt(<<"local", t>>) = ToSet(local[t])
      BY DEF TasksAt
    <2>2. TasksAt(<<"heap", "">>) \cap TasksAt(<<"local", t>>) = {}
      BY <1>2, PlacesByName, Zenon DEF Apart
    <2> QED  BY <1>5, <2>1, <2>2
  <1>7. /\ heap' \in Seq(Tasks) /\ Len(heap') = Len(heap) + 1
        /\ ToSet(heap') = ToSet(heap) \cup {h} /\ IsInjective(heap')
    BY <1>1, <1>2, <1>5, <1>6, AppendedElement DEF QueueTypeOK, NoneTwice
  <1>8. local' \in [Threads -> Seq(Tasks)]
    BY <1>1, <1>2, <1>4, <1>5 DEF QueueTypeOK
  <1>9. Apart' /\ Present' = Present
    <2> DEFINE p == <<"local", t>>
               q == <<"heap", "">>
    <2>1. p \in TaskPlaces /\ q \in TaskPlaces /\ p # q
      BY PlacesByName
    <2>2. h \in TasksAt(p) /\ TasksAt(p)' = TasksAt(p) \ {h} /\ TasksAt(q)' = TasksAt(q) \cup {h}
      BY <1>5, <1>7 DEF TasksAt
    <2>3. ASSUME NEW r \in TaskPlaces \ {p, q} PROVE TasksAt(r)' = TasksAt(r)
      <3>1. \/ r = <<"gone", "">>
            \/ \E u \in Threads \ {t} : r = <<"local", u>>
            \/ \E u \in Threads : r = <<"best", u>>
        BY <2>3, PlacesByName
      <3>2. CASE r = <<"gone", "">>
        BY <1>1, <3>2 DEF TasksAt
      <3>3. CASE \E u \in Threads \ {t} : r = <<"local", u>>
        BY <1>4, <3>3 DEF TasksAt
      <3>4. CASE \E u \in Threads : r = <<"best", u>>
        BY <1>1, <3>4 DEF TasksAt
      <3> QED  BY <3>1, <3>2, <3>3, <3>4
    <2> HIDE DEF p, q
    <2> QED  BY <1>2, <2>1, <2>2, <2>3, TaskMoves
  <1>10. NoneTwice'
    BY <1>2, <1>4, <1>5, <1>7 DEF NoneTwice
  <1>11. /\ IsFiniteSet(Pairs(Lengths'))
         /\ Cardinality(Pairs(Lengths')) = Cardinality(Pairs(Lengths)) - 1
    <2>1. /\ Lengths[t] = Len(local[t]) /\ Lengths'[t] = Len(local[t]) - 1
          /\ \A u \in Threads \ {t} : Lengths'[u] = Lengths[u]
      BY <1>4, <1>5 DEF Lengths
    <2>2. Lengths[t] \in Nat /\ Lengths'[t] \in Nat /\ IsFiniteSet(Pairs(Lengths))
      <3>1. Len(local'[t]) \in Nat
        BY <1>5
      <3> QED  BY <1>2, <1>3, <1>5, <2>1, <3>1 DEF QueueTypeOK
    <2>3. /\ IsFiniteSet(Pairs(Lengths')) /\ Cardinality(Pairs(Lengths)) \in Nat
          /\ Cardinality(Pairs(Lengths')) = Cardinality(Pairs(Lengths)) - Lengths[t] + Lengths'[t]
      BY <2>1, <2>2, PairsChange
    <2> QED  BY <1>3, <2>1, <2>3
  <1>12. InHand' = Cardinality(Pairs(Lengths')) + Cardinality(Choosing)
    BY <1>1 DEF InHand, Lengths, Choosing
  <1>13. Queued' = Queued
    <2>1. /\ InHand = Cardinality(Pairs(Lengths)) + Cardinality(Choosing)
          /\ Cardinality(Pairs(Lengths)) \in Nat /\ Cardinality(Choosing) \in Nat
          /\ Len(heap) \in Nat
      BY <1>2, HandsAreCounted
    <2>2. InHand' = InHand - 1 /\ InHand \in Nat
      BY <1>11, <1>12, <2>1
    <2> QED  BY <1>7, <2>1, <2>2 DEF Queued
  <1> QED  BY <1>4, <1>5, <1>7, <1>8, <1>9, <1>10, <1>11, <1>13
(* One thread goes on: what the others have in their hands is unchanged.   *)
LEMMA OneGoesOn ==
    ASSUME QueueTypeOK, InHandsOK, NEW t \in Threads, NEW to,
           pc' = [pc EXCEPT ![t] = to],
           \A u \in Threads \ {t} :
              local'[u] = local[u] /\ best'[u] = best[u] /\ dropped'[u] = dropped[u],
           to \in {"enqueue", "peekReturn"} => Len(local'[t]) = 1,
           \/ local'[t] = <<>>
           \/ to \in {"enqueue", "drain", "putBack", "sift", "keep", "peekReturn"},
           best'[t] # NoTask <=> to = "putBack",
           dropped'[t] = 0 \/ to \in {"sift", "keep"},
           cleared \/ to = "clear" => cleared'
    PROVE  InHandsOK' /\ pc' = [u \in Threads |-> pc'[u]]
  <1>1. DOMAIN pc' = Threads /\ pc'[t] = to /\ \A u \in Threads \ {t} : pc'[u] = pc[u]
    BY DEF QueueTypeOK
  <1>2. pc' = [u \in Threads |-> pc'[u]]
    BY DEF QueueTypeOK
  <1> SUFFICES ASSUME NEW u \in Threads
               PROVE  /\ pc'[u] \in {"enqueue", "peekReturn"} => Len(local'[u]) = 1
                      /\ local'[u] # <<>> =>
                           pc'[u] \in {"enqueue", "drain", "putBack", "sift", "keep", "peekReturn"}
                      /\ best'[u] # NoTask <=> pc'[u] = "putBack"
                      /\ dropped'[u] # 0 => pc'[u] \in {"sift", "keep"}
                      /\ pc'[u] = "clear" => cleared'
    BY <1>2 DEF InHandsOK, NoTask
  <1>3. CASE u = t
    BY <1>1, <1>3
  <1>4. CASE u # t
    BY <1>1, <1>4 DEF InHandsOK
  <1> QED  BY <1>3, <1>4

(* How many are pushing after a step of one thread.                        *)
LEMMA PushersAfter ==
    ASSUME QueueTypeOK, NEW t \in Threads, NEW to, pc' = [pc EXCEPT ![t] = to]
    PROVE  /\ (to \in {"enqueue", "count"} <=> pc[t] \in {"enqueue", "count"}) =>
                 Pushing' = Pushing
           /\ to \in {"enqueue", "count"} /\ pc[t] \notin {"enqueue", "count"} =>
                /\ Cardinality(Pushing') = Cardinality(Pushing) + 1
                /\ Cardinality(Pushing) + 1 <= Cardinality(Threads)
           /\ to \notin {"enqueue", "count"} /\ pc[t] \in {"enqueue", "count"} =>
                Cardinality(Pushing') = Cardinality(Pushing) - 1
  <1>1. DOMAIN pc' = Threads /\ pc'[t] = to /\ \A u \in Threads \ {t} : pc'[u] = pc[u]
    BY DEF QueueTypeOK
  <1>2. \A u \in Threads : u \in Pushing' <=> pc'[u] \in {"enqueue", "count"}
    BY DEF Pushing
  <1>3. \A u \in Threads : u \in Pushing <=> pc[u] \in {"enqueue", "count"}
    BY DEF Pushing
  <1>4. Pushing \subseteq Threads /\ Pushing' \subseteq Threads
    BY DEF Pushing
  <1>5. IsFiniteSet(Threads)
    BY TaskQueueAssumption DEF TaskQueueAssumption
  <1>6. IsFiniteSet(Pushing) /\ Cardinality(Pushing) \in Nat
    BY HandsAreCounted
  <1>7. ASSUME to \in {"enqueue", "count"} <=> pc[t] \in {"enqueue", "count"}
        PROVE  Pushing' = Pushing
    BY <1>1, <1>2, <1>3, <1>4, <1>7
  <1>8. ASSUME to \in {"enqueue", "count"}, pc[t] \notin {"enqueue", "count"}
        PROVE  /\ Cardinality(Pushing') = Cardinality(Pushing) + 1
               /\ Cardinality(Pushing) + 1 <= Cardinality(Threads)
    <2>1. t \notin Pushing /\ Pushing' = Pushing \cup {t}
      BY <1>1, <1>2, <1>3, <1>4, <1>8
    <2>2. Cardinality(Pushing') = Cardinality(Pushing) + 1
      BY <1>6, <2>1, FS_AddElement
    <2>3. Pushing' \in SUBSET Threads
      BY <1>4
    <2>4. Cardinality(Pushing') <= Cardinality(Threads)
      BY <1>5, <2>3, FS_Subset
    <2> QED  BY <2>2, <2>4
  <1>9. ASSUME to \notin {"enqueue", "count"}, pc[t] \in {"enqueue", "count"}
        PROVE  Cardinality(Pushing') = Cardinality(Pushing) - 1
    <2>1. t \in Pushing /\ Pushing' = Pushing \ {t}
      BY <1>1, <1>2, <1>3, <1>4, <1>9
    <2> QED  BY <1>6, <2>1, FS_RemoveElement
  <1> QED  BY <1>7, <1>8, <1>9

(* A step that moves no task.                                              *)
LEMMA TasksStay ==
    ASSUME QueueIInv, UNCHANGED <<heap, local, best, gone>>
    PROVE  /\ Apart' /\ Present' = Present /\ NoneTwice' /\ InHand' = InHand
           /\ Queued' = Queued /\ Lengths' = Lengths
  <1>1. Present' = Present /\ InHand' = InHand /\ Lengths' = Lengths /\ Queued' = Queued
    BY DEF Present, InHand, Lengths, Queued
  <1>2. NoneTwice'
    BY DEF QueueIInv, NoneTwice
  <1>3. TaskPlaces' = TaskPlaces
    BY DEF TaskPlaces
  <1>4. \A p \in TaskPlaces : TasksAt(p)' = TasksAt(p)
    BY DEF TasksAt
  <1>5. Apart'
    BY <1>3, <1>4 DEF QueueIInv, Apart
  <1> QED  BY <1>1, <1>2, <1>5

(* A step that only takes or puts back a task.                             *)
LEMMA HandStep ==
    ASSUME QueueIInv, NEW t \in Threads, NEW to, pc' = [pc EXCEPT ![t] = to],
           to \in {"enqueue", "count"} <=> pc[t] \in {"enqueue", "count"},
           to = "putBack" <=> pc[t] = "putBack",
           dropped[t] = 0 \/ to \in {"sift", "keep"},
           \/ /\ Take(t)
              /\ \/ to \in {"drain", "sift"}
                 \/ to = "peekReturn" /\ local[t] = <<>>
           \/ /\ Put(t)
              /\ \/ to \in {"putBack", "keep"}
                 \/ to \in {"count", "peek"} /\ Len(local[t]) = 1
    PROVE  QueueIInv'
  <1>1. UNCHANGED <<counter, size, best, dropped, gone, cleared>>
    BY DEF Take, Put
  <1>2. QueueTypeOK /\ InHandsOK /\ Counted /\ Known
    BY DEF QueueIInv
  <1>3. /\ heap' \in Seq(Tasks) /\ local' \in [Threads -> Seq(Tasks)]
        /\ \A u \in Threads \ {t} : local'[u] = local[u]
        /\ Apart' /\ Present' = Present /\ NoneTwice'
        /\ IsFiniteSet(Pairs(Lengths')) /\ Queued' = Queued
    <2>1. CASE Take(t)
      BY <2>1, TakeKeeps
    <2>2. CASE Put(t)
      BY <2>2, PutKeeps
    <2> QED  BY <2>1, <2>2
  <1>4. Len(local[t]) \in Nat
    BY <1>2 DEF QueueTypeOK
  <1>5. to \in {"enqueue", "peekReturn"} => Len(local'[t]) = 1
    <2>1. CASE Take(t)
      <3> SUFFICES ASSUME to \in {"enqueue", "peekReturn"} PROVE Len(local'[t]) = 1
        OBVIOUS
      <3>1. Len(local'[t]) = Len(local[t]) + 1
        BY <2>1, TakeKeeps
      <3>2. \/ local[t] = <<>>
            \/ Put(t) /\ \/ to \in {"putBack", "keep"}
                         \/ to \in {"count", "peek"}
        OBVIOUS
      <3>3. local[t] = <<>>
        BY <3>2
      <3>4. Len(local[t]) = 0
        BY <3>3, EmptySeq
      <3> QED  BY <3>1, <3>4
    <2>2. CASE Put(t) /\ ~ Take(t)
      BY <2>2
    <2> QED  BY <2>1, <2>2
  <1>6. \/ local'[t] = <<>>
        \/ to \in {"enqueue", "drain", "putBack", "sift", "keep", "peekReturn"}
    <2>1. CASE Put(t) /\ to \in {"count", "peek"} /\ Len(local[t]) = 1
      <3>1. Put(t)
        BY <2>1
      <3>2. Len(local'[t]) = Len(local[t]) - 1
        BY <3>1, PutKeeps
      <3>3. Len(local'[t]) = 0
        BY <2>1, <3>2
      <3>4. local'[t] \in Seq(Tasks)
        BY <1>3
      <3> QED  BY <3>3, <3>4, EmptySeq
    <2> QED  BY <2>1
  <1>7. best'[t] # NoTask <=> to = "putBack"
    BY <1>1, <1>2 DEF InHandsOK
  <1>8. \A u \in Threads \ {t} :
           local'[u] = local[u] /\ best'[u] = best[u] /\ dropped'[u] = dropped[u]
    BY <1>1, <1>3
  <1>9. InHandsOK' /\ pc' = [u \in Threads |-> pc'[u]]
    <2>1. dropped'[t] = 0 \/ to \in {"sift", "keep"}
      BY <1>1
    <2>2. cleared \/ to = "clear" => cleared'
      BY <1>1
    <2> QED  BY <1>2, <1>5, <1>6, <1>7, <1>8, <2>1, <2>2, OneGoesOn
  <1>10. Pushing' = Pushing
    BY <1>2, PushersAfter
  <1>11. QueueTypeOK'
    BY <1>1, <1>2, <1>3, <1>9 DEF QueueTypeOK
  <1>12. Counted'
    <2>1. Pairs(dropped') = Pairs(dropped) /\ counter' = counter
      BY <1>1
    <2>2. Cardinality(Pushing') = Cardinality(Pushing)
      BY <1>10
    <2>3. Cardinality(gone') = Cardinality(gone)
      BY <1>1
    <2>4. Queued' = Queued
      BY <1>3
    <2> HIDE DEF Pushing
    <2>5. Queued' + Cardinality(gone') = counter'
      BY <1>2, <2>1, <2>3, <2>4 DEF Counted
    <2>6. ASSUME ~ cleared'
          PROVE  /\ Queued' <= MaxSize + Cardinality(Threads) - 1
                 /\ size' = Queued' - Cardinality(Pushing') + Cardinality(Pairs(dropped'))
      <3>1. /\ Queued <= MaxSize + Cardinality(Threads) - 1
            /\ size = Queued - Cardinality(Pushing) + Cardinality(Pairs(dropped))
        BY <1>1, <1>2, <2>6 DEF Counted
      <3>2. Cardinality(Pairs(dropped')) = Cardinality(Pairs(dropped)) /\ size' = size
        BY <1>1, <2>1
      <3> QED  BY <2>2, <2>4, <3>1, <3>2
    <2> QED  BY <2>5, <2>6 DEF Counted
  <1>13. Known'
    BY <1>1, <1>2, <1>3 DEF Known
  <1> QED  BY <1>3, <1>9, <1>11, <1>12, <1>13 DEF QueueIInv
(* A step that moves no task keeps the size in step with the pushes and    *)
(* drops under way.                                                        *)
LEMMA CountStep ==
    ASSUME QueueIInv, NEW t \in Threads, NEW to, pc' = [pc EXCEPT ![t] = to],
           UNCHANGED <<heap, counter, local, best, gone>>,
           to \notin {"enqueue", "peekReturn"},
           \/ local[t] = <<>>
           \/ to \in {"drain", "putBack", "sift", "keep"},
           to = "putBack" <=> pc[t] = "putBack",
           \A u \in Threads \ {t} : dropped'[u] = dropped[u],
           dropped'[t] = 0 \/ to \in {"sift", "keep"},
           dropped' \in [Threads -> Nat], IsFiniteSet(Pairs(dropped')),
           size' \in Int, cleared' \in BOOLEAN,
           cleared \/ to = "clear" => cleared',
           ~ cleared' =>
              /\ ~ cleared
              /\ size' = Queued - Cardinality(Pushing') + Cardinality(Pairs(dropped'))
    PROVE  QueueIInv'
  <1>1. QueueTypeOK /\ InHandsOK /\ Counted /\ Known
    BY DEF QueueIInv
  <1>2. /\ Apart' /\ Present' = Present /\ NoneTwice' /\ Queued' = Queued /\ Lengths' = Lengths
    BY TasksStay
  <1>3. InHandsOK' /\ pc' = [u \in Threads |-> pc'[u]]
    <2>1. best'[t] # NoTask <=> to = "putBack"
      BY <1>1 DEF InHandsOK
    <2>2. \A u \in Threads \ {t} :
             local'[u] = local[u] /\ best'[u] = best[u] /\ dropped'[u] = dropped[u]
      OBVIOUS
    <2>3. to \in {"enqueue", "peekReturn"} => Len(local'[t]) = 1
      OBVIOUS
    <2>4. \/ local'[t] = <<>>
          \/ to \in {"enqueue", "drain", "putBack", "sift", "keep", "peekReturn"}
      OBVIOUS
    <2> QED  BY <1>1, <2>1, <2>2, <2>3, <2>4, OneGoesOn
  <1>4. QueueTypeOK'
    <2>1. IsFiniteSet(Pairs(Lengths'))
      BY <1>1, <1>2 DEF QueueTypeOK
    <2> QED  BY <1>1, <1>3, <2>1 DEF QueueTypeOK
  <1>5. Counted'
    <2>1. Queued' + Cardinality(gone') = counter'
      BY <1>1, <1>2 DEF Counted
    <2>2. ASSUME ~ cleared'
          PROVE  /\ Queued' <= MaxSize + Cardinality(Threads) - 1
                 /\ size' = Queued' - Cardinality(Pushing') + Cardinality(Pairs(dropped'))
      BY <1>1, <1>2, <2>2 DEF Counted
    <2> QED  BY <2>1, <2>2 DEF Counted
  <1>6. Known'
    BY <1>1, <1>2 DEF Known
  <1> QED  BY <1>2, <1>3, <1>4, <1>5, <1>6 DEF QueueIInv

(* A task leaves the queue for good.                                       *)
LEMMA TaskLeaves ==
    ASSUME QueueIInv, heap # <<>>, heap' = Tail(heap), gone' = gone \cup {Head(heap)},
           UNCHANGED <<local, best>>
    PROVE  /\ heap' \in Seq(Tasks) /\ gone' \subseteq Tasks /\ IsFiniteSet(gone')
           /\ Apart' /\ Present' = Present /\ NoneTwice' /\ Lengths' = Lengths
           /\ Queued' = Queued - 1 /\ Cardinality(gone') = Cardinality(gone) + 1
  <1> DEFINE h == Head(heap)
  <1>1. QueueTypeOK /\ Apart /\ NoneTwice
    BY DEF QueueIInv
  <1>2. /\ h \in ToSet(heap) /\ h \in Tasks
        /\ heap' \in Seq(Tasks) /\ IsInjective(heap') /\ Len(heap') = Len(heap) - 1
        /\ ToSet(heap') = ToSet(heap) \ {h}
    BY <1>1, FirstElement DEF QueueTypeOK, NoneTwice
  <1>3. gone' = gone \cup {h}
    OBVIOUS
  <1> HIDE DEF h
  <1>4. Apart' /\ Present' = Present /\ h \notin gone
    <2> DEFINE p == <<"heap", "">>
               q == <<"gone", "">>
    <2>1. p \in TaskPlaces /\ q \in TaskPlaces /\ p # q
      BY PlacesByName
    <2>2. h \in TasksAt(p) /\ TasksAt(p)' = TasksAt(p) \ {h} /\ TasksAt(q)' = TasksAt(q) \cup {h}
      BY <1>2, <1>3 DEF TasksAt
    <2>3. ASSUME NEW r \in TaskPlaces \ {p, q} PROVE TasksAt(r)' = TasksAt(r)
      <3>1. \E u \in Threads : r = <<"local", u>> \/ r = <<"best", u>>
        BY <2>3, PlacesByName
      <3>2. CASE \E u \in Threads : r = <<"local", u>>
        BY <3>2 DEF TasksAt
      <3>3. CASE \E u \in Threads : r = <<"best", u>>
        BY <3>3 DEF TasksAt
      <3> QED  BY <3>1, <3>2, <3>3
    <2>4. TasksAt(q) = gone
      BY DEF TasksAt
    <2> HIDE DEF p, q
    <2> QED  BY <1>1, <2>1, <2>2, <2>3, <2>4, TaskMoves
  <1>5. NoneTwice'
    BY <1>1, <1>2 DEF NoneTwice
  <1>6. gone' \subseteq Tasks /\ IsFiniteSet(gone') /\ Cardinality(gone') = Cardinality(gone) + 1
    <2>1. IsFiniteSet(gone) /\ gone \subseteq Tasks
      BY <1>1 DEF QueueTypeOK
    <2> QED  BY <1>2, <1>3, <1>4, <2>1, FS_AddElement
  <1>7. Lengths' = Lengths /\ InHand' = InHand
    BY DEF Lengths, InHand
  <1>8. Queued' = Queued - 1
    BY <1>1, <1>2, <1>7, HandsAreCounted DEF Queued
  <1> QED  BY <1>2, <1>4, <1>5, <1>6, <1>7, <1>8
(* A step that only goes on.                                               *)
LEMMA PlainStep ==
    ASSUME QueueIInv, NEW t \in Threads, NEW to, pc' = [pc EXCEPT ![t] = to],
           UNCHANGED <<heap, counter, size, local, best, dropped, gone, cleared>>,
           to \notin {"enqueue", "peekReturn"},
           \/ local[t] = <<>>
           \/ to \in {"drain", "putBack", "sift", "keep"},
           to = "putBack" <=> pc[t] = "putBack",
           dropped[t] = 0 \/ to \in {"sift", "keep"},
           to \in {"enqueue", "count"} <=> pc[t] \in {"enqueue", "count"}, to # "clear"
    PROVE  QueueIInv'
  <1>1. QueueTypeOK /\ Counted
    BY DEF QueueIInv
  <1>2. Pushing' = Pushing
    BY <1>1, PushersAfter
  <1>3. Pairs(dropped') = Pairs(dropped)
    OBVIOUS
  <1>4. Cardinality(Pushing') = Cardinality(Pushing)
    BY <1>2
  <1>5. ~ cleared' => /\ ~ cleared
                      /\ size' = Queued - Cardinality(Pushing') + Cardinality(Pairs(dropped'))
    BY <1>1, <1>3, <1>4 DEF Counted
  <1>6. /\ dropped' \in [Threads -> Nat] /\ IsFiniteSet(Pairs(dropped'))
        /\ size' \in Int /\ cleared' \in BOOLEAN
    BY <1>1, <1>3 DEF QueueTypeOK
  <1>7. \A u \in Threads \ {t} : dropped'[u] = dropped[u]
    OBVIOUS
  <1>8. dropped'[t] = 0 \/ to \in {"sift", "keep"}
    OBVIOUS
  <1> QED  BY <1>5, <1>6, <1>7, <1>8, CountStep

(* A thread that is between two calls has nothing in its hands.            *)
LEMMA IdleHands ==
    ASSUME QueueIInv, NEW t \in Threads,
           pc[t] \in {"idle", "count", "peek", "clear"}
    PROVE  local[t] = <<>> /\ best[t] = NoTask /\ dropped[t] = 0
  BY DEF QueueIInv, InHandsOK

(* Push.                                                                   *)
LEMMA PushKeeps ==
    ASSUME QueueIInv, NEW t \in Threads, Push(t) PROVE QueueIInv'
  <1>1. PICK p \in Priorities :
           /\ ~ shutdown
           /\ ~ Full
           /\ counter < MaxTasks
           /\ Call(t, "push", "enqueue")
           /\ counter' = counter + 1
           /\ local' = [local EXCEPT ![t] = <<[id |-> counter + 1, priority |-> p]>>]
           /\ UNCHANGED <<heap, size, shutdown, best, least, dropped, gone, cleared>>
    BY DEF Push
  <1>2. PICK h : h = [id |-> counter + 1, priority |-> p]
    OBVIOUS
  <1>3. QueueTypeOK /\ InHandsOK /\ Apart /\ NoneTwice /\ Known /\ Counted
    BY DEF QueueIInv
  <1>4. pc[t] = "idle" /\ pc' = [pc EXCEPT ![t] = "enqueue"]
    BY <1>1 DEF Call, Goto
  <1>5. local[t] = <<>> /\ best[t] = NoTask /\ dropped[t] = 0
    BY <1>4, IdleHands
  <1>6. h \in Tasks /\ h.id = counter + 1
    BY <1>1, <1>2, <1>3, TaskQueueAssumption DEF Tasks, QueueTypeOK, TaskQueueAssumption
  <1>7. h \notin Present
    <2>1. \A x \in Present : x.id \in 1 .. counter
      BY <1>3 DEF Known
    <2>2. counter + 1 \notin 1 .. counter
      BY <1>3 DEF QueueTypeOK
    <2> QED  BY <1>6, <2>1, <2>2
  <1>8. local'[t] = <<h>> /\ \A u \in Threads \ {t} : local'[u] = local[u]
    BY <1>1, <1>2, <1>3 DEF QueueTypeOK
  <1>9. <<h>> \in Seq(Tasks) /\ Len(<<h>>) = 1 /\ ToSet(<<h>>) = {h} /\ IsInjective(<<h>>)
    BY <1>6 DEF ToSet, IsInjective
  <1>10. local' \in [Threads -> Seq(Tasks)]
    BY <1>1, <1>2, <1>3, <1>9 DEF QueueTypeOK
  <1>11. TaskPlaces' = TaskPlaces
    BY DEF TaskPlaces
  <1>12. /\ TasksAt(<<"local", t>>)' = {h}
         /\ \A r \in TaskPlaces : r # <<"local", t>> => TasksAt(r)' = TasksAt(r)
    <2>1. TasksAt(<<"local", t>>)' = {h}
      BY <1>8, <1>9 DEF TasksAt
    <2>2. ASSUME NEW r \in TaskPlaces, r # <<"local", t>> PROVE TasksAt(r)' = TasksAt(r)
      <3>1. \/ r = <<"heap", "">> \/ r = <<"gone", "">>
            \/ \E u \in Threads \ {t} : r = <<"local", u>>
            \/ \E u \in Threads : r = <<"best", u>>
        BY <2>2, PlacesByName
      <3>2. CASE r = <<"heap", "">>
        BY <1>1, <3>2 DEF TasksAt
      <3>5. CASE r = <<"gone", "">>
        BY <1>1, <3>5 DEF TasksAt
      <3>3. CASE \E u \in Threads \ {t} : r = <<"local", u>>
        BY <1>8, <3>3 DEF TasksAt
      <3>4. CASE \E u \in Threads : r = <<"best", u>>
        BY <1>1, <3>4 DEF TasksAt
      <3> QED  BY <3>1, <3>2, <3>3, <3>4, <3>5
    <2> QED  BY <2>1, <2>2
  <1>13. /\ TasksAt(<<"local", t>>) = {} /\ <<"local", t>> \in TaskPlaces
         /\ \A r \in TaskPlaces : h \notin TasksAt(r)
    <2>1. ToSet(local[t]) = {}
      BY <1>5 DEF ToSet
    <2>2. TasksAt(<<"local", t>>) = {}
      BY <2>1 DEF TasksAt
    <2> QED  BY <1>7, <2>2, PlacesByName, PresentIsPlaced DEF PresentPlaced
  <1>14. Apart'
    <2> SUFFICES ASSUME NEW a \in TaskPlaces, NEW b \in TaskPlaces, a # b
                 PROVE  TasksAt(a)' \cap TasksAt(b)' = {}
      BY <1>11 DEF Apart
    <2>1. CASE a = <<"local", t>>
      BY <1>12, <1>13, <2>1
    <2>2. CASE b = <<"local", t>>
      BY <1>12, <1>13, <2>2
    <2>3. CASE a # <<"local", t>> /\ b # <<"local", t>>
      <3>1. TasksAt(a) \cap TasksAt(b) = {}
        BY <1>3, Zenon DEF Apart
      <3> QED  BY <1>12, <2>3, <3>1
    <2> QED  BY <2>1, <2>2, <2>3
  <1>15. \A x : x \in Present' <=> x = h \/ x \in Present
    <2>1. PresentPlaced'
      BY PresentIsPlaced, PTL
    <2>2. \A x : x \in Present' <=> \E r \in TaskPlaces : x \in TasksAt(r)'
      BY <1>11, <2>1 DEF PresentPlaced
    <2>3. \A x : x \in Present <=> \E r \in TaskPlaces : x \in TasksAt(r)
      BY PresentIsPlaced DEF PresentPlaced
    <2> QED  BY <1>12, <1>13, <2>2, <2>3
  <1>16. Known'
    <2> SUFFICES ASSUME NEW n PROVE n \in 1 .. (counter + 1) <=> \E x \in Present' : x.id = n
      BY <1>1 DEF Known
    <2>1. n \in 1 .. counter <=> \E x \in Present : x.id = n
      BY <1>3 DEF Known
    <2>2. n \in 1 .. (counter + 1) <=> n = counter + 1 \/ n \in 1 .. counter
      BY <1>3 DEF QueueTypeOK
    <2> QED  BY <1>6, <1>15, <2>1, <2>2
  <1>17. NoneTwice'
    BY <1>1, <1>3, <1>8, <1>9 DEF NoneTwice
  <1>18. /\ IsFiniteSet(Pairs(Lengths'))
         /\ Cardinality(Pairs(Lengths')) = Cardinality(Pairs(Lengths)) + 1
    <2>1. /\ Lengths[t] = 0 /\ Lengths'[t] = 1
          /\ \A u \in Threads \ {t} : Lengths'[u] = Lengths[u]
      BY <1>5, <1>8, <1>9 DEF Lengths
    <2>2. Lengths[t] \in Nat /\ Lengths'[t] \in Nat
      BY <2>1
    <2>3. IsFiniteSet(Pairs(Lengths))
      BY <1>3 DEF QueueTypeOK
    <2>4. /\ IsFiniteSet(Pairs(Lengths')) /\ Cardinality(Pairs(Lengths)) \in Nat
          /\ Cardinality(Pairs(Lengths')) = Cardinality(Pairs(Lengths)) - Lengths[t] + Lengths'[t]
      BY <2>1, <2>2, <2>3, PairsChange
    <2> QED  BY <2>1, <2>4
  <1>19. Queued' = Queued + 1
    <2>1. InHand' = Cardinality(Pairs(Lengths')) + Cardinality(Choosing)
      BY <1>1 DEF InHand, Lengths, Choosing
    <2>2. /\ InHand = Cardinality(Pairs(Lengths)) + Cardinality(Choosing)
          /\ Cardinality(Pairs(Lengths)) \in Nat /\ Cardinality(Choosing) \in Nat
          /\ Len(heap) \in Nat
      BY <1>3, HandsAreCounted
    <2>3. InHand' = InHand + 1 /\ InHand \in Nat
      BY <1>18, <2>1, <2>2
    <2> QED  BY <1>1, <2>2, <2>3 DEF Queued
  <1>20. InHandsOK' /\ pc' = [u \in Threads |-> pc'[u]]
    <2>1. /\ Len(local'[t]) = 1 /\ best'[t] = NoTask /\ dropped'[t] = 0
          /\ "enqueue" # "putBack"
      BY <1>1, <1>5, <1>8, <1>9
    <2>2. \A u \in Threads \ {t} :
             local'[u] = local[u] /\ best'[u] = best[u] /\ dropped'[u] = dropped[u]
      BY <1>1, <1>8
    <2>3. cleared \/ "enqueue" = "clear" => cleared'
      BY <1>1
    <2> QED  BY <1>3, <1>4, <2>1, <2>2, <2>3, OneGoesOn
  <1>21. QueueTypeOK'
    BY <1>1, <1>3, <1>10, <1>18, <1>20 DEF QueueTypeOK
  <1>22. Counted'
    <2>1. /\ Cardinality(Pushing') = Cardinality(Pushing) + 1
          /\ Cardinality(Pushing) + 1 <= Cardinality(Threads)
      BY <1>3, <1>4, PushersAfter
    <2>2. Pairs(dropped') = Pairs(dropped) /\ gone' = gone
      BY <1>1
    <2>3. /\ Queued \in Nat /\ Cardinality(gone) \in Nat /\ Cardinality(Pairs(dropped)) \in Nat
          /\ Cardinality(Pushing) \in Nat /\ Cardinality(Threads) \in Nat
          /\ size \in Int /\ counter \in Nat /\ MaxSize \in Nat
      BY <1>3, HandsAreCounted, TaskQueueAssumption DEF QueueTypeOK, TaskQueueAssumption
    <2>4. Queued' + Cardinality(gone') = counter'
      BY <1>1, <1>3, <1>19, <2>2, <2>3 DEF Counted
    <2>5. ASSUME ~ cleared'
          PROVE  /\ Queued' <= MaxSize + Cardinality(Threads) - 1
                 /\ size' = Queued' - Cardinality(Pushing') + Cardinality(Pairs(dropped'))
      <3>1. size = Queued - Cardinality(Pushing) + Cardinality(Pairs(dropped)) /\ size' = size
        BY <1>1, <1>3, <2>5 DEF Counted
      <3>2. size < MaxSize
        BY <1>1, <2>3 DEF Full
      <3>3. Cardinality(Pairs(dropped')) = Cardinality(Pairs(dropped))
        BY <2>2
      <3> QED  BY <1>19, <2>1, <2>3, <3>1, <3>2, <3>3
    <2> QED  BY <2>4, <2>5 DEF Counted
  <1> QED  BY <1>14, <1>16, <1>17, <1>20, <1>21, <1>22 DEF QueueIInv
(* A push is counted.                                                      *)
LEMMA CountPushKeeps ==
    ASSUME QueueIInv, NEW t \in Threads, CountPush(t) PROVE QueueIInv'
  <1>1. /\ pc[t] = "count" /\ pc' = [pc EXCEPT ![t] = "idle"] /\ size' = size + 1
        /\ UNCHANGED <<heap, counter, local, best, dropped, gone, cleared>>
    BY DEF CountPush, Goto
  <1>2. QueueTypeOK /\ Counted
    BY DEF QueueIInv
  <1>3. local[t] = <<>> /\ dropped[t] = 0
    BY <1>1, IdleHands
  <1>4. Cardinality(Pushing') = Cardinality(Pushing) - 1
    <2>1. "idle" \notin {"enqueue", "count"} /\ pc[t] \in {"enqueue", "count"}
      BY <1>1
    <2> QED  BY <1>1, <1>2, <2>1, PushersAfter
  <1>5. Pairs(dropped') = Pairs(dropped) /\ dropped'[t] = 0
    BY <1>1, <1>3
  <1>6. ~ cleared' => /\ ~ cleared
                      /\ size' = Queued - Cardinality(Pushing') + Cardinality(Pairs(dropped'))
    <2>1. Queued \in Nat /\ Cardinality(Pairs(dropped)) \in Nat /\ Cardinality(Pushing) \in Nat
      BY <1>2, HandsAreCounted
    <2>2. Cardinality(Pairs(dropped')) = Cardinality(Pairs(dropped))
      BY <1>5
    <2>3. ~ cleared => size = Queued - Cardinality(Pushing) + Cardinality(Pairs(dropped))
      BY <1>2 DEF Counted
    <2> QED  BY <1>1, <1>4, <2>1, <2>2, <2>3
  <1>7. /\ dropped' \in [Threads -> Nat] /\ IsFiniteSet(Pairs(dropped'))
        /\ size' \in Int /\ cleared' \in BOOLEAN
    BY <1>1, <1>2, <1>5 DEF QueueTypeOK
  <1>8. \A u \in Threads \ {t} : dropped'[u] = dropped[u]
    BY <1>1
  <1>9. /\ "idle" \notin {"enqueue", "peekReturn"}
        /\ "idle" = "putBack" <=> pc[t] = "putBack"
        /\ cleared \/ "idle" = "clear" => cleared'
    BY <1>1
  <1>10. pc' = [pc EXCEPT ![t] = "idle"] /\ UNCHANGED <<heap, counter, local, best, gone>>
    BY <1>1
  <1> QED  BY <1>3, <1>5, <1>6, <1>7, <1>8, <1>9, <1>10, CountStep

(* What was dropped is subtracted.                                         *)
LEMMA DropReturnKeeps ==
    ASSUME QueueIInv, NEW t \in Threads, DropReturn(t) PROVE QueueIInv'
  <1>1. /\ pc[t] = "keep" /\ pc' = [pc EXCEPT ![t] = "idle"] /\ size' = size - dropped[t]
        /\ local[t] = <<>> /\ dropped' = [dropped EXCEPT ![t] = 0]
        /\ UNCHANGED <<heap, counter, local, best, gone, cleared>>
    BY DEF DropReturn, Goto
  <1>2. QueueTypeOK /\ Counted
    BY DEF QueueIInv
  <1>3. /\ dropped'[t] = 0 /\ dropped[t] \in Nat
        /\ \A u \in Threads \ {t} : dropped'[u] = dropped[u]
        /\ dropped' \in [Threads -> Nat]
    BY <1>1, <1>2 DEF QueueTypeOK
  <1>4. Pushing' = Pushing
    <2>1. "idle" \notin {"enqueue", "count"} /\ pc[t] \notin {"enqueue", "count"}
      BY <1>1
    <2> QED  BY <1>1, <1>2, <2>1, PushersAfter
  <1>5. /\ IsFiniteSet(Pairs(dropped')) /\ Cardinality(Pairs(dropped)) \in Nat
        /\ Cardinality(Pairs(dropped')) = Cardinality(Pairs(dropped)) - dropped[t]
    <2>1. IsFiniteSet(Pairs(dropped)) /\ dropped'[t] \in Nat
      BY <1>2, <1>3 DEF QueueTypeOK
    <2>2. /\ IsFiniteSet(Pairs(dropped')) /\ Cardinality(Pairs(dropped)) \in Nat
          /\ Cardinality(Pairs(dropped')) = Cardinality(Pairs(dropped)) - dropped[t] + dropped'[t]
      BY <1>3, <2>1, PairsChange
    <2> QED  BY <1>3, <2>2
  <1>6. ~ cleared' => /\ ~ cleared
                      /\ size' = Queued - Cardinality(Pushing') + Cardinality(Pairs(dropped'))
    <2>1. Queued \in Nat /\ Cardinality(Pushing) \in Nat
      BY <1>2, HandsAreCounted
    <2>2. Cardinality(Pushing') = Cardinality(Pushing)
      BY <1>4
    <2>3. ~ cleared => size = Queued - Cardinality(Pushing) + Cardinality(Pairs(dropped))
      BY <1>2 DEF Counted
    <2> QED  BY <1>1, <1>3, <1>5, <2>1, <2>2, <2>3
  <1>7. size' \in Int /\ cleared' \in BOOLEAN
    BY <1>1, <1>2, <1>3 DEF QueueTypeOK
  <1>8. /\ "idle" \notin {"enqueue", "peekReturn"}
        /\ "idle" = "putBack" <=> pc[t] = "putBack"
        /\ cleared \/ "idle" = "clear" => cleared'
    BY <1>1
  <1>9. /\ pc' = [pc EXCEPT ![t] = "idle"] /\ local[t] = <<>>
        /\ UNCHANGED <<heap, counter, local, best, gone>>
    BY <1>1
  <1> QED  BY <1>3, <1>5, <1>6, <1>7, <1>8, <1>9, CountStep

(* The size when the queue is cleared.                                     *)
LEMMA ClearKeeps ==
    ASSUME QueueIInv, NEW t \in Threads, StartClear(t) \/ ClearEnd(t) PROVE QueueIInv'
  <1>1. PICK to \in {"clear", "idle"} : pc' = [pc EXCEPT ![t] = to]
    BY DEF StartClear, ClearEnd, Call, Goto
  <1>2. /\ pc[t] \in {"idle", "clear"}
        /\ UNCHANGED <<heap, counter, local, best, dropped, gone>>
        /\ size' \in {size, 0}
    BY DEF StartClear, ClearEnd, Call, Goto
  <1>3. QueueTypeOK /\ Counted
    BY DEF QueueIInv
  <1>4. local[t] = <<>> /\ dropped[t] = 0
    BY <1>2, IdleHands
  <1>5. /\ Pairs(dropped') = Pairs(dropped) /\ dropped'[t] = 0
        /\ \A u \in Threads \ {t} : dropped'[u] = dropped[u]
    BY <1>2, <1>4
  <1>6. cleared'
    BY <1>3 DEF StartClear, ClearEnd, Goto, QueueIInv, InHandsOK
  <1>7. ~ cleared' => /\ ~ cleared
                      /\ size' = Queued - Cardinality(Pushing') + Cardinality(Pairs(dropped'))
    BY <1>6
  <1>8. /\ dropped' \in [Threads -> Nat] /\ IsFiniteSet(Pairs(dropped'))
        /\ size' \in Int /\ cleared' \in BOOLEAN
    <2>1. size' \in Int
      BY <1>2, <1>3 DEF QueueTypeOK
    <2>2. cleared' \in BOOLEAN
      BY <1>3 DEF QueueTypeOK, StartClear, ClearEnd
    <2> QED  BY <1>2, <1>3, <1>5, <2>1, <2>2 DEF QueueTypeOK
  <1> QED  BY <1>1, <1>2, <1>4, <1>5, <1>6, <1>7, <1>8, CountStep
(* A task is dropped, or thrown away by a clear.                           *)
LEMMA LeaveKeeps ==
    ASSUME QueueIInv, NEW t \in Threads, DropOne(t) \/ ClearOne(t) PROVE QueueIInv'
  <1>1. PICK to \in {"sift", "clear"} :
           /\ pc[t] = to /\ pc' = [pc EXCEPT ![t] = to]
           /\ to = "sift" <=> DropOne(t)
    BY DEF DropOne, ClearOne, Goto
  <1>2. /\ heap # <<>> /\ heap' = Tail(heap) /\ gone' = gone \cup {Head(heap)}
        /\ UNCHANGED <<counter, size, local, best, cleared>>
        /\ dropped' \in {dropped, [dropped EXCEPT ![t] = @ + 1]}
    BY DEF DropOne, ClearOne
  <1>3. QueueTypeOK /\ InHandsOK /\ Counted /\ Known
    BY DEF QueueIInv
  <1>4. /\ heap' \in Seq(Tasks) /\ gone' \subseteq Tasks /\ IsFiniteSet(gone')
        /\ Apart' /\ Present' = Present /\ NoneTwice' /\ Lengths' = Lengths
        /\ Queued' = Queued - 1 /\ Cardinality(gone') = Cardinality(gone) + 1
    BY <1>2, TaskLeaves
  <1>5. /\ \A u \in Threads \ {t} : dropped'[u] = dropped[u]
        /\ dropped' \in [Threads -> Nat]
    <2>1. CASE dropped' = dropped
      BY <1>3, <2>1 DEF QueueTypeOK
    <2>2. CASE dropped' = [dropped EXCEPT ![t] = @ + 1]
      BY <1>3, <2>2 DEF QueueTypeOK
    <2> QED  BY <1>2, <2>1, <2>2
  <1>6. /\ to = "sift" => dropped'[t] = dropped[t] + 1
        /\ to = "clear" => dropped'[t] = 0 /\ dropped' = dropped
    <2>1. CASE to = "sift"
      <3>1. dropped' = [dropped EXCEPT ![t] = @ + 1]
        BY <1>1, <2>1 DEF DropOne
      <3> QED  BY <1>3, <2>1, <3>1 DEF QueueTypeOK
    <2>2. CASE to = "clear"
      <3>1. dropped[t] = 0
        BY <1>1, <2>2, IdleHands
      <3>2. dropped' = dropped
        BY <1>1, <2>2 DEF ClearOne
      <3> QED  BY <2>2, <3>1, <3>2
    <2> QED  BY <2>1, <2>2
  <1>7. /\ IsFiniteSet(Pairs(dropped')) /\ Cardinality(Pairs(dropped)) \in Nat
        /\ to = "sift" => Cardinality(Pairs(dropped')) = Cardinality(Pairs(dropped)) + 1
    <2>1. IsFiniteSet(Pairs(dropped)) /\ dropped[t] \in Nat /\ dropped'[t] \in Nat
      BY <1>3, <1>5 DEF QueueTypeOK
    <2>2. /\ IsFiniteSet(Pairs(dropped')) /\ Cardinality(Pairs(dropped)) \in Nat
          /\ Cardinality(Pairs(dropped')) = Cardinality(Pairs(dropped)) - dropped[t] + dropped'[t]
      BY <1>5, <2>1, PairsChange
    <2> QED  BY <1>6, <2>1, <2>2
  <1>8. InHandsOK' /\ pc' = [u \in Threads |-> pc'[u]]
    <2>1. \A u \in Threads \ {t} :
             local'[u] = local[u] /\ best'[u] = best[u] /\ dropped'[u] = dropped[u]
      BY <1>2, <1>5
    <2>2. local'[t] = <<>> \/ to = "sift"
      BY <1>1, <1>2, IdleHands
    <2>3. best'[t] # NoTask <=> to = "putBack"
      BY <1>1, <1>2, <1>3 DEF InHandsOK
    <2>4. cleared \/ to = "clear" => cleared'
      BY <1>1, <1>2, <1>3 DEF InHandsOK
    <2>5. dropped'[t] = 0 \/ to = "sift"
      BY <1>6
    <2> QED  BY <1>1, <1>3, <2>1, <2>2, <2>3, <2>4, <2>5, OneGoesOn
  <1>9. QueueTypeOK'
    <2>1. IsFiniteSet(Pairs(Lengths'))
      BY <1>3, <1>4 DEF QueueTypeOK
    <2> QED  BY <1>2, <1>3, <1>4, <1>5, <1>7, <1>8, <2>1 DEF QueueTypeOK
  <1>10. Counted'
    <2>1. Queued \in Nat /\ Cardinality(gone) \in Nat /\ Cardinality(Pushing) \in Nat
      BY <1>3, HandsAreCounted
    <2>2. Queued' + Cardinality(gone') = counter'
      BY <1>2, <1>3, <1>4, <2>1 DEF Counted
    <2>3. ASSUME ~ cleared'
          PROVE  /\ Queued' <= MaxSize + Cardinality(Threads) - 1
                 /\ size' = Queued' - Cardinality(Pushing') + Cardinality(Pairs(dropped'))
      <3>1. /\ Queued <= MaxSize + Cardinality(Threads) - 1
            /\ size = Queued - Cardinality(Pushing) + Cardinality(Pairs(dropped))
        BY <1>2, <1>3, <2>3 DEF Counted
      <3>2. to = "sift"
        BY <1>1, <1>2, <1>3, <2>3 DEF InHandsOK
      <3>3. Pushing' = Pushing
        BY <1>1, <1>3, PushersAfter
      <3>4. Cardinality(Pushing') = Cardinality(Pushing)
        BY <3>3
      <3>5. MaxSize \in Nat /\ Cardinality(Threads) \in Nat
        BY <1>3, HandsAreCounted, TaskQueueAssumption DEF TaskQueueAssumption
      <3>6. /\ Cardinality(Pairs(dropped')) = Cardinality(Pairs(dropped)) + 1
            /\ Cardinality(Pairs(dropped)) \in Nat /\ Queued' = Queued - 1 /\ size' = size
        BY <1>2, <1>4, <1>7, <3>2
      <3> QED  BY <2>1, <3>1, <3>4, <3>5, <3>6
    <2> QED  BY <2>2, <2>3 DEF Counted
  <1>11. Known'
    BY <1>2, <1>3, <1>4 DEF Known
  <1> QED  BY <1>4, <1>8, <1>9, <1>10, <1>11 DEF QueueIInv

(* Pop sorts what it took out and chooses the first.                       *)
LEMMA ChooseKeeps ==
    ASSUME QueueIInv, NEW t \in Threads, Choose(t) PROVE QueueIInv'
  <1>1. PICK sorted \in Sorted(local[t]) :
           /\ best' = [best EXCEPT ![t] = Head(sorted)]
           /\ local' = [local EXCEPT ![t] = Tail(sorted)]
    BY DEF Choose
  <1>2. /\ local[t] # <<>> /\ pc[t] = "drain" /\ pc' = [pc EXCEPT ![t] = "putBack"]
        /\ UNCHANGED <<heap, counter, size, dropped, gone, cleared>>
    BY DEF Choose, Goto
  <1>3. QueueTypeOK /\ InHandsOK /\ Apart /\ NoneTwice /\ Known /\ Counted
    BY DEF QueueIInv
  <1>4. local[t] \in Seq(Tasks) /\ IsInjective(local[t]) /\ Len(local[t]) \in Nat
    BY <1>3 DEF QueueTypeOK, NoneTwice
  <1>5. /\ sorted \in Seq(Tasks) /\ Len(sorted) = Len(local[t])
        /\ ToSet(sorted) = ToSet(local[t]) /\ IsInjective(sorted)
    BY <1>4, SortedIsWhole
  <1>6. sorted # <<>>
    BY <1>2, <1>4, <1>5, EmptySeq
  <1>7. PICK h : h = Head(sorted)
    OBVIOUS
  <1>8. /\ h \in ToSet(local[t]) /\ h \in Tasks
        /\ Tail(sorted) \in Seq(Tasks) /\ IsInjective(Tail(sorted))
        /\ Len(Tail(sorted)) = Len(local[t]) - 1 /\ ToSet(Tail(sorted)) = ToSet(local[t]) \ {h}
    BY <1>5, <1>6, <1>7, FirstElement
  <1>9. /\ local'[t] = Tail(sorted) /\ \A u \in Threads \ {t} : local'[u] = local[u]
        /\ best'[t] = h /\ \A u \in Threads \ {t} : best'[u] = best[u]
        /\ local' \in [Threads -> Seq(Tasks)]
        /\ best' \in [Threads -> Tasks \cup {NoTask}]
    BY <1>1, <1>3, <1>7, <1>8 DEF QueueTypeOK
  <1>10. h # NoTask /\ best[t] = NoTask
    BY <1>2, <1>3, <1>8 DEF Tasks, NoTask, InHandsOK
  <1>11. Apart' /\ Present' = Present
    <2> DEFINE p == <<"local", t>>
               q == <<"best", t>>
    <2>1. p \in TaskPlaces /\ q \in TaskPlaces /\ p # q
      BY PlacesByName
    <2>2. h \in TasksAt(p) /\ TasksAt(p)' = TasksAt(p) \ {h} /\ TasksAt(q)' = TasksAt(q) \cup {h}
      BY <1>8, <1>9, <1>10 DEF TasksAt
    <2>3. ASSUME NEW r \in TaskPlaces \ {p, q} PROVE TasksAt(r)' = TasksAt(r)
      <3>1. \/ r = <<"heap", "">>
            \/ r = <<"gone", "">>
            \/ \E u \in Threads \ {t} : r = <<"local", u>>
            \/ \E u \in Threads \ {t} : r = <<"best", u>>
        BY <2>3, PlacesByName
      <3>2. CASE r = <<"heap", "">>
        BY <1>2, <3>2 DEF TasksAt
      <3>3. CASE r = <<"gone", "">>
        BY <1>2, <3>3 DEF TasksAt
      <3>4. CASE \E u \in Threads \ {t} : r = <<"local", u>>
        BY <1>9, <3>4 DEF TasksAt
      <3>5. CASE \E u \in Threads \ {t} : r = <<"best", u>>
        BY <1>9, <3>5 DEF TasksAt
      <3> QED  BY <3>1, <3>2, <3>3, <3>4, <3>5
    <2> HIDE DEF p, q
    <2> QED  BY <1>3, <2>1, <2>2, <2>3, TaskMoves
  <1>12. NoneTwice'
    BY <1>2, <1>3, <1>8, <1>9 DEF NoneTwice
  <1>13. /\ IsFiniteSet(Pairs(Lengths'))
         /\ Cardinality(Pairs(Lengths')) = Cardinality(Pairs(Lengths)) - 1
    <2>1. /\ Lengths[t] = Len(local[t]) /\ Lengths'[t] = Len(local[t]) - 1
          /\ \A u \in Threads \ {t} : Lengths'[u] = Lengths[u]
      BY <1>8, <1>9 DEF Lengths
    <2>2. Len(Tail(sorted)) \in Nat
      BY <1>8
    <2>3. Lengths[t] \in Nat /\ Lengths'[t] \in Nat /\ IsFiniteSet(Pairs(Lengths))
      BY <1>3, <1>4, <1>8, <2>1, <2>2 DEF QueueTypeOK
    <2>4. /\ IsFiniteSet(Pairs(Lengths')) /\ Cardinality(Pairs(Lengths)) \in Nat
          /\ Cardinality(Pairs(Lengths')) = Cardinality(Pairs(Lengths)) - Lengths[t] + Lengths'[t]
      BY <2>1, <2>3, PairsChange
    <2> QED  BY <1>4, <2>1, <2>4
  <1>14. Cardinality(Choosing') = Cardinality(Choosing) + 1
    <2>1. Choosing' = Choosing \cup {t} /\ t \notin Choosing
      BY <1>9, <1>10 DEF Choosing, NoTask
    <2>2. IsFiniteSet(Choosing)
      BY <1>3, HandsAreCounted
    <2> QED  BY <2>1, <2>2, FS_AddElement
  <1>15. Queued' = Queued
    <2>1. InHand' = Cardinality(Pairs(Lengths')) + Cardinality(Choosing')
      BY DEF InHand, Lengths, Choosing
    <2>2. /\ InHand = Cardinality(Pairs(Lengths)) + Cardinality(Choosing)
          /\ Cardinality(Pairs(Lengths)) \in Nat /\ Cardinality(Choosing) \in Nat
      BY <1>3, HandsAreCounted
    <2>3. InHand' = InHand
      BY <1>13, <1>14, <2>1, <2>2
    <2> QED  BY <1>2, <2>3 DEF Queued
  <1>16. InHandsOK' /\ pc' = [u \in Threads |-> pc'[u]]
    <2>1. \A u \in Threads \ {t} :
             local'[u] = local[u] /\ best'[u] = best[u] /\ dropped'[u] = dropped[u]
      BY <1>2, <1>9
    <2>2. best'[t] # NoTask <=> "putBack" = "putBack"
      BY <1>9, <1>10
    <2>3. dropped'[t] = 0
      BY <1>2, <1>3 DEF InHandsOK
    <2>4. cleared \/ "putBack" = "clear" => cleared'
      BY <1>2
    <2>5. "putBack" \notin {"enqueue", "peekReturn"}
      OBVIOUS
    <2> QED  BY <1>2, <1>3, <2>1, <2>2, <2>3, <2>4, <2>5, OneGoesOn
  <1>17. QueueTypeOK'
    BY <1>2, <1>3, <1>9, <1>13, <1>16 DEF QueueTypeOK
  <1>18. Counted'
    <2>1. Pushing' = Pushing
      <3>1. "putBack" \notin {"enqueue", "count"} /\ pc[t] \notin {"enqueue", "count"}
        BY <1>2
      <3> QED  BY <1>2, <1>3, <3>1, PushersAfter
    <2>2. Cardinality(Pushing') = Cardinality(Pushing)
      BY <2>1
    <2>3. Pairs(dropped') = Pairs(dropped)
      BY <1>2
    <2>4. Queued' + Cardinality(gone') = counter'
      BY <1>2, <1>3, <1>15 DEF Counted
    <2>5. ASSUME ~ cleared'
          PROVE  /\ Queued' <= MaxSize + Cardinality(Threads) - 1
                 /\ size' = Queued' - Cardinality(Pushing') + Cardinality(Pairs(dropped'))
      BY <1>2, <1>3, <1>15, <2>2, <2>3, <2>5 DEF Counted
    <2> QED  BY <2>4, <2>5 DEF Counted
  <1>19. Known'
    BY <1>2, <1>3, <1>11 DEF Known
  <1> QED  BY <1>11, <1>12, <1>16, <1>17, <1>18, <1>19 DEF QueueIInv
(* And returns it.                                                         *)
LEMMA PopReturnKeeps ==
    ASSUME QueueIInv, NEW t \in Threads, PopReturn(t) PROVE QueueIInv'
  <1>1. /\ local[t] = <<>> /\ pc[t] = "putBack" /\ pc' = [pc EXCEPT ![t] = "idle"]
        /\ best' = [best EXCEPT ![t] = NoTask]
        /\ gone' = gone \cup {best[t]} /\ size' = size - 1
        /\ UNCHANGED <<heap, counter, local, dropped, cleared>>
    BY DEF PopReturn, Goto
  <1>2. QueueTypeOK /\ InHandsOK /\ Apart /\ NoneTwice /\ Known /\ Counted
    BY DEF QueueIInv
  <1>3. PICK h : h = best[t]
    OBVIOUS
  <1>4. h # NoTask /\ h \in Tasks /\ gone' = gone \cup {h}
    BY <1>1, <1>2, <1>3 DEF QueueTypeOK, InHandsOK
  <1>5. /\ best'[t] = NoTask /\ \A u \in Threads \ {t} : best'[u] = best[u]
        /\ best' \in [Threads -> Tasks \cup {NoTask}]
    BY <1>1, <1>2 DEF QueueTypeOK
  <1>6. Apart' /\ Present' = Present /\ h \notin gone
    <2> DEFINE p == <<"best", t>>
               q == <<"gone", "">>
    <2>1. p \in TaskPlaces /\ q \in TaskPlaces /\ p # q
      BY PlacesByName
    <2>2. h \in TasksAt(p) /\ TasksAt(p)' = TasksAt(p) \ {h} /\ TasksAt(q)' = TasksAt(q) \cup {h}
      BY <1>3, <1>4, <1>5 DEF TasksAt, NoTask
    <2>3. ASSUME NEW r \in TaskPlaces \ {p, q} PROVE TasksAt(r)' = TasksAt(r)
      <3>1. \/ r = <<"heap", "">>
            \/ \E u \in Threads : r = <<"local", u>>
            \/ \E u \in Threads \ {t} : r = <<"best", u>>
        BY <2>3, PlacesByName
      <3>2. CASE r = <<"heap", "">>
        BY <1>1, <3>2 DEF TasksAt
      <3>3. CASE \E u \in Threads : r = <<"local", u>>
        BY <1>1, <3>3 DEF TasksAt
      <3>4. CASE \E u \in Threads \ {t} : r = <<"best", u>>
        BY <1>5, <3>4 DEF TasksAt
      <3> QED  BY <3>1, <3>2, <3>3, <3>4
    <2>4. TasksAt(q) = gone
      BY DEF TasksAt
    <2> HIDE DEF p, q
    <2> QED  BY <1>2, <2>1, <2>2, <2>3, <2>4, TaskMoves
  <1>7. NoneTwice'
    BY <1>1, <1>2 DEF NoneTwice
  <1>8. gone' \subseteq Tasks /\ IsFiniteSet(gone') /\ Cardinality(gone') = Cardinality(gone) + 1
    <2>1. IsFiniteSet(gone) /\ gone \subseteq Tasks
      BY <1>2 DEF QueueTypeOK
    <2> QED  BY <1>4, <1>6, <2>1, FS_AddElement
  <1>9. Lengths' = Lengths
    BY <1>1 DEF Lengths
  <1>10. Queued' = Queued - 1
    <2>1. Choosing' = Choosing \ {t} /\ t \in Choosing
      BY <1>3, <1>4, <1>5 DEF Choosing, NoTask
    <2>2. /\ InHand = Cardinality(Pairs(Lengths)) + Cardinality(Choosing)
          /\ Cardinality(Pairs(Lengths)) \in Nat /\ Cardinality(Choosing) \in Nat
          /\ IsFiniteSet(Choosing) /\ Len(heap) \in Nat
      BY <1>2, HandsAreCounted
    <2>3. Cardinality(Choosing') = Cardinality(Choosing) - 1
      BY <2>1, <2>2, FS_RemoveElement
    <2>4. InHand' = Cardinality(Pairs(Lengths')) + Cardinality(Choosing')
      BY DEF InHand, Lengths, Choosing
    <2>5. InHand' = InHand - 1 /\ InHand \in Int
      BY <1>9, <2>2, <2>3, <2>4
    <2> QED  BY <1>1, <2>2, <2>5 DEF Queued
  <1>11. InHandsOK' /\ pc' = [u \in Threads |-> pc'[u]]
    <2>1. \A u \in Threads \ {t} :
             local'[u] = local[u] /\ best'[u] = best[u] /\ dropped'[u] = dropped[u]
      BY <1>1, <1>5
    <2>2. best'[t] # NoTask <=> "idle" = "putBack"
      BY <1>5
    <2>3. dropped'[t] = 0 /\ local'[t] = <<>>
      BY <1>1, <1>2 DEF InHandsOK
    <2>4. cleared \/ "idle" = "clear" => cleared'
      BY <1>1
    <2>5. "idle" \notin {"enqueue", "peekReturn"}
      OBVIOUS
    <2> QED  BY <1>1, <1>2, <2>1, <2>2, <2>3, <2>4, <2>5, OneGoesOn
  <1>12. QueueTypeOK'
    <2>1. size' \in Int
      BY <1>1, <1>2 DEF QueueTypeOK
    <2> QED  BY <1>1, <1>2, <1>5, <1>8, <1>9, <1>11, <2>1 DEF QueueTypeOK
  <1>13. Counted'
    <2>1. Pushing' = Pushing
      <3>1. "idle" \notin {"enqueue", "count"} /\ pc[t] \notin {"enqueue", "count"}
        BY <1>1
      <3> QED  BY <1>1, <1>2, <3>1, PushersAfter
    <2>2. Cardinality(Pushing') = Cardinality(Pushing)
      BY <2>1
    <2>3. Cardinality(Pairs(dropped')) = Cardinality(Pairs(dropped))
      BY <1>1
    <2>4. /\ Queued \in Nat /\ Cardinality(gone) \in Nat /\ Cardinality(Pushing) \in Nat
          /\ Cardinality(Pairs(dropped)) \in Nat /\ Cardinality(Threads) \in Nat
          /\ MaxSize \in Nat
      BY <1>2, HandsAreCounted, TaskQueueAssumption DEF TaskQueueAssumption
    <2>5. Queued' + Cardinality(gone') = counter'
      BY <1>1, <1>2, <1>8, <1>10, <2>4 DEF Counted
    <2>6. ASSUME ~ cleared'
          PROVE  /\ Queued' <= MaxSize + Cardinality(Threads) - 1
                 /\ size' = Queued' - Cardinality(Pushing') + Cardinality(Pairs(dropped'))
      <3>1. /\ Queued <= MaxSize + Cardinality(Threads) - 1
            /\ size = Queued - Cardinality(Pushing) + Cardinality(Pairs(dropped))
        BY <1>1, <1>2, <2>6 DEF Counted
      <3> QED  BY <1>1, <1>10, <2>2, <2>3, <2>4, <3>1
    <2> QED  BY <2>5, <2>6 DEF Counted
  <1>14. Known'
    BY <1>1, <1>2, <1>6 DEF Known
  <1> QED  BY <1>6, <1>7, <1>11, <1>12, <1>13, <1>14 DEF QueueIInv

(* Steps that take a task, or put one back.                                *)
LEMMA TakingKeeps ==
    ASSUME QueueIInv, NEW t \in Threads,
           \/ Enqueue(t) \/ Drain(t) \/ PutBack(t) \/ Keep(t) \/ PeekTake(t) \/ PeekPut(t)
    PROVE  QueueIInv'
  <1>1. QueueTypeOK /\ InHandsOK
    BY DEF QueueIInv
  <1>2. CASE Enqueue(t)
    BY <1>1, <1>2, HandStep DEF Enqueue, Goto, InHandsOK
  <1>3. CASE Drain(t)
    BY <1>1, <1>3, HandStep DEF Drain, Goto, InHandsOK
  <1>4. CASE PutBack(t)
    <2>1. pc' = [pc EXCEPT ![t] = pc[t]]
      BY <1>1, <1>4 DEF PutBack, QueueTypeOK
    <2> QED  BY <1>1, <1>4, <2>1, HandStep DEF PutBack, InHandsOK
  <1>5. CASE Keep(t)
    BY <1>1, <1>5, HandStep DEF Keep, Goto, InHandsOK
  <1>6. CASE PeekTake(t)
    <2>1. pc[t] = "peek" /\ local[t] = <<>> /\ dropped[t] = 0
      BY <1>6, IdleHands DEF PeekTake, Goto
    <2> QED  BY <1>6, <2>1, HandStep DEF PeekTake, Goto
  <1>7. CASE PeekPut(t)
    BY <1>1, <1>7, HandStep DEF PeekPut, Goto, InHandsOK
  <1> QED  BY <1>2, <1>3, <1>4, <1>5, <1>6, <1>7

(* Steps that only go on.                                                  *)
LEMMA PlainKeeps ==
    ASSUME QueueIInv, NEW t \in Threads,
           \/ StartPop(t) \/ PopNothing(t) \/ StartDrop(t) \/ Sifted(t) \/ StartPeek(t)
           \/ PeekEnd(t) \/ Shutdown(t)
    PROVE  QueueIInv'
  <1>1. UNCHANGED <<heap, counter, size, local, best, dropped, gone, cleared>>
    BY DEF StartPop, PopNothing, StartDrop, Sifted, StartPeek, PeekEnd, Shutdown
  <1>2. QueueTypeOK /\ InHandsOK
    BY DEF QueueIInv
  <1>3. PICK to \in {"drain", "idle", "sift", "keep", "peek"} :
           /\ pc' = [pc EXCEPT ![t] = to]
           /\ pc[t] \in {"idle", "drain", "sift", "peek"}
           /\ to \in {"idle", "drain", "peek"} => pc[t] \in {"idle", "peek", "drain"}
           /\ to \in {"idle", "peek"} => local[t] = <<>> \/ pc[t] \in {"idle", "peek"}
    BY DEF StartPop, PopNothing, StartDrop, Sifted, StartPeek, PeekEnd, Shutdown, Call, Goto
  <1>4. pc[t] \in {"idle", "peek"} => local[t] = <<>>
    BY IdleHands
  <1>5. to \in {"idle", "drain", "peek"} => dropped[t] = 0
    BY <1>2, <1>3 DEF InHandsOK
  <1>6. /\ to \notin {"enqueue", "peekReturn"} /\ (to = "putBack" <=> pc[t] = "putBack")
        /\ to # "clear" /\ (to \in {"enqueue", "count"} <=> pc[t] \in {"enqueue", "count"})
    BY <1>3
  <1>7. local[t] = <<>> \/ to \in {"drain", "putBack", "sift", "keep"}
    BY <1>3, <1>4
  <1>8. dropped[t] = 0 \/ to \in {"sift", "keep"}
    BY <1>3, <1>5
  <1> QED  BY <1>1, <1>3, <1>6, <1>7, <1>8, PlainStep

LEMMA QueueStep ==
    ASSUME QueueIInv, QueueNext PROVE QueueIInv'
  <1>1. PICK t \in Threads : Step(t)
    BY DEF QueueNext
  <1>2. \/ Push(t) \/ CountPush(t) \/ Choose(t) \/ PopReturn(t) \/ DropOne(t) \/ DropReturn(t)
        \/ StartClear(t) \/ ClearOne(t) \/ ClearEnd(t)
        \/ \/ Enqueue(t) \/ Drain(t) \/ PutBack(t) \/ Keep(t) \/ PeekTake(t) \/ PeekPut(t)
        \/ \/ StartPop(t) \/ PopNothing(t) \/ StartDrop(t) \/ Sifted(t) \/ StartPeek(t)
           \/ PeekEnd(t) \/ Shutdown(t)
    BY <1>1 DEF Step, PushCall, PopCall, DropCall, PeekCall, ClearCall
  <1> QED  BY <1>2, PushKeeps, CountPushKeeps, ChooseKeeps, PopReturnKeeps, LeaveKeeps,
              DropReturnKeeps, ClearKeeps, TakingKeeps, PlainKeeps
(* Nothing is in the hands of anybody when nobody is calling, and the size *)
(* is right then.                                                          *)
LEMMA QueueFollows ==
    ASSUME QueueIInv PROVE QueueAccounted
  <1>1. QueueTypeOK /\ InHandsOK /\ Known /\ Counted
    BY DEF QueueIInv
  <1>2. {x.id : x \in Present} = 1 .. counter
    BY <1>1 DEF Known
  <1>3. Len(heap) + InHand + Cardinality(gone) = counter
    BY <1>1 DEF Counted, Queued
  <1>4. ASSUME ~ cleared
        PROVE  /\ Len(heap) + InHand <= MaxSize + Cardinality(Threads) - 1
               /\ Quiet => size = Len(heap)
    <2>1. /\ Queued <= MaxSize + Cardinality(Threads) - 1
          /\ size = Queued - Cardinality(Pushing) + Cardinality(Pairs(dropped))
      BY <1>1, <1>4 DEF Counted
    <2>2. ASSUME Quiet PROVE size = Len(heap)
      <3>1. \A t \in Threads : pc[t] = "idle"
        BY <2>2 DEF Quiet, Idle
      <3>2. \A t \in Threads : local[t] = <<>> /\ best[t] = NoTask /\ dropped[t] = 0
        BY <3>1, IdleHands
      <3>3. Pushing = {} /\ Choosing = {}
        BY <3>1, <3>2 DEF Pushing, Choosing
      <3>4. Pairs(Lengths) = {} /\ Pairs(dropped) = {}
        <4>1. \A t \in Threads : Lengths[t] = 0 /\ dropped[t] = 0
          BY <3>2 DEF Lengths
        <4>2. 1 .. 0 = {}
          OBVIOUS
        <4> QED  BY <4>1, <4>2 DEF Pairs
      <3>5. /\ Cardinality(Pushing) = 0 /\ Cardinality(Choosing) = 0
            /\ Cardinality(Pairs(Lengths)) = 0 /\ Cardinality(Pairs(dropped)) = 0
        BY <3>3, <3>4, FS_EmptySet
      <3>6. InHand = 0 /\ Len(heap) \in Nat
        BY <1>1, <3>5, HandsAreCounted
      <3>7. Queued = Len(heap)
        BY <3>6 DEF Queued
      <3> QED  BY <2>1, <3>5, <3>6, <3>7
    <2> QED  BY <2>1, <2>2 DEF Queued
  <1> QED  BY <1>2, <1>3, <1>4 DEF QueueAccounted, TaskConservation, SizeIsBounded

-----------------------------------------------------------------------------
(***************************************************************************)
(* The composition.                                                        *)
(***************************************************************************)
(* The structures nobody is at work on stay as they were made.             *)
PoolUntouched == peak = 0 /\ most = 0 /\ loaded = [t \in Threads |-> 0]
BucketUntouched == admitted = 0 /\ now = 0 /\ round = [t \in Threads |-> 1]
JournalUntouched ==
    /\ batch = <<>> /\ flushed = 0 /\ head = 0 /\ tail = 0 /\ count = 0
    /\ logged = 0 /\ popped = <<>> /\ discarded = {}
QueueUntouched ==
    /\ heap = <<>> /\ counter = 0 /\ size = 0 /\ gone = {}
    /\ local = [t \in Threads |-> <<>>] /\ best = [t \in Threads |-> NoTask]
    /\ dropped = [t \in Threads |-> 0]
SweeperUntouched ==
    /\ pendingOrders = <<>> /\ registered = 0 /\ removed = {} /\ reported = {}
    /\ orphans = [t \in Threads |-> {}] /\ stillPending = [t \in Threads |-> <<>>]
    /\ lateAtStart = [t \in Threads |-> {}]

QueuePart == IF structure = "queue" THEN QueueIInv ELSE QueueUntouched
PoolPart == IF structure = "pool" THEN PeakIInv ELSE PoolUntouched
BucketPart == IF structure = "bucket" THEN BucketIInv /\ RetryIInv ELSE BucketUntouched
JournalPart == IF structure = "journal" THEN JournalIInv ELSE JournalUntouched
SweeperPart == IF structure = "sweeper" THEN SweepIInv ELSE SweeperUntouched

(* A step of the composition keeps the peak.                               *)
LEMMA PoolKeptPart ==
    ASSUME PoolPart, [SharedNext]_sharedVars
    PROVE  /\ PoolPart' /\ peak <= peak' /\ peak' <= most'
           /\ \A t \in Threads :
                 pc[t] = "exchange" /\ pc'[t] = "idle" => peak' >= loaded[t]
  <1>1. CASE structure = "pool" /\ SharedNext
    <2>1. PoolNext /\ structure' = structure /\ PeakIInv
      BY <1>1 DEF SharedNext, PoolPart
    <2> QED  BY <1>1, <2>1, PeakStep DEF PoolPart
  <1>2. CASE structure = "pool" /\ UNCHANGED sharedVars
    <2>1. UNCHANGED <<pc, poolVars, structure>>
      BY <1>2 DEF sharedVars
    <2>2. PeakIInv
      BY <1>2 DEF PoolPart
    <2> QED  BY <1>2, <2>1, <2>2 DEF PoolPart, PeakIInv, PeakInv, PeakTypeOK, poolVars
  <1>3. CASE structure # "pool"
    <2>1. structure' = structure /\ UNCHANGED poolVars
      BY <1>3 DEF SharedNext, sharedVars
    <2> QED  BY <1>3, <2>1 DEF PoolPart, PoolUntouched, poolVars
  <1> QED  BY <1>1, <1>2, <1>3

(* A step of the composition keeps the bucket.                             *)
LEMMA BucketKeptPart ==
    ASSUME BucketAssumption, BucketPart, [SharedNext]_sharedVars
    PROVE  /\ BucketPart'
           /\ \A t \in Threads :
                 LoadTokens(t) /\ tokens < want[t] /\ promise[t].want = want[t]
                    => clock[t] < promise[t].until
  <1>1. CASE structure = "bucket" /\ SharedNext
    <2>1. BucketNext /\ structure' = structure /\ BucketIInv /\ RetryIInv
      BY <1>1 DEF SharedNext, BucketPart
    <2> QED  BY <1>1, <2>1, BucketStep, RetryStep, PromiseIsKept DEF BucketPart
  <1>2. CASE structure = "bucket" /\ UNCHANGED sharedVars
    <2>1. UNCHANGED <<pc, bucketVars, structure>>
      BY <1>2 DEF sharedVars
    <2>2. BucketIInv /\ RetryIInv
      BY <1>2 DEF BucketPart
    <2>3. BucketTypeOK'
      BY <2>1, <2>2 DEF BucketIInv, BucketTypeOK, bucketVars
    <2>4. RefillInv'
      BY <2>1, <2>2 DEF BucketIInv, RefillInv, Refilling, bucketVars
    <2>5. PhaseTypeOK'
      BY <2>1, <2>2 DEF RetryIInv, PhaseTypeOK, bucketVars
    <2>6. \A t \in Threads : Due(t)' = Due(t) /\ Waits(t)' = Waits(t)
      BY <2>1 DEF Due, Waits, bucketVars
    <2>7. PromiseInv'
      BY <2>1, <2>2, <2>6 DEF RetryIInv, PromiseInv, bucketVars
    <2>8. (DOMAIN round)' = Threads /\ (DOMAIN promise)' = Threads
      BY <2>1, <2>2 DEF RetryIInv, bucketVars
    <2> QED  BY <1>2, <2>1, <2>2, <2>3, <2>4, <2>5, <2>7, <2>8, PromiseIsKept
             DEF BucketPart, BucketIInv, RetryIInv
  <1>3. CASE structure # "bucket"
    <2>1. structure' = structure /\ UNCHANGED bucketVars
      BY <1>3 DEF SharedNext, sharedVars
    <2>2. BucketUntouched
      BY <1>3 DEF BucketPart
    <2>3. \A t \in Threads : ~ LoadTokens(t)
      BY <2>1, <2>2 DEF LoadTokens, BucketUntouched, bucketVars
    <2> QED  BY <1>3, <2>1, <2>2, <2>3 DEF BucketPart, BucketUntouched, bucketVars
  <1> QED  BY <1>1, <1>2, <1>3

(* A step of the composition keeps the journal.                            *)
LEMMA JournalKeptPart ==
    ASSUME JournalAssumption, OneReader, JournalPart, [SharedNext]_sharedVars
    PROVE  JournalPart'
  <1>1. CASE structure = "journal" /\ SharedNext
    <2>1. JournalNext /\ structure' = structure /\ JournalIInv
      BY <1>1 DEF SharedNext, JournalPart
    <2>2. JournalIInv'
      BY <2>1, WriterStep, ReaderStep DEF JournalNext
    <2> QED  BY <1>1, <2>1, <2>2 DEF JournalPart
  <1>2. CASE structure = "journal" /\ UNCHANGED sharedVars
    <2>1. UNCHANGED <<pc, journalVars, structure>>
      BY <1>2 DEF sharedVars
    <2>2. JournalIInv
      BY <1>2 DEF JournalPart
    <2>3. JournalTypeOK'
      BY <2>1, <2>2 DEF JournalIInv, JournalTypeOK, journalVars
    <2>4. Total' = Total /\ \A k \in 1 .. Total : At(k)' = At(k)
      BY <2>1 DEF Total, At, journalVars
    <2>5. EventsInv'
      <3>1. logged' = logged /\ discarded' = discarded
        BY <2>1 DEF journalVars
      <3> QED  BY <2>2, <2>4, <3>1, EventsKept DEF JournalIInv
    <2>6. WriterInv'
      BY <2>1, <2>2 DEF JournalIInv, WriterInv, journalVars
    <2>7. ReaderInv' /\ CountInv'
      BY <2>1, <2>2 DEF JournalIInv, ReaderInv, CountInv, journalVars
    <2> QED  BY <1>2, <2>1, <2>3, <2>5, <2>6, <2>7 DEF JournalPart, JournalIInv
  <1>3. CASE structure # "journal"
    <2>1. structure' = structure /\ UNCHANGED journalVars
      BY <1>3 DEF SharedNext, sharedVars
    <2> QED  BY <1>3, <2>1 DEF JournalPart, JournalUntouched, journalVars
  <1> QED  BY <1>1, <1>2, <1>3

(* A step of the composition keeps the orders.                             *)
LEMMA SweeperKeptPart ==
    ASSUME SweeperPart, [SharedNext]_sharedVars
    PROVE  SweeperPart'
  <1>1. CASE structure = "sweeper" /\ SharedNext
    <2>1. SweeperNext /\ structure' = structure /\ SweepIInv
      BY <1>1 DEF SharedNext, SweeperPart
    <2> QED  BY <1>1, <2>1, SweepStep DEF SweeperPart
  <1>2. CASE structure = "sweeper" /\ UNCHANGED sharedVars
    <2>1. UNCHANGED <<pc, sweeperVars, structure>>
      BY <1>2 DEF sharedVars
    <2>2. SweepIInv
      BY <1>2 DEF SweeperPart
    <2>3. Waiting' = Waiting /\ \A t \in Threads : Kept(t)' = Kept(t) /\ Sweeping(t)' = Sweeping(t)
      BY <2>1 DEF Waiting, Kept, Sweeping, sweeperVars
    <2>4. SweepTypeOK'
      BY <2>1, <2>2 DEF SweepIInv, SweepTypeOK, sweeperVars
    <2>5. PlacesInv'
      <3>1. \A x : Somewhere(x)' <=> Somewhere(x)
        BY <2>1, <2>3 DEF Somewhere, sweeperVars
      <3> QED  BY <2>1, <2>2, <2>3, <3>1 DEF SweepIInv, PlacesInv, sweeperVars
    <2>6. UniqueInv' /\ LateInv'
      BY <2>1, <2>2, <2>3 DEF SweepIInv, UniqueInv, LateInv, sweeperVars
    <2> QED  BY <1>2, <2>1, <2>4, <2>5, <2>6 DEF SweeperPart, SweepIInv
  <1>3. CASE structure # "sweeper"
    <2>1. structure' = structure /\ UNCHANGED sweeperVars
      BY <1>3 DEF SharedNext, sharedVars
    <2> QED  BY <1>3, <2>1 DEF SweeperPart, SweeperUntouched, sweeperVars
  <1> QED  BY <1>1, <1>2, <1>3

(* A queue nobody has used is empty.                                       *)
LEMMA NothingQueued ==
    ASSUME QueueUntouched
    PROVE  /\ Present = {} /\ \A p \in TaskPlaces : TasksAt(p) = {}
           /\ InHand = 0 /\ Len(heap) = 0 /\ Queued = 0
           /\ Cardinality(gone) = 0 /\ IsFiniteSet(gone)
           /\ IsFiniteSet(Pairs(Lengths))
           /\ IsFiniteSet(Pairs(dropped)) /\ Cardinality(Pairs(dropped)) = 0
           /\ MaxSize + Cardinality(Threads) - 1 \in Nat
  <1>1. \A t \in Threads : Lengths[t] = 0 /\ dropped[t] = 0
    BY DEF Lengths, QueueUntouched
  <1>2. Pairs(Lengths) = {} /\ Pairs(dropped) = {}
    <2>1. 1 .. 0 = {}
      OBVIOUS
    <2> QED  BY <1>1, <2>1 DEF Pairs
  <1>3. Choosing = {}
    BY DEF Choosing, QueueUntouched
  <1>4. /\ Cardinality(Pairs(Lengths)) = 0 /\ Cardinality(Pairs(dropped)) = 0
        /\ IsFiniteSet(Pairs(Lengths)) /\ IsFiniteSet(Pairs(dropped))
        /\ Cardinality(Choosing) = 0 /\ Cardinality(gone) = 0 /\ IsFiniteSet(gone)
    BY <1>2, <1>3, FS_EmptySet DEF QueueUntouched
  <1>5. InHand = Cardinality(Pairs(Lengths)) + Cardinality(Choosing)
    BY DEF InHand, Lengths, Choosing
  <1>6. Len(heap) = 0 /\ InHand = 0
    BY <1>4, <1>5 DEF QueueUntouched
  <1>7. Queued = 0
    BY <1>6 DEF Queued
  <1>8. ToSet(<<>>) = {}
    BY DEF ToSet
  <1>9. \A p \in TaskPlaces : TasksAt(p) = {}
    <2> SUFFICES ASSUME NEW p \in TaskPlaces PROVE TasksAt(p) = {}
      OBVIOUS
    <2>1. CASE p = <<"heap", "">>
      BY <1>8, <2>1 DEF TasksAt, QueueUntouched
    <2>2. CASE p = <<"gone", "">>
      BY <2>2 DEF TasksAt, QueueUntouched
    <2>3. CASE \E t \in Threads : p = <<"local", t>>
      BY <1>8, <2>3 DEF TasksAt, QueueUntouched
    <2>4. CASE \E t \in Threads : p = <<"best", t>>
      BY <2>4 DEF TasksAt, QueueUntouched
    <2> QED  BY <2>1, <2>2, <2>3, <2>4, PlacesByName
  <1>10. Present = {}
    BY <1>9, PresentIsPlaced DEF PresentPlaced
  <1>11. MaxSize + Cardinality(Threads) - 1 \in Nat
    <2>1. IsFiniteSet(Threads) /\ Threads # {} /\ MaxSize \in Nat
      BY TaskQueueAssumption DEF TaskQueueAssumption
    <2>2. Cardinality(Threads) \in Nat /\ Cardinality(Threads) # 0
      BY <2>1, FS_CardinalityType, FS_EmptySet
    <2> QED  BY <2>1, <2>2
  <1> QED  BY <1>4, <1>6, <1>7, <1>9, <1>10, <1>11

LEMMA QueueStart ==
    ASSUME pc = Idle, QueueUntouched, cleared = FALSE PROVE QueueIInv
  <1>1. \A t \in Threads : /\ pc[t] = "idle" /\ local[t] = <<>> /\ best[t] = NoTask
                            /\ dropped[t] = 0
    BY DEF Idle, QueueUntouched
  <1>2. QueueTypeOK
    <2>1. pc = [t \in Threads |-> pc[t]]
      BY DEF Idle
    <2>2. <<>> \in Seq(Tasks) /\ 0 \in Nat /\ 0 \in Int
      OBVIOUS
    <2>3. /\ local \in [Threads -> Seq(Tasks)] /\ best \in [Threads -> Tasks \cup {NoTask}]
          /\ dropped \in [Threads -> Nat]
      BY <2>2 DEF QueueUntouched
    <2> QED  BY <2>1, <2>2, <2>3, NothingQueued DEF QueueTypeOK, QueueUntouched
  <1>3. InHandsOK
    BY <1>1 DEF InHandsOK
  <1>4. Apart
    BY NothingQueued DEF Apart
  <1>5. NoneTwice
    <2>1. IsInjective(<<>>)
      BY DEF IsInjective
    <2> QED  BY <1>1, <2>1 DEF NoneTwice, QueueUntouched
  <1>6. Known
    <2>1. 1 .. 0 = {}
      OBVIOUS
    <2> QED  BY <2>1, NothingQueued DEF Known, QueueUntouched
  <1>7. Counted
    <2>1. Pushing = {}
      BY <1>1 DEF Pushing
    <2>2. Cardinality(Pushing) = 0
      BY <2>1, FS_EmptySet
    <2> QED  BY <2>2, NothingQueued DEF Counted, QueueUntouched
  <1> QED  BY <1>2, <1>3, <1>4, <1>5, <1>6, <1>7 DEF QueueIInv

(* A step of the composition keeps the tasks.                              *)
LEMMA QueueKeptPart ==
    ASSUME QueuePart, [SharedNext]_sharedVars
    PROVE  QueuePart'
  <1>1. CASE structure = "queue" /\ SharedNext
    <2>1. QueueNext /\ structure' = structure /\ QueueIInv
      BY <1>1 DEF SharedNext, QueuePart
    <2> QED  BY <1>1, <2>1, QueueStep DEF QueuePart
  <1>2. CASE structure = "queue" /\ UNCHANGED sharedVars
    <2>1. UNCHANGED <<pc, queueVars, structure>>
      BY <1>2 DEF sharedVars
    <2>2. QueueIInv
      BY <1>2 DEF QueuePart
    <2>3. /\ Apart' /\ Present' = Present /\ NoneTwice' /\ Queued' = Queued /\ Lengths' = Lengths
      BY <2>1, <2>2, TasksStay DEF queueVars
    <2>4. QueueTypeOK'
      BY <2>1, <2>2, <2>3 DEF QueueIInv, QueueTypeOK, queueVars
    <2>5. InHandsOK'
      BY <2>1, <2>2 DEF QueueIInv, InHandsOK, queueVars
    <2>6. Known'
      BY <2>1, <2>2, <2>3 DEF QueueIInv, Known, queueVars
    <2>7. Counted'
      <3>1. Pushing' = Pushing
        BY <2>1 DEF Pushing
      <3>2. UNCHANGED <<gone, counter, size, cleared, dropped>>
        BY <2>1 DEF queueVars
      <3> QED  BY <2>2, <2>3, <3>1, <3>2 DEF QueueIInv, Counted
    <2> QED  BY <1>2, <2>1, <2>3, <2>4, <2>5, <2>6, <2>7 DEF QueuePart, QueueIInv
  <1>3. CASE structure # "queue"
    <2>1. structure' = structure /\ UNCHANGED queueVars
      BY <1>3 DEF SharedNext, sharedVars
    <2> QED  BY <1>3, <2>1 DEF QueuePart, QueueUntouched, queueVars
  <1> QED  BY <1>1, <1>2, <1>3

(* At the start every structure is as it was made.                         *)
LEMMA SharedStart ==
    ASSUME BucketAssumption, JournalAssumption, SharedInit
    PROVE  PoolPart /\ BucketPart /\ JournalPart /\ SweeperPart
  <1> USE DEF SharedInit, Idle
  <1>1. PoolPart
    <2>1. [t \in Threads |-> 0] \in [Threads -> Nat]
      OBVIOUS
    <2> QED  BY <2>1 DEF PoolInit, PoolPart, PoolUntouched, PeakIInv, PeakTypeOK, PeakInv
  <1>2. BucketPart
    <2> USE DEF BucketInit, BucketAssumption
    <2>1. [t \in Threads |-> 0] \in [Threads -> Nat]
      OBVIOUS
    <2>2. BucketTypeOK
      BY <2>1 DEF BucketTypeOK
    <2>3. 0 \div Period = 0
      BY DivideSum
    <2>4. RefillInv
      BY <2>3 DEF RefillInv, Refilling
    <2>5. PhaseTypeOK
      <3>1. \A t \in Threads : /\ promise[t].want = 0 /\ promise[t].until = 0
                              /\ round[t] = 1 /\ pc[t] = "idle"
        BY DEF NoPromise
      <3>2. 0 \in 0 .. Capacity
        OBVIOUS
      <3> HIDE DEF SharedInit, BucketInit, BucketAssumption
      <3>3. ASSUME NEW t \in Threads
            PROVE  /\ round[t] \in {1, 2}
                   /\ pc[t] = "idle"
                   /\ promise[t].want \in 0 .. Capacity /\ promise[t].until \in Nat
        BY <3>1, <3>2
      <3>4. \A t \in Threads : pc[t] # "load" /\ pc[t] # "consume"
        BY <3>3
      <3> QED  BY <3>3, <3>4, Zenon DEF PhaseTypeOK
    <2>6. PromiseInv
      BY DEF PromiseInv, NoPromise
    <2> QED  BY <2>2, <2>4, <2>5, <2>6 DEF BucketPart, BucketUntouched, BucketIInv, RetryIInv
  <1>3. JournalPart
    <2>1. CASE structure = "journal"
      <3> USE <2>1 DEF JournalInit, JournalAssumption
      <3>0. /\ pc[writer] = "idle" /\ writer \in Threads /\ \A t \in Threads : pc[t] = "idle"
            /\ Len(batch) = 0 /\ Len(popped) = 0
        BY EmptySeq
      <3>1. JournalTypeOK
        <4>1. [i \in 0 .. (RingSlots - 1) |-> 0] \in [0 .. (RingSlots - 1) -> Nat]
          OBVIOUS
        <4>2. <<>> \in Seq(Nat)
          OBVIOUS
        <4> QED  BY <3>0, <4>1, <4>2 DEF JournalTypeOK
      <3>2. Total = 0
        BY <3>0 DEF Total
      <3>3. EventsInv
        BY <3>2 DEF EventsInv
      <3>4. WriterInv /\ ReaderInv /\ CountInv
        BY <3>0 DEF WriterInv, ReaderInv, CountInv
      <3> QED  BY <3>1, <3>3, <3>4 DEF JournalPart, JournalIInv
    <2>2. CASE structure # "journal"
      BY <2>2 DEF JournalInit, JournalPart, JournalUntouched
    <2> QED  BY <2>1, <2>2
  <1>4. SweeperPart
    <2> USE DEF SweeperInit
    <2>1. ToSet(<<>>) = {} /\ IsInjective(<<>>) /\ <<>> \in Seq(Nat)
      BY EmptyHasNothing
    <2>2. /\ Waiting = {}
          /\ \A t \in Threads : Kept(t) = {} /\ ~ Sweeping(t)
      BY <2>1 DEF Waiting, Kept, Sweeping
    <2>3. SweepTypeOK
      <3>1. [t \in Threads |-> <<>>] \in [Threads -> Seq(Nat)]
        BY <2>1
      <3>2. [t \in Threads |-> {}] \in [Threads -> SUBSET (1 .. 0)]
        OBVIOUS
      <3>3. [t \in Threads |-> FALSE] \in [Threads -> BOOLEAN]
        OBVIOUS
      <3> QED  BY <2>1, <3>1, <3>2, <3>3 DEF SweepTypeOK
    <2>4. PlacesInv
      <3>1. \A x : ~ Somewhere(x)
        BY <2>2 DEF Somewhere
      <3> QED  BY <2>2, <3>1 DEF PlacesInv
    <2>5. UniqueInv /\ LateInv
      BY <2>1, <2>2 DEF UniqueInv, LateInv
    <2> QED  BY <2>3, <2>4, <2>5 DEF SweeperPart, SweeperUntouched, SweepIInv
  <1> QED  BY <1>1, <1>2, <1>3, <1>4

-----------------------------------------------------------------------------
(* MemoryPool: the racing compare-exchange loops of the peak never lose    *)
(* nor invent a maximum, for any number of threads and slabs.              *)
THEOREM PeakIsTheMaximum == SharedSpec => PeakKeepsMaximum
  <1>1. SharedInit => PoolPart
    BY BucketAssumption, JournalAssumption, SharedStart
  <1>2. PoolPart /\ [SharedNext]_sharedVars => PoolPart'
    BY PoolKeptPart
  <1>3. PoolPart /\ [SharedNext]_sharedVars =>
          [ /\ peak <= peak' /\ peak' <= most'
            /\ \A t \in Threads :
                  pc[t] = "exchange" /\ pc'[t] = "idle" => peak' >= loaded[t] ]_<<pc, poolVars>>
    BY PoolKeptPart
  <1> QED  BY <1>1, <1>2, <1>3, PTL DEF SharedSpec, PeakKeepsMaximum

(* TokenBucket: while no two refills overlap, threads that look and        *)
(* consume in any order are never given more than the rate.                *)
THEOREM UnracedRateHolds == SharedSpec => []RateRespectedUnlessRaced
  <1>1. SharedInit => BucketPart
    BY BucketAssumption, JournalAssumption, SharedStart
  <1>2. BucketPart /\ [SharedNext]_sharedVars => BucketPart'
    BY BucketAssumption, BucketKeptPart
  <1>3. BucketPart => RateRespectedUnlessRaced
    <2>1. BucketUntouched => RateRespectedUnlessRaced
      <3>1. 0 \div Period \in Nat
        BY BucketAssumption DEF BucketAssumption
      <3> QED  BY <3>1, BucketAssumption
               DEF BucketUntouched, RateRespectedUnlessRaced, RateRespected, BucketAssumption
    <2> QED  BY <2>1, BucketAssumption, RefillRespectsRate DEF BucketPart
  <1> QED  BY <1>1, <1>2, <1>3, PTL DEF SharedSpec

(* TokenBucket: whoever waits as long as retry_after_ms said is not        *)
(* refused the same tokens again unless another caller came between, even  *)
(* when refills race.                                                      *)
THEOREM WaitIsEnough == SharedSpec => RetrySucceeds
  <1>1. SharedInit => BucketPart
    BY BucketAssumption, JournalAssumption, SharedStart
  <1>2. BucketPart /\ [SharedNext]_sharedVars => BucketPart'
    BY BucketAssumption, BucketKeptPart
  <1>3. BucketPart /\ [SharedNext]_sharedVars =>
          [ \A t \in Threads :
              LoadTokens(t) /\ tokens < want[t] /\ promise[t].want = want[t]
                 => clock[t] < promise[t].until ]_<<pc, bucketVars>>
    BY BucketAssumption, BucketKeptPart
  <1> QED  BY <1>1, <1>2, <1>3, PTL DEF SharedSpec, RetrySucceeds

(* TradeJournal: with one writer and one reader, every event logged is     *)
(* read once and in order, waits in the ring or the batch, or was counted  *)
(* among the dropped, whatever the sizes of the two.                       *)
THEOREM JournalKeepsEvents ==
    ASSUME OneReader PROVE SharedSpec => []JournalIsComplete
  <1>1. SharedInit => JournalPart
    BY BucketAssumption, JournalAssumption, SharedStart
  <1>2. JournalPart /\ [SharedNext]_sharedVars => JournalPart'
    BY JournalAssumption, JournalKeptPart
  <1>3. JournalPart => JournalIsComplete
    <2>1. JournalUntouched => JournalIsComplete
      <3> SUFFICES ASSUME JournalUntouched PROVE JournalIsComplete
        OBVIOUS
      <3>1. Len(batch) = 0 /\ SubSeq(batch, flushed + 1, Len(batch)) = <<>>
        BY EmptySeq DEF JournalUntouched
      <3>2. InRing = <<>> /\ Len(InRing) = 0
        BY DEF InRing, JournalUntouched
      <3>3. Journal = <<>>
        BY <3>1, <3>2 DEF Journal, JournalUntouched
      <3>4. Len(Journal) = 0 /\ ToSet(Journal) = {}
        BY <3>3, EmptySeq, EmptyHasNothing
      <3>5. 1 .. 0 = {}
        OBVIOUS
      <3> QED  BY <3>2, <3>4, <3>5 DEF JournalIsComplete, JournalUntouched
    <2> QED  BY <2>1, JournalAssumption, JournalFollows DEF JournalPart
  <1> QED  BY <1>1, <1>2, <1>3, PTL DEF SharedSpec

(* OrphanOrderSweeper: any number of sweeps, registrations and calls of    *)
(* clear may interleave: an order stays in one place, and a sweep that was *)
(* alone has caught all that was late.                                     *)
THEOREM OrdersStaySomewhere == SharedSpec => []SweepAccounted
  <1>1. SharedInit => SweeperPart
    BY BucketAssumption, JournalAssumption, SharedStart
  <1>2. SweeperPart /\ [SharedNext]_sharedVars => SweeperPart'
    BY SweeperKeptPart
  <1>3. SweeperPart => SweepAccounted
    <2>1. SweeperUntouched => SweepAccounted
      <3> SUFFICES ASSUME SweeperUntouched PROVE SweepAccounted
        OBVIOUS
      <3>1. Waiting = {} /\ IsInjective(pendingOrders)
        BY EmptyHasNothing DEF Waiting, SweeperUntouched
      <3>2. \A t \in Threads : InHands(t) = {} /\ lateAtStart[t] = {}
        BY EmptyHasNothing DEF InHands, SweeperUntouched
      <3>3. UNION {InHands(t) : t \in Threads} = {}
        BY <3>2
      <3>4. 1 .. registered = {}
        BY DEF SweeperUntouched
      <3> QED  BY <3>1, <3>2, <3>3, <3>4 DEF SweepAccounted, SweeperUntouched
    <2> QED  BY <2>1, SweepFollows DEF SweeperPart
  <1> QED  BY <1>1, <1>2, <1>3, PTL DEF SharedSpec

(* TaskQueue: a task is in one place whatever calls interleave, and the    *)
(* size is right and the limit kept but for one task a thread.             *)
THEOREM TasksStaySomewhere == SharedSpec => []QueueAccounted
  <1>1. SharedInit => QueuePart
    <2> SUFFICES ASSUME SharedInit PROVE QueuePart
      OBVIOUS
    <2>1. QueueUntouched /\ cleared = FALSE /\ pc = Idle
      BY DEF SharedInit, QueueInit, QueueUntouched
    <2> QED  BY <2>1, QueueStart DEF QueuePart
  <1>2. QueuePart /\ [SharedNext]_sharedVars => QueuePart'
    BY QueueKeptPart
  <1>3. QueuePart => QueueAccounted
    <2>1. QueueUntouched => QueueAccounted
      <3> SUFFICES ASSUME QueueUntouched PROVE QueueAccounted
        OBVIOUS
      <3>1. 1 .. 0 = {}
        OBVIOUS
      <3> QED  BY <3>1, NothingQueued
               DEF QueueAccounted, TaskConservation, SizeIsBounded, QueueUntouched
    <2> QED  BY <2>1, QueueFollows DEF QueuePart
  <1> QED  BY <1>1, <1>2, <1>3, PTL DEF SharedSpec

(* LockFreeStructures: nothing that was accepted is mislaid or handled     *)
(* twice, whichever of the structures the threads are at work on.          *)
THEOREM NothingIsMislaid == SharedSpec => []NothingMislaid
  BY TasksStaySomewhere, OrdersStaySomewhere, PTL DEF NothingMislaid
=============================================================================
