----------------------- MODULE LockedStructuresProofs -----------------------
(***************************************************************************)
(* Proofs about the structures of LockedStructures.  Each section has the  *)
(* inductive invariant of one structure and the proof that its steps keep  *)
(* it; the last one carries the results over to LockedSpec, where the      *)
(* threads are at work on one structure and the others stay untouched.     *)
(***************************************************************************)
EXTENDS LockedStructures, SequenceTheorems, FiniteSetTheorems, WellFoundedInduction, TLAPS

-----------------------------------------------------------------------------
(***************************************************************************)
(* The locks: whoever has one to write has it alone.                       *)
(***************************************************************************)
Locks ==
    {"active", "previous", "index", "slots", "stats", "normal", "urgent", "marks", "byTime", "byId"}

GuardsOK ==
    /\ DOMAIN pc = Threads
    /\ held \in [Threads -> SUBSET (Locks \X {"read", "write"})]
    /\ \A t \in Threads : \A u \in Threads \ {t} : \A l \in Locks :
          <<l, "write">> \in held[t] => <<l, "write">> \notin held[u] /\ <<l, "read">> \notin held[u]

(* A step moves a thread, which takes a lock or gives up its locks.        *)
Moves(t) ==
    /\ DOMAIN pc' = Threads
    /\ \/ UNCHANGED held \/ ReleaseAll(t)
       \/ \E lock \in Locks : Read(t, lock) \/ Write(t, lock)

(* However locks are taken and given up, no lock to write is shared.       *)
LEMMA GuardsStep ==
    ASSUME GuardsOK, NEW t \in Threads, Moves(t)
    PROVE  GuardsOK'
  <1>0. DOMAIN pc' = Threads
    BY DEF Moves
  <1>1. CASE UNCHANGED held
    BY <1>0, <1>1 DEF GuardsOK
  <1>2. ASSUME NEW lock \in Locks, Read(t, lock)
        PROVE  GuardsOK'
    BY <1>0, <1>2 DEF GuardsOK, Read, CanRead
  <1>3. ASSUME NEW lock \in Locks, Write(t, lock)
        PROVE  GuardsOK'
    BY <1>0, <1>3 DEF GuardsOK, Write, CanWrite, CanRead
  <1>4. CASE ReleaseAll(t)
    BY <1>0, <1>4 DEF GuardsOK, ReleaseAll
  <1> QED  BY <1>1, <1>2, <1>3, <1>4 DEF Moves

-----------------------------------------------------------------------------
(***************************************************************************)
(* The swapper: a thread that has taken the active model out has it locked *)
(* until it has put another one in.                                        *)
(***************************************************************************)
MaybeModel == Models \cup {NoModel}

SwapTypeOK ==
    /\ active \in MaybeModel /\ previous \in MaybeModel
    /\ mine \in [Threads -> MaybeModel] /\ base \in [Threads -> MaybeModel]
    /\ newest \in Nat

Putting == \E t \in Threads : pc[t] \in {"putSwap", "putRollback"}

SwapLocks ==
    \A t \in Threads :
        /\ pc[t] \in {"takeSwap", "takeRollback", "putSwap", "putRollback"} =>
              <<"active", "write">> \in held[t]
        /\ pc[t] = "copy" => <<"previous", "read">> \in held[t] /\ previous # NoModel

(* What a thread is going to install is newer than what it was validated   *)
(* against.                                                                *)
SwapPlans ==
    \A t \in Threads :
        /\ pc[t] \in {"lockToSwap", "takeSwap", "putSwap"} =>
              /\ mine[t] # NoModel
              /\ base[t] # NoModel => mine[t].version > base[t].version
        /\ pc[t] \in {"lockToRollback", "takeRollback", "putRollback"} => mine[t] # NoModel

Latest(m) == m # NoModel /\ m.version = newest

(* The newest model is the active one, or has just been moved aside.       *)
SwapServes ==
    newest > 0 =>
        IF Putting THEN raced \/ Latest(previous)
                   ELSE active # NoModel /\ (raced \/ Latest(active))

SwapIInv == GuardsOK /\ SwapTypeOK /\ SwapLocks /\ SwapPlans /\ SwapServes

(* Every step of a thread moves it and takes or gives up its locks.        *)
LEMMA SwapperMoves ==
    ASSUME GuardsOK, NEW t \in Threads,
           LoadInitial(t) \/ StartSwap(t) \/ RefuseSwap(t) \/ StartRollback(t) \/ SwapperStep(t)
    PROVE  Moves(t)
  <1> USE DEF Moves, GuardsOK, Goto, Locks
  <1>1. CASE LoadInitial(t) \/ RefuseSwap(t)
    <2>1. Goto(t, "idle", "idle") /\ UNCHANGED held
      BY <1>1 DEF LoadInitial, RefuseSwap, CallSwapper
    <2> QED  BY <2>1
  <1>2. CASE StartSwap(t)
    <2>1. Goto(t, "idle", "lockToSwap") /\ UNCHANGED held
      BY <1>2 DEF StartSwap, CallSwapper
    <2> QED  BY <2>1
  <1>3. CASE StartRollback(t)
    <2>1. Goto(t, "idle", "copy") /\ Read(t, "previous")
      BY <1>3 DEF StartRollback, CallSwapper
    <2> QED  BY <2>1
  <1>4. CASE CopyPrevious(t)
    <2>1. Goto(t, "copy", "lockToRollback") /\ ReleaseAll(t)
      BY <1>4 DEF CopyPrevious, CopyTo
    <2> QED  BY <2>1
  <1>5. CASE LockActive(t)
    <2>1. Goto(t, "lockToSwap", "takeSwap") \/ Goto(t, "lockToRollback", "takeRollback")
      BY <1>5 DEF LockActive
    <2>2. Write(t, "active")
      BY <1>5 DEF LockActive
    <2> QED  BY <2>1, <2>2
  <1>6. CASE TakeActive(t)
    <2>1. Goto(t, "takeSwap", "putSwap") \/ Goto(t, "takeRollback", "putRollback")
      BY <1>6 DEF TakeActive
    <2>2. Write(t, "previous")
      BY <1>6 DEF TakeActive
    <2> QED  BY <2>1, <2>2
  <1>7. CASE PutSwap(t) \/ PutRollback(t)
    <2>1. Goto(t, "putSwap", "count") \/ Goto(t, "putRollback", "idle")
      BY <1>7 DEF PutSwap, PutRollback
    <2>2. ReleaseAll(t)
      BY <1>7 DEF PutSwap, PutRollback
    <2> QED  BY <2>1, <2>2
  <1>8. CASE CountSwap(t)
    <2>1. Goto(t, "count", "idle") /\ UNCHANGED held
      BY <1>8 DEF CountSwap
    <2> QED  BY <2>1
  <1> QED  BY <1>1, <1>2, <1>3, <1>4, <1>5, <1>6, <1>7, <1>8 DEF SwapperStep

(* Loads, swaps and rollbacks of any threads keep the invariant.           *)
LEMMA SwapperKept ==
    ASSUME SwapIInv, SwapperNext
    PROVE  SwapIInv'
  <1> SUFFICES ASSUME NEW t \in Threads,
                      \/ LoadInitial(t) \/ StartSwap(t) \/ RefuseSwap(t) \/ StartRollback(t)
                      \/ SwapperStep(t)
               PROVE  SwapIInv'
    BY DEF SwapperNext
  <1>0. /\ GuardsOK /\ GuardsOK' /\ NoModel \notin Models
        /\ \A m \in Models : m.version \in Int /\ m.version > 0
    BY SwapperMoves, GuardsStep, SwapperAssumption DEF SwapIInv, Models
  <1> USE <1>0 DEF Locks, SwapIInv, SwapTypeOK, SwapLocks, SwapPlans, SwapServes, Latest, Putting, MaybeModel,
                   Goto, CallSwapper, swapHistory, counters
  <1>1. CASE LoadInitial(t)
    BY <1>1 DEF LoadInitial, CanWrite, CanRead
  <1>2. CASE StartSwap(t)
    BY <1>2 DEF StartSwap, Valid
  <1>3. CASE RefuseSwap(t)
    BY <1>3 DEF RefuseSwap
  <1>4. CASE StartRollback(t)
    BY <1>4 DEF StartRollback, Read, GuardsOK
  <1>5. CASE CopyPrevious(t)
    BY <1>5 DEF CopyPrevious, CopyTo, ReleaseAll, GuardsOK
  <1>6. CASE LockActive(t)
    BY <1>6 DEF LockActive, Write, GuardsOK, swapperVars
  <1>7. CASE TakeActive(t)
    <2>1. /\ previous' = active /\ active' = NoModel
          /\ UNCHANGED <<mine, base, newest, raced>> /\ CanWrite("previous")
      BY <1>7 DEF TakeActive, Write
    <2>2. /\ pc[t] \in {"takeSwap", "takeRollback"} /\ Putting'
          /\ ~ Putting /\ \A u \in Threads \ {t} : pc'[u] = pc[u] /\ pc[u] # "copy"
          /\ pc'[t] \in {"putSwap", "putRollback"} /\ (pc'[t] = "putSwap" <=> pc[t] = "takeSwap")
      <3>1. \/ pc[t] = "takeSwap" /\ pc'[t] = "putSwap"
            \/ pc[t] = "takeRollback" /\ pc'[t] = "putRollback"
        BY <1>7 DEF TakeActive, GuardsOK
      <3>2. <<"active", "write">> \in held[t]
        BY <3>1
      <3>3. \A u \in Threads \ {t} : pc'[u] = pc[u] /\ <<"active", "write">> \notin held[u]
        BY <1>7, <3>2 DEF TakeActive, GuardsOK
      <3>4. \A u \in Threads : <<"previous", "read">> \notin held[u]
        BY <2>1 DEF CanWrite
      <3> QED  BY <3>1, <3>3, <3>4
    <2>3. \A u \in Threads : <<"active", "write">> \in held[u] => <<"active", "write">> \in held'[u]
      BY <1>7 DEF TakeActive, Write, GuardsOK
    <2>4. SwapTypeOK' /\ SwapServes'
      BY <2>1, <2>2
    <2>5. SwapLocks'
      BY <2>2, <2>3
    <2>6. SwapPlans'
      BY <2>1, <2>2
    <2> QED  BY <2>4, <2>5, <2>6
  <1>8. CASE PutSwap(t)
    <2>1. /\ active' = mine[t] /\ UNCHANGED <<previous, mine, base>>
          /\ newest' = IF mine[t].version > newest THEN mine[t].version ELSE newest
          /\ raced' = (raced \/ previous # base[t])
      BY <1>8 DEF PutSwap
    <2>2. /\ pc[t] = "putSwap" /\ pc'[t] = "count" /\ mine[t] \in Models
          /\ \A u \in Threads \ {t} :
                /\ pc'[u] = pc[u] /\ held'[u] = held[u]
                /\ pc[u] \notin {"putSwap", "putRollback"}
      <3>1. pc[t] = "putSwap" /\ pc'[t] = "count"
        BY <1>8 DEF PutSwap, GuardsOK
      <3>2. <<"active", "write">> \in held[t] /\ mine[t] \in Models
        BY <3>1
      <3>3. \A u \in Threads \ {t} :
               pc'[u] = pc[u] /\ held'[u] = held[u] /\ <<"active", "write">> \notin held[u]
        BY <1>8, <3>2 DEF PutSwap, ReleaseAll, GuardsOK
      <3> QED  BY <3>1, <3>2, <3>3
    <2>3. SwapTypeOK'
      BY <2>1, <2>2
    <2>4. SwapLocks' /\ SwapPlans'
      BY <2>1, <2>2
    <2>5. Putting /\ ~ Putting'
      BY <2>2
    <2>6. ~ raced' => newest' = mine[t].version
      <3> SUFFICES ASSUME ~ raced' PROVE newest' = mine[t].version
        OBVIOUS
      <3>1. ~ raced /\ previous = base[t]
        BY <2>1
      <3>2. newest = 0 \/ Latest(base[t])
        BY <2>5, <3>1
      <3> QED  BY <2>1, <2>2, <3>2
    <2>7. SwapServes'
      BY <2>1, <2>2, <2>5, <2>6
    <2> QED  BY <2>3, <2>4, <2>7
  <1>9. CASE PutRollback(t)
    BY <1>9 DEF PutRollback, ReleaseAll, GuardsOK
  <1>10. CASE CountSwap(t)
    BY <1>10 DEF CountSwap, swapHistory
  <1> QED  BY <1>1, <1>2, <1>3, <1>4, <1>5, <1>6, <1>7, <1>8, <1>9, <1>10 DEF SwapperStep

(* Readers get the lock when nobody is between take and put.               *)
LEMMA SwapperServes ==
    ASSUME SwapIInv
    PROVE  NewestServes
BY DEF SwapIInv, SwapLocks, SwapServes, Latest, Putting, NewestServes, CanRead

-----------------------------------------------------------------------------
(***************************************************************************)
(* The cache.  First the queue of slots: what is not taken out stays.      *)
(***************************************************************************)
(* A set of numbers has a least one: what takes induction below takes it   *)
(* from here, as the least number for which a claim fails.                 *)
LEMMA LeastNumber ==
    ASSUME NEW T \in SUBSET Nat, T # {}
    PROVE  \E m \in T : \A y \in T : m <= y
  <1> DEFINE R == {ss \in Nat \X Nat : ss[1] < ss[2]}
  <1>1. IsWellFoundedOn(R, Nat)
    BY NatLessThanWellFounded DEF OpToRel
  <1>2. PICK m \in T : \A y \in T : ~(<<y, m>> \in R)
    <2> HIDE DEF R
    <2> QED  BY <1>1, WFMin
  <1>3. ASSUME NEW y \in T PROVE m <= y
    <2>1. <<y, m>> \in Nat \X Nat
      OBVIOUS
    <2>2. ~(y < m)
      BY <1>2, <2>1
    <2> QED  BY <2>2
  <1> QED  BY <1>3

(* The queue as it is built anew, from the first places to all.            *)
Rebuilds(kept, s, x, len) ==
    kept = [n \in 0 .. len |->
              IF n = 0 THEN <<>>
              ELSE IF s[n] = x THEN kept[n - 1] ELSE Append(kept[n - 1], s[n])]

(* The queue can be built anew, so the definition of Without means         *)
(* something.                                                              *)
LEMMA RebuildExists ==
    ASSUME NEW s, NEW x
    PROVE  \A len \in Nat : \E kept : Rebuilds(kept, s, x, len)
  <1> DEFINE Unbuilt == {len \in Nat : ~ \E kept : Rebuilds(kept, s, x, len)}
  <1> SUFFICES ASSUME Unbuilt # {} PROVE FALSE
    OBVIOUS
  <1>1. PICK n \in Unbuilt : \A y \in Unbuilt : n <= y
    <2>1. Unbuilt \in SUBSET Nat
      OBVIOUS
    <2> HIDE DEF Unbuilt
    <2> QED  BY <2>1, LeastNumber
  <1>2. n \in Nat /\ ~ \E kept : Rebuilds(kept, s, x, n)
    OBVIOUS
  <1>3. n # 0
    <2>1. Rebuilds([k \in 0 .. 0 |-> <<>>], s, x, 0)
      BY DEF Rebuilds
    <2> QED  BY <1>2, <2>1
  <1>4. n - 1 \in Nat /\ n - 1 \notin Unbuilt
    BY <1>1, <1>2, <1>3
  <1>5. PICK kept : Rebuilds(kept, s, x, n - 1)
    BY <1>4
  <1> DEFINE next(k, q) == IF k = 0 THEN <<>> ELSE IF s[k] = x THEN q ELSE Append(q, s[k])
             longer == [k \in 0 .. n |-> IF k = n THEN next(n, kept[n - 1]) ELSE kept[k]]
  <1> HIDE DEF Unbuilt
  <1>6. \A k \in 0 .. (n - 1) : kept[k] = next(k, kept[k - 1])
    BY <1>5 DEF Rebuilds
  <1>7. \A k \in 0 .. n : longer[k] = next(k, longer[k - 1])
    <2> SUFFICES ASSUME NEW k \in 0 .. n
                 PROVE  longer[k] = next(k, longer[k - 1])
      OBVIOUS
    <2>1. CASE k = n
      <3>1. n - 1 \in 0 .. n /\ n - 1 # n
        BY <1>2, <1>3
      <3>2. longer[n - 1] = kept[n - 1]
        BY <3>1
      <3>3. longer[n] = next(n, kept[n - 1])
        BY <1>2
      <3> QED  BY <2>1, <3>2, <3>3
    <2>2. CASE k # n
      <3>1. longer[k] = kept[k] /\ k \in 0 .. (n - 1)
        BY <1>2, <2>2
      <3>2. k # 0 => k - 1 \in 0 .. n /\ k - 1 # n
        BY <1>2, <2>2
      <3>3. k # 0 => longer[k - 1] = kept[k - 1]
        BY <3>2
      <3> QED  BY <1>6, <3>1, <3>3
    <2> QED  BY <2>1, <2>2
  <1>8. longer = [k \in 0 .. n |-> longer[k]]
    OBVIOUS
  <1> HIDE DEF longer
  <1>9. Rebuilds(longer, s, x, n)
    BY <1>7, <1>8 DEF Rebuilds
  <1> QED  BY <1>2, <1>9

(* Without takes nothing else out of the queue.                            *)
LEMMA WithoutKeeps ==
    ASSUME NEW S, NEW s \in Seq(S), NEW x
    PROVE  /\ Without(s, x) \in Seq(S)
           /\ \A y : y # x /\ (\E i \in 1 .. Len(s) : s[i] = y) =>
                 \E j \in 1 .. Len(Without(s, x)) : Without(s, x)[j] = y
  <1> DEFINE kept == CHOOSE kept : Rebuilds(kept, s, x, Len(s))
             Good(n) == /\ kept[n] \in Seq(S)
                        /\ \A i \in 1 .. n : s[i] # x =>
                              \E j \in 1 .. Len(kept[n]) : kept[n][j] = s[i]
             Bad == {n \in 0 .. Len(s) : ~ Good(n)}
  <1>0. Len(s) \in Nat /\ \A i \in 1 .. Len(s) : s[i] \in S
    OBVIOUS
  <1>1. \E f : Rebuilds(f, s, x, Len(s))
    BY <1>0, RebuildExists
  <1>2. Rebuilds(kept, s, x, Len(s))
    BY <1>1
  <1>3. Without(s, x) = kept[Len(s)]
    BY DEF Without, Rebuilds
  <1> HIDE DEF kept
  <1>4. /\ kept[0] = <<>>
        /\ \A n \in 1 .. Len(s) :
              kept[n] = IF s[n] = x THEN kept[n - 1] ELSE Append(kept[n - 1], s[n])
    <2>1. \A n \in 0 .. Len(s) :
             kept[n] = IF n = 0 THEN <<>>
                       ELSE IF s[n] = x THEN kept[n - 1] ELSE Append(kept[n - 1], s[n])
      BY <1>2 DEF Rebuilds
    <2>2. 0 \in 0 .. Len(s) /\ \A n \in 1 .. Len(s) : n \in 0 .. Len(s) /\ n # 0
      BY <1>0
    <2> QED  BY <2>1, <2>2
  <1>5. Bad = {}
    <2> SUFFICES ASSUME Bad # {} PROVE FALSE
      OBVIOUS
    <2>1. PICK n \in Bad : \A y \in Bad : n <= y
      <3>1. Bad \in SUBSET Nat
        BY <1>0
      <3> HIDE DEF Bad
      <3> QED  BY <3>1, LeastNumber
    <2>2. n \in 0 .. Len(s) /\ ~ Good(n)
      OBVIOUS
    <2>3. n # 0
      <3>1. Good(0)
        <4>1. kept[0] \in Seq(S) /\ 1 .. 0 = {}
          BY <1>4
        <4> QED  BY <4>1
      <3> QED  BY <2>2, <3>1
    <2>4. n \in 1 .. Len(s) /\ n - 1 \in 0 .. Len(s) /\ n - 1 \notin Bad
      BY <1>0, <2>1, <2>2, <2>3
    <2>5. Good(n - 1)
      BY <2>4
    <2>6. CASE s[n] = x
      <3>1. kept[n] = kept[n - 1]
        BY <1>4, <2>4, <2>6
      <3>2. \A i \in 1 .. n : s[i] # x => i \in 1 .. (n - 1)
        BY <2>4, <2>6
      <3> QED  BY <2>2, <2>5, <3>1, <3>2
    <2>7. CASE s[n] # x
      <3>1. kept[n] = Append(kept[n - 1], s[n]) /\ kept[n - 1] \in Seq(S) /\ s[n] \in S
        BY <1>0, <1>4, <2>4, <2>5, <2>7
      <3>2. /\ kept[n] \in Seq(S) /\ Len(kept[n]) = Len(kept[n - 1]) + 1
            /\ \A j \in 1 .. Len(kept[n - 1]) : kept[n][j] = kept[n - 1][j]
            /\ kept[n][Len(kept[n - 1]) + 1] = s[n]
        BY <3>1, AppendProperties
      <3>3. Len(kept[n - 1]) \in Nat
        BY <3>1
      <3>4. ASSUME NEW i \in 1 .. n, s[i] # x
            PROVE  \E j \in 1 .. Len(kept[n]) : kept[n][j] = s[i]
        <4>1. CASE i = n
          <5>1. Len(kept[n - 1]) + 1 \in 1 .. Len(kept[n])
            BY <3>2, <3>3
          <5> QED  BY <3>2, <4>1, <5>1
        <4>2. CASE i # n
          <5>1. i \in 1 .. (n - 1)
            BY <2>4, <4>2
          <5>2. PICK j \in 1 .. Len(kept[n - 1]) : kept[n - 1][j] = s[i]
            BY <2>5, <3>4, <5>1
          <5>3. j \in 1 .. Len(kept[n]) /\ kept[n][j] = s[i]
            BY <3>2, <3>3, <5>2
          <5> QED  BY <5>3
        <4> QED  BY <4>1, <4>2
      <3> QED  BY <2>2, <3>2, <3>4
    <2> QED  BY <2>6, <2>7
  <1>6. Good(Len(s))
    BY <1>0, <1>5
  <1> QED  BY <1>0, <1>3, <1>6

-----------------------------------------------------------------------------
(***************************************************************************)
(* The index and the slots agree but for the key that remove has taken out *)
(* of the index, which stays locked until the slot is empty, too.          *)
(***************************************************************************)
Requests == [key : Keys, slot : Slots \cup {0}, touch : BOOLEAN]

CacheTypeOK ==
    /\ slots \in [Slots -> SUBSET [key : Keys, expired : BOOLEAN]]
    /\ \A i \in Slots : \A e, f \in slots[i] : e = f
    /\ index \in [Keys -> Slots \cup {0}]
    /\ lru \in Seq(Slots)
    /\ request \in [Threads -> Requests]

Adding(t) == pc[t] = "queue" /\ ~ request[t].touch

CacheLocks ==
    \A t \in Threads :
        pc[t] \in {"insert", "remove"} \/ Adding(t) => <<"index", "write">> \in held[t]

CachePlans ==
    \A t \in Threads :
        /\ pc[t] = "insert" =>
              /\ request[t].slot = index[request[t].key]
              /\ request[t].touch <=> request[t].slot # 0
        /\ pc[t] \in {"getSlot", "queue", "remove"} => request[t].slot # 0
        /\ pc[t] = "getSlot" => request[t].touch
        /\ pc[t] = "remove" => index[request[t].key] = 0
        /\ pc[t] \in {"clearIndex", "clearQueue"} => "clear" \in emptied

Filled(i, k) == \E e \in slots[i] : e.key = k
Leaving(i, k) == \E t \in Threads : pc[t] = "remove" /\ request[t].key = k /\ request[t].slot = i
Queueing(i) ==
    \/ \E j \in 1 .. Len(lru) : lru[j] = i
    \/ \E t \in Threads : Adding(t) /\ request[t].slot = i

CacheExact ==
    "clear" \notin emptied =>
        /\ \A i \in Slots, k \in Keys : Filled(i, k) <=> index[k] = i \/ Leaving(i, k)
        /\ \A i \in Slots : slots[i] # {} => Queueing(i)

CacheIInv == GuardsOK /\ CacheTypeOK /\ CacheLocks /\ CachePlans /\ CacheExact

CacheCall(t) == Get(t) \/ Insert(t) \/ RemoveKey(t) \/ ExpireOld(t) \/ ClearSlots(t) \/ CacheStep(t)

(* Every step of the cache moves one thread and takes or gives up its      *)
(* locks.                                                                  *)
LEMMA CacheMoves ==
    ASSUME GuardsOK, NEW t \in Threads, CacheCall(t)
    PROVE  Moves(t)
  <1> USE DEF Moves, GuardsOK, Goto, Locks
  <1>1. CASE Get(t)
    BY <1>1 DEF Get, CallCache
  <1>2. CASE Insert(t)
    BY <1>2 DEF Insert, CallCache
  <1>3. CASE RemoveKey(t)
    BY <1>3 DEF RemoveKey, CallCache
  <1>4. CASE ExpireOld(t)
    BY <1>4 DEF ExpireOld, CallCache
  <1>5. CASE ClearSlots(t)
    BY <1>5 DEF ClearSlots, CallCache
  <1>6. CASE GetSlot(t)
    <2>1. UNCHANGED held \/ Read(t, "slots")
      BY <1>6 DEF GetSlot
    <2>2. Goto(t, "getSlot", "queue") \/ Goto(t, "getSlot", "idle")
      BY <1>6 DEF GetSlot
    <2> QED  BY <2>1, <2>2
  <1>7. CASE InsertPut(t)
    <2>1. Goto(t, "insert", "queue") /\ Write(t, "slots")
      BY <1>7 DEF InsertPut
    <2> QED  BY <2>1
  <1>8. CASE EnterQueue(t)
    <2>1. Goto(t, "queue", "idle") /\ ReleaseAll(t)
      BY <1>8 DEF EnterQueue
    <2> QED  BY <2>1
  <1>9. CASE RemoveSlot(t)
    <2>1. Goto(t, "remove", "idle") /\ ReleaseAll(t)
      BY <1>9 DEF RemoveSlot
    <2> QED  BY <2>1
  <1>10. CASE ExpireEntries(t)
    <2>1. Goto(t, "expireOld", "idle") /\ ReleaseAll(t)
      BY <1>10 DEF ExpireEntries
    <2> QED  BY <2>1
  <1>11. CASE ClearIndex(t) \/ ClearQueue(t)
    <2>1. Goto(t, "clearIndex", "clearQueue") \/ Goto(t, "clearQueue", "idle")
      BY <1>11 DEF ClearIndex, ClearQueue
    <2>2. UNCHANGED held
      BY <1>11 DEF ClearIndex, ClearQueue
    <2> QED  BY <2>1, <2>2
  <1> QED  BY <1>1, <1>2, <1>3, <1>4, <1>5, <1>6, <1>7, <1>8, <1>9, <1>10, <1>11
           DEF CacheCall, CacheStep

(* Whoever asks for the index to write it finds nobody at work on it.      *)
LEMMA IndexFree ==
    ASSUME CacheIInv, CanWrite("index")
    PROVE  \A t \in Threads : pc[t] \notin {"insert", "remove"} /\ ~ Adding(t)
BY DEF CacheIInv, CacheLocks, CanWrite, CanRead

(* Whoever is at work on the index is alone.                               *)
LEMMA IndexAlone ==
    ASSUME CacheIInv, NEW t \in Threads, pc[t] \in {"insert", "remove"} \/ Adding(t)
    PROVE  \A u \in Threads \ {t} : pc[u] \notin {"insert", "remove"} /\ ~ Adding(u)
  <1>1. <<"index", "write">> \in held[t]
    BY DEF CacheIInv, CacheLocks
  <1>2. \A u \in Threads \ {t} : <<"index", "write">> \notin held[u]
    BY <1>1 DEF CacheIInv, GuardsOK, Locks
  <1> QED  BY <1>2 DEF CacheIInv, CacheLocks

(* Time passes.                                                            *)
LEMMA ExpireKeeps ==
    ASSUME CacheIInv, Expire
    PROVE  CacheIInv'
  <1>1. PICK i \in Slots : \E e \in slots[i] :
           slots' = [slots EXCEPT ![i] = {[e EXCEPT !.expired = TRUE]}]
    BY DEF Expire
  <1>2. PICK e \in slots[i] : slots' = [slots EXCEPT ![i] = {[e EXCEPT !.expired = TRUE]}]
    BY <1>1
  <1>3. UNCHANGED <<pc, held, index, lru, request, emptied>>
    BY DEF Expire
  <1>4. e \in [key : Keys, expired : BOOLEAN] /\ \A f \in slots[i] : f = e
    BY DEF CacheIInv, CacheTypeOK
  <1>5. [e EXCEPT !.expired = TRUE] = [key |-> e.key, expired |-> TRUE] /\ e.key \in Keys
    <2>1. e = [key |-> e.key, expired |-> e.expired] /\ e.key \in Keys
      BY <1>4
    <2>2. \A a, b, c : [[key |-> a, expired |-> b] EXCEPT !.expired = c]
                          = [key |-> a, expired |-> c]
      OBVIOUS
    <2>3. [[key |-> e.key, expired |-> e.expired] EXCEPT !.expired = TRUE]
             = [key |-> e.key, expired |-> TRUE]
      BY <2>2
    <2> QED  BY <2>1, <2>3
  <1>6. slots' = [slots EXCEPT ![i] = {[key |-> e.key, expired |-> TRUE]}]
    BY <1>2, <1>5
  <1>7. CacheTypeOK'
    BY <1>3, <1>5, <1>6 DEF CacheIInv, CacheTypeOK
  <1>8. /\ \A j \in Slots, k \in Keys : Filled(j, k)' <=> Filled(j, k)
        /\ \A j \in Slots : slots'[j] # {} => slots[j] # {}
    <2>1. slots \in [Slots -> SUBSET [key : Keys, expired : BOOLEAN]]
      BY DEF CacheIInv, CacheTypeOK
    <2>2. /\ slots'[i] = {[key |-> e.key, expired |-> TRUE]} /\ slots[i] # {}
          /\ \A j \in Slots : j # i => slots'[j] = slots[j]
      BY <1>6, <2>1
    <2>3. \A k \in Keys : Filled(i, k)' <=> Filled(i, k)
      BY <1>4, <2>2 DEF Filled
    <2>4. \A j \in Slots, k \in Keys : j # i => (Filled(j, k)' <=> Filled(j, k))
      BY <2>2 DEF Filled
    <2> QED  BY <2>2, <2>3, <2>4
  <1>9. GuardsOK' /\ CacheLocks' /\ CachePlans'
    BY <1>3 DEF CacheIInv, GuardsOK, CacheLocks, CachePlans, Adding
  <1>10. CacheExact'
    BY <1>3, <1>8 DEF CacheIInv, CacheExact, Leaving, Queueing, Adding
  <1> QED  BY <1>7, <1>9, <1>10 DEF CacheIInv

(* A thread that changes neither index nor slots nor the queue, and is not *)
(* at work on the index.                                                   *)
LEMMA CacheAside ==
    ASSUME CacheIInv, GuardsOK', NEW t \in Threads,
           UNCHANGED <<slots, index, lru>>, "clear" \in emptied' \/ "clear" \notin emptied,
           request' \in [Threads -> Requests],
           \A u \in Threads \ {t} :
              pc'[u] = pc[u] /\ request'[u] = request[u] /\ held'[u] = held[u],
           pc[t] \notin {"insert", "remove"}, ~ Adding(t),
           pc'[t] \notin {"insert", "remove"}, ~ Adding(t)',
           pc'[t] \in {"getSlot", "queue"} => request'[t].slot # 0,
           pc'[t] = "getSlot" => request'[t].touch,
           pc'[t] \notin {"clearIndex", "clearQueue"}
    PROVE  CacheIInv'
  <1>1. CacheTypeOK'
    BY DEF CacheIInv, CacheTypeOK
  <1>2. \A u \in Threads : Adding(u)' <=> Adding(u)
    BY DEF Adding
  <1>3. CacheLocks'
    BY <1>2 DEF CacheIInv, CacheLocks
  <1>4. CachePlans'
    BY DEF CacheIInv, CachePlans
  <1>5. \A i \in Slots, k \in Keys : /\ Leaving(i, k)' <=> Leaving(i, k)
                                     /\ Filled(i, k)' <=> Filled(i, k)
    BY DEF Leaving, Filled
  <1>6. \A i \in Slots : Queueing(i)' <=> Queueing(i)
    BY <1>2 DEF Queueing, Adding
  <1>7. CacheExact'
    BY <1>5, <1>6 DEF CacheIInv, CacheExact
  <1> QED  BY <1>1, <1>3, <1>4, <1>7 DEF CacheIInv

(* get and its look at the slot change no data.                            *)
LEMMA GetKeeps ==
    ASSUME CacheIInv, GuardsOK', NEW t \in Threads,
           Get(t) \/ GetSlot(t) \/ ExpireOld(t)
    PROVE  CacheIInv'
  <1>0. GuardsOK /\ request \in [Threads -> Requests] /\ index \in [Keys -> Slots \cup {0}]
    BY DEF CacheIInv, CacheTypeOK
  <1>1. CASE Get(t)
    <2>1. PICK k \in Keys : index[k] # 0 /\
             request' = [request EXCEPT ![t] = [key |-> k, slot |-> index[k], touch |-> TRUE]]
      BY <1>1 DEF Get
    <2>2. pc' = [pc EXCEPT ![t] = "getSlot"] /\ pc[t] = "idle"
      BY <1>1 DEF Get, CallCache, Goto
    <2>3. UNCHANGED <<held, slots, index, lru, emptied>>
      BY <1>1 DEF Get
    <2>4. request' \in [Threads -> Requests]
      BY <1>0, <2>1 DEF Requests
    <2>5. /\ pc'[t] = "getSlot" /\ request'[t].slot # 0 /\ request'[t].touch
          /\ \A u \in Threads \ {t} : pc'[u] = pc[u] /\ request'[u] = request[u]
      BY <1>0, <2>1, <2>2 DEF GuardsOK
    <2> QED  BY <2>2, <2>3, <2>4, <2>5, CacheAside DEF Adding
  <1>2. CASE GetSlot(t)
    <2>1. /\ pc[t] = "getSlot" /\ pc' \in {[pc EXCEPT ![t] = "queue"], [pc EXCEPT ![t] = "idle"]}
          /\ UNCHANGED <<slots, index, lru, request, emptied>>
      BY <1>2 DEF GetSlot, cacheVars, Goto
    <2>2. \A u \in Threads \ {t} : held[u] = held'[u]
      BY <1>0, <1>2 DEF GetSlot, Read, GuardsOK
    <2>3. request[t].slot # 0 /\ request[t].touch
      BY <2>1 DEF CacheIInv, CachePlans
    <2>4. pc'[t] \in {"queue", "idle"} /\ \A u \in Threads \ {t} : pc'[u] = pc[u]
      BY <1>0, <2>1 DEF GuardsOK
    <2> QED  BY <1>0, <2>1, <2>2, <2>3, <2>4, CacheAside DEF Adding
  <1>3. CASE ExpireOld(t)
    <2>1. /\ pc[t] = "idle" /\ pc' = [pc EXCEPT ![t] = "expireOld"]
          /\ UNCHANGED <<slots, index, lru, request>> /\ emptied' = emptied \cup {"expire"}
      BY <1>3 DEF ExpireOld, CallCache, Goto
    <2>2. \A u \in Threads \ {t} : held[u] = held'[u]
      BY <1>0, <1>3 DEF ExpireOld, Write, GuardsOK
    <2>4. pc'[t] = "expireOld" /\ \A u \in Threads \ {t} : pc'[u] = pc[u]
      BY <1>0, <2>1 DEF GuardsOK
    <2> QED  BY <1>0, <2>1, <2>2, <2>4, CacheAside DEF Adding
  <1> QED  BY <1>1, <1>2, <1>3

(* insert locks the index and notes what it has found there.               *)
LEMMA InsertKeeps ==
    ASSUME CacheIInv, GuardsOK', NEW t \in Threads, Insert(t)
    PROVE  CacheIInv'
  <1>0. GuardsOK /\ request \in [Threads -> Requests] /\ index \in [Keys -> Slots \cup {0}]
    BY DEF CacheIInv, CacheTypeOK
  <1>1. PICK k \in Keys : request' =
           [request EXCEPT ![t] = [key |-> k, slot |-> index[k], touch |-> index[k] # 0]]
    BY DEF Insert
  <1>2. /\ pc[t] = "idle" /\ pc' = [pc EXCEPT ![t] = "insert"]
        /\ Write(t, "index") /\ UNCHANGED <<slots, index, lru, emptied>>
    BY DEF Insert, CallCache, Goto
  <1>3. \A u \in Threads : pc[u] \notin {"insert", "remove"} /\ ~ Adding(u)
    BY <1>2, IndexFree DEF Write
  <1>4. /\ pc'[t] = "insert" /\ request'[t].slot = index[k] /\ request'[t].key = k
        /\ request'[t].touch <=> index[k] # 0
        /\ <<"index", "write">> \in held'[t]
        /\ \A u \in Threads \ {t} : pc'[u] = pc[u] /\ request'[u] = request[u] /\ held'[u] = held[u]
    BY <1>0, <1>1, <1>2 DEF GuardsOK, Write
  <1>5. request' \in [Threads -> Requests]
    BY <1>0, <1>1 DEF Requests
  <1>6. CacheTypeOK'
    BY <1>2, <1>5 DEF CacheIInv, CacheTypeOK
  <1>7. \A u \in Threads : ~ Adding(u)'
    BY <1>3, <1>4 DEF Adding
  <1>8. CacheLocks'
    BY <1>3, <1>4, <1>7 DEF CacheLocks
  <1>9. CachePlans'
    BY <1>2, <1>3, <1>4 DEF CacheIInv, CachePlans
  <1>10. CacheExact'
    <2>1. \A i \in Slots, j \in Keys : ~ Leaving(i, j) /\ ~ Leaving(i, j)' /\ (Filled(i, j)' <=> Filled(i, j))
      BY <1>2, <1>3, <1>4 DEF Leaving, Filled
    <2>2. \A i \in Slots : Queueing(i) => Queueing(i)'
      BY <1>2, <1>3 DEF Queueing
    <2> QED  BY <1>2, <2>1, <2>2 DEF CacheIInv, CacheExact
  <1> QED  BY <1>6, <1>8, <1>9, <1>10 DEF CacheIInv

(* find_or_evict_slot takes a slot in use only if all are.                 *)
LEMMA FirstFree ==
    ASSUME NEW i \in Slots, FreeSlot(i), slots[i] # {}
    PROVE  \A j \in Slots : slots[j] # {}
  <1> DEFINE free == {j \in Slots : slots[j] = {}}
  <1> SUFFICES ASSUME free # {} PROVE FALSE
    OBVIOUS
  <1>1. i = Min(free)
    BY DEF FreeSlot
  <1>2. free \in SUBSET Nat
    BY DEF Slots
  <1>3. \E m \in free : \A y \in free : m <= y
    <2> HIDE DEF free
    <2> QED  BY <1>2, LeastNumber
  <1>4. Min(free) \in free
    <2> HIDE DEF free
    <2> QED  BY <1>3 DEF Min
  <1> QED  BY <1>1, <1>4

(* insert puts an entry in its slot, and the key it displaces leaves the   *)
(* index with it.                                                          *)
LEMMA InsertPutKeeps ==
    ASSUME CacheIInv, GuardsOK', NEW t \in Threads, InsertPut(t)
    PROVE  CacheIInv'
  <1> DEFINE k == request[t].key
             touch == request[t].touch
             evicts == ~ touch /\ lru # <<>> /\ \A j \in Slots : slots[j] # {}
  <1>0. /\ GuardsOK /\ request \in [Threads -> Requests] /\ index \in [Keys -> Slots \cup {0}]
        /\ slots \in [Slots -> SUBSET [key : Keys, expired : BOOLEAN]] /\ lru \in Seq(Slots)
        /\ \A i \in Slots : \A e, f \in slots[i] : e = f
    BY DEF CacheIInv, CacheTypeOK
  <1>1. PICK i \in Slots :
           /\ IF touch THEN i = request[t].slot ELSE FreeSlot(i)
           /\ slots' = [slots EXCEPT ![i] = {Entry(k)}]
           /\ index' = [x \in Keys |-> IF x = k THEN i
                           ELSE IF evicts /\ (\E e \in slots[i] : e.key = x) THEN 0 ELSE index[x]]
           /\ request' = [request EXCEPT ![t].slot = i]
    BY DEF InsertPut
  <1>2. /\ pc[t] = "insert" /\ pc' = [pc EXCEPT ![t] = "queue"]
        /\ Write(t, "slots") /\ lru' = (IF evicts THEN Tail(lru) ELSE lru) /\ emptied' = emptied
    BY DEF InsertPut, Goto
  <1> HIDE DEF k, touch, evicts
  <1>3. /\ k \in Keys /\ touch \in BOOLEAN
        /\ request[t] = [key |-> k, slot |-> request[t].slot, touch |-> touch]
        /\ request[t].slot = index[k] /\ (touch <=> index[k] # 0)
    BY <1>0, <1>2 DEF CacheIInv, CachePlans, Requests, k, touch
  <1>4. \A u \in Threads \ {t} : pc[u] \notin {"insert", "remove"} /\ ~ Adding(u)
    BY <1>2, IndexAlone
  <1>5. request' = [request EXCEPT ![t] = [key |-> k, slot |-> i, touch |-> touch]]
    <2>1. \A a, b, c : [[key |-> a, slot |-> b, touch |-> c] EXCEPT !.slot = i]
                          = [key |-> a, slot |-> i, touch |-> c]
      OBVIOUS
    <2>2. [request[t] EXCEPT !.slot = i] = [key |-> k, slot |-> i, touch |-> touch]
      BY <1>3, <2>1
    <2>3. request' = [request EXCEPT ![t] = [request[t] EXCEPT !.slot = i]]
      BY <1>1
    <2> QED  BY <2>2, <2>3
  <1>6. /\ pc'[t] = "queue" /\ request'[t].slot = i /\ (request'[t].touch <=> touch)
        /\ held[t] \subseteq held'[t]
        /\ \A u \in Threads \ {t} : pc'[u] = pc[u] /\ request'[u] = request[u] /\ held'[u] = held[u]
    BY <1>0, <1>2, <1>5 DEF GuardsOK, Write
  <1>7. ~ Adding(t) /\ (Adding(t)' <=> ~ touch) /\ \A u \in Threads \ {t} : ~ Adding(u)'
    BY <1>2, <1>4, <1>6 DEF Adding
  <1>8. CacheTypeOK'
    <2>1. request' \in [Threads -> Requests]
      BY <1>0, <1>3, <1>5 DEF Requests
    <2>2. index' \in [Keys -> Slots \cup {0}]
      BY <1>0, <1>1
    <2>3. Entry(k) \in [key : Keys, expired : BOOLEAN]
      BY <1>3 DEF Entry
    <2>4. slots' \in [Slots -> SUBSET [key : Keys, expired : BOOLEAN]]
      BY <1>0, <1>1, <2>3
    <2>5. \A j \in Slots : \A e, f \in slots'[j] : e = f
      BY <1>0, <1>1
    <2>6. lru' \in Seq(Slots)
      <3>1. evicts => Tail(lru) \in Seq(Slots)
        BY <1>0, HeadTailProperties DEF evicts
      <3> QED  BY <1>0, <1>2, <3>1
    <2> QED  BY <2>1, <2>2, <2>4, <2>5, <2>6 DEF CacheTypeOK
  <1>9. CacheLocks'
    <2>1. <<"index", "write">> \in held'[t]
      BY <1>2, <1>6 DEF CacheIInv, CacheLocks
    <2> QED  BY <1>4, <1>6, <1>7, <2>1 DEF CacheLocks
  <1>10. CachePlans'
    <2>1. i # 0
      BY CacheAssumption DEF Slots
    <2> QED  BY <1>2, <1>4, <1>6, <2>1 DEF CacheIInv, CachePlans
  <1>11. ASSUME "clear" \notin emptied
         PROVE  /\ \A j \in Slots, x \in Keys : Filled(j, x) <=> index[x] = j
                /\ \A j \in Slots : slots[j] # {} => \E n \in 1 .. Len(lru) : lru[n] = j
    <2>1. \A j \in Slots, x \in Keys : ~ Leaving(j, x)
      BY <1>2, <1>4 DEF Leaving
    <2>2. \A j \in Slots : ~ \E u \in Threads : Adding(u) /\ request[u].slot = j
      BY <1>4, <1>7
    <2> QED  BY <1>11, <2>1, <2>2 DEF CacheIInv, CacheExact, Queueing
  <1>12. ASSUME "clear" \notin emptied, NEW x \in Keys, x # k, Filled(i, x)
         PROVE  evicts
    <2>1. slots[i] # {}
      BY <1>12 DEF Filled
    <2>2. ~ touch
      <3>1. touch => Filled(i, k)
        BY <1>1, <1>3, <1>11, <1>12
      <3> QED  BY <1>0, <1>12, <3>1 DEF Filled
    <2>3. FreeSlot(i)
      BY <1>1, <2>2
    <2>4. \A j \in Slots : slots[j] # {}
      BY <2>1, <2>3, FirstFree
    <2>5. lru # <<>>
      <3>1. 1 \in Slots
        BY CacheAssumption DEF Slots
      <3>2. \E n \in 1 .. Len(lru) : lru[n] = 1
        BY <1>11, <1>12, <2>4, <3>1
      <3> QED  BY <3>2
    <2> QED  BY <2>2, <2>4, <2>5 DEF evicts
  <1>13. CacheExact'
    <2> SUFFICES ASSUME "clear" \notin emptied PROVE CacheExact'
      BY <1>2 DEF CacheExact
    <2>1. \A j \in Slots, x \in Keys : ~ Leaving(j, x)'
      BY <1>4, <1>6 DEF Leaving
    <2>2. \A j \in Slots, x \in Keys : Filled(j, x)' <=> IF j = i THEN x = k ELSE Filled(j, x)
      <3>1. /\ slots'[i] = {Entry(k)} /\ Entry(k).key = k
            /\ \A j \in Slots : j # i => slots'[j] = slots[j]
        BY <1>0, <1>1 DEF Entry
      <3> QED  BY <3>1 DEF Filled
    <2>3. \A x \in Keys : index'[x] =
             IF x = k THEN i ELSE IF evicts /\ Filled(i, x) THEN 0 ELSE index[x]
      BY <1>1 DEF Filled
    <2>4. 0 \notin Slots
      BY CacheAssumption DEF Slots
    <2>5. ASSUME NEW j \in Slots, NEW x \in Keys
          PROVE  Filled(j, x)' <=> index'[x] = j
      <3>1. CASE x = k
        <4>1. index[k] = i \/ index[k] = 0
          BY <1>1, <1>3
        <4>2. Filled(j, k) <=> index[k] = j
          BY <1>3, <1>11
        <4> QED  BY <2>2, <2>3, <2>4, <3>1, <4>1, <4>2
      <3>2. CASE x # k
        <4>1. (Filled(j, x) <=> index[x] = j) /\ (Filled(i, x) <=> index[x] = i)
          BY <1>11
        <4>2. Filled(i, x) => evicts
          BY <1>12, <3>2
        <4> QED  BY <2>2, <2>3, <2>4, <3>2, <4>1, <4>2
      <3> QED  BY <3>1, <3>2
    <2>6. ASSUME NEW j \in Slots, slots'[j] # {}
          PROVE  Queueing(j)'
      <3>1. CASE j = i /\ ~ touch
        BY <1>6, <1>7, <3>1 DEF Queueing
      <3>2. CASE j = i /\ touch
        <4>1. Filled(i, k)
          BY <1>1, <1>3, <1>11, <3>2
        <4>2. slots[i] # {} /\ lru' = lru
          BY <1>2, <3>2, <4>1 DEF Filled, evicts
        <4> QED  BY <1>11, <3>2, <4>2 DEF Queueing
      <3>3. CASE j # i
        <4>1. slots[j] # {}
          BY <1>0, <1>1, <2>6, <3>3
        <4>2. PICK n \in 1 .. Len(lru) : lru[n] = j
          BY <1>11, <4>1
        <4>3. CASE evicts
          <5>1. /\ Tail(lru) \in Seq(Slots) /\ Len(Tail(lru)) = Len(lru) - 1 /\ Head(lru) = lru[1]
                /\ \A m \in 1 .. (Len(lru) - 1) : Tail(lru)[m] = lru[m + 1]
            BY <1>0, <4>3, HeadTailProperties DEF evicts
          <5>2. i = Head(lru)
            BY <1>1, <4>3 DEF evicts, FreeSlot
          <5>3. n - 1 \in 1 .. (Len(lru) - 1) /\ Len(lru) \in Nat
            BY <1>0, <3>3, <4>2, <5>1, <5>2
          <5>4. Tail(lru)[n - 1] = j
            BY <4>2, <5>1, <5>3
          <5> QED  BY <1>2, <4>3, <5>1, <5>3, <5>4 DEF Queueing
        <4>4. CASE ~ evicts
          BY <1>2, <4>2, <4>4 DEF Queueing
        <4> QED  BY <4>3, <4>4
      <3> QED  BY <3>1, <3>2, <3>3
    <2> QED  BY <2>1, <2>5, <2>6 DEF CacheExact
  <1> QED  BY <1>8, <1>9, <1>10, <1>13 DEF CacheIInv

(* EnterQueue: the slot goes to the end of the queue.                      *)
LEMMA EnterQueueKeeps ==
    ASSUME CacheIInv, GuardsOK', NEW t \in Threads, EnterQueue(t)
    PROVE  CacheIInv'
  <1> DEFINE slot == request[t].slot
             rest == IF request[t].touch THEN Without(lru, slot) ELSE lru
  <1>0. /\ GuardsOK /\ request \in [Threads -> Requests] /\ lru \in Seq(Slots)
        /\ index \in [Keys -> Slots \cup {0}]
    BY DEF CacheIInv, CacheTypeOK
  <1>1. /\ pc[t] = "queue" /\ pc' = [pc EXCEPT ![t] = "idle"] /\ ReleaseAll(t)
        /\ request' = [request EXCEPT ![t] = NoRequest] /\ UNCHANGED <<slots, index, emptied>>
        /\ lru' = Append(rest, slot)
    BY DEF EnterQueue, Goto, Queued
  <1>2. /\ pc'[t] = "idle"
        /\ \A u \in Threads \ {t} : pc'[u] = pc[u] /\ request'[u] = request[u] /\ held'[u] = held[u]
    BY <1>0, <1>1 DEF GuardsOK, ReleaseAll
  <1>3. slot \in Slots
    BY <1>0, <1>1 DEF CacheIInv, CachePlans, Requests
  <1>4. /\ rest \in Seq(Slots)
        /\ \A j : j # slot /\ (\E n \in 1 .. Len(lru) : lru[n] = j) =>
              \E n \in 1 .. Len(rest) : rest[n] = j
    <2>1. /\ Without(lru, slot) \in Seq(Slots)
          /\ \A j : j # slot /\ (\E n \in 1 .. Len(lru) : lru[n] = j) =>
                \E n \in 1 .. Len(Without(lru, slot)) : Without(lru, slot)[n] = j
      <3>1. lru \in Seq(Slots)
        BY <1>0
      <3> HIDE DEF slot
      <3>2. /\ Without(lru, slot) \in Seq(Slots)
            /\ \A y : y # slot /\ (\E i \in 1 .. Len(lru) : lru[i] = y) =>
                  \E j \in 1 .. Len(Without(lru, slot)) : Without(lru, slot)[j] = y
        BY <3>1, WithoutKeeps
      <3> QED  BY <3>2
    <2>2. rest = Without(lru, slot) \/ rest = lru
      OBVIOUS
    <2> HIDE DEF slot, rest
    <2>3. CASE rest = Without(lru, slot)
      BY <2>1, <2>3
    <2>4. CASE rest = lru
      BY <1>0, <2>4
    <2> QED  BY <2>2, <2>3, <2>4
  <1> HIDE DEF slot, rest
  <1>5. /\ lru' \in Seq(Slots) /\ Len(lru') = Len(rest) + 1 /\ Len(rest) \in Nat
        /\ lru'[Len(rest) + 1] = slot /\ \A n \in 1 .. Len(rest) : lru'[n] = rest[n]
    BY <1>1, <1>3, <1>4, AppendProperties
  <1>6. \A j : j = slot \/ (\E n \in 1 .. Len(lru) : lru[n] = j) =>
           \E n \in 1 .. Len(lru') : lru'[n] = j
    <2>1. Len(rest) + 1 \in 1 .. Len(lru') /\ \A n \in 1 .. Len(rest) : n \in 1 .. Len(lru')
      BY <1>5
    <2> QED  BY <1>4, <1>5, <2>1
  <1>7. CacheTypeOK'
    <2>1. NoRequest \in Requests
      BY CacheAssumption DEF NoRequest, Requests
    <2>2. request' \in [Threads -> Requests]
      BY <1>0, <1>1, <2>1
    <2> QED  BY <1>1, <1>5, <2>2 DEF CacheIInv, CacheTypeOK
  <1>8. ~ Adding(t)' /\ \A u \in Threads \ {t} : Adding(u)' <=> Adding(u)
    BY <1>2 DEF Adding
  <1>9. CacheLocks' /\ CachePlans'
    BY <1>1, <1>2, <1>8 DEF CacheIInv, CacheLocks, CachePlans
  <1>10. \A i \in Slots, k \in Keys : /\ Leaving(i, k)' <=> Leaving(i, k)
                                      /\ Filled(i, k)' <=> Filled(i, k)
    BY <1>1, <1>2 DEF Leaving, Filled
  <1>11. ASSUME NEW i \in Slots, Queueing(i)
         PROVE  Queueing(i)'
    <2>1. CASE \E n \in 1 .. Len(lru) : lru[n] = i
      BY <1>6, <2>1 DEF Queueing
    <2>2. CASE \E u \in Threads : Adding(u) /\ request[u].slot = i
      <3>1. PICK u \in Threads : Adding(u) /\ request[u].slot = i
        BY <2>2
      <3>2. CASE u = t
        BY <1>6, <3>1, <3>2 DEF Queueing, slot
      <3>3. CASE u # t
        BY <1>2, <1>8, <3>1, <3>3 DEF Queueing
      <3> QED  BY <3>2, <3>3
    <2> QED  BY <1>11, <2>1, <2>2 DEF Queueing
  <1>12. CacheExact'
    BY <1>1, <1>10, <1>11 DEF CacheIInv, CacheExact
  <1> QED  BY <1>7, <1>9, <1>12 DEF CacheIInv

(* remove takes the key out of the index, and has the index until the slot *)
(* is empty.                                                               *)
LEMMA RemoveKeyKeeps ==
    ASSUME CacheIInv, GuardsOK', NEW t \in Threads, RemoveKey(t)
    PROVE  CacheIInv'
  <1>0. GuardsOK /\ request \in [Threads -> Requests] /\ index \in [Keys -> Slots \cup {0}]
    BY DEF CacheIInv, CacheTypeOK
  <1>1. PICK k \in Keys :
           /\ index[k] # 0
           /\ index' = [index EXCEPT ![k] = 0]
           /\ request' = [request EXCEPT ![t] = [key |-> k, slot |-> index[k], touch |-> FALSE]]
    BY DEF RemoveKey
  <1>2. /\ pc[t] = "idle" /\ pc' = [pc EXCEPT ![t] = "remove"] /\ Write(t, "index")
        /\ UNCHANGED <<slots, lru>> /\ emptied' = emptied \cup {"remove"}
    BY DEF RemoveKey, CallCache, Goto
  <1>3. \A u \in Threads : pc[u] \notin {"insert", "remove"} /\ ~ Adding(u)
    BY <1>2, IndexFree DEF Write
  <1>4. /\ pc'[t] = "remove" /\ request'[t].slot = index[k] /\ request'[t].key = k
        /\ <<"index", "write">> \in held'[t]
        /\ \A u \in Threads \ {t} : pc'[u] = pc[u] /\ request'[u] = request[u] /\ held'[u] = held[u]
    BY <1>0, <1>1, <1>2 DEF GuardsOK, Write
  <1>5. request' \in [Threads -> Requests] /\ index' \in [Keys -> Slots \cup {0}]
    BY <1>0, <1>1 DEF Requests
  <1>6. CacheTypeOK'
    BY <1>2, <1>5 DEF CacheIInv, CacheTypeOK
  <1>7. \A u \in Threads : ~ Adding(u)'
    BY <1>3, <1>4 DEF Adding
  <1>8. CacheLocks'
    BY <1>3, <1>4, <1>7 DEF CacheLocks
  <1>9. CachePlans'
    BY <1>0, <1>1, <1>2, <1>3, <1>4 DEF CacheIInv, CachePlans
  <1>10. CacheExact'
    <2>1. \A i \in Slots, x \in Keys :
             ~ Leaving(i, x) /\ (Leaving(i, x)' <=> x = k /\ i = index[k]) /\ (Filled(i, x)' <=> Filled(i, x))
      BY <1>2, <1>3, <1>4 DEF Leaving, Filled
    <2>2. \A i \in Slots : Queueing(i) => Queueing(i)'
      BY <1>2, <1>3 DEF Queueing
    <2>3. \A x \in Keys : index'[x] = IF x = k THEN 0 ELSE index[x]
      BY <1>0, <1>1
    <2>4. 0 \notin Slots
      BY CacheAssumption DEF Slots
    <2> QED  BY <1>2, <2>1, <2>2, <2>3, <2>4 DEF CacheIInv, CacheExact
  <1> QED  BY <1>6, <1>8, <1>9, <1>10 DEF CacheIInv

(* remove empties the slot of the key that it took out.                    *)
LEMMA RemoveSlotKeeps ==
    ASSUME CacheIInv, GuardsOK', NEW t \in Threads, RemoveSlot(t)
    PROVE  CacheIInv'
  <1> DEFINE k == request[t].key
             slot == request[t].slot
  <1>0. /\ GuardsOK /\ request \in [Threads -> Requests] /\ index \in [Keys -> Slots \cup {0}]
        /\ slots \in [Slots -> SUBSET [key : Keys, expired : BOOLEAN]]
        /\ \A i \in Slots : \A e, f \in slots[i] : e = f
    BY DEF CacheIInv, CacheTypeOK
  <1>1. /\ pc[t] = "remove" /\ pc' = [pc EXCEPT ![t] = "idle"] /\ ReleaseAll(t)
        /\ request' = [request EXCEPT ![t] = NoRequest] /\ UNCHANGED <<index, lru, emptied>>
        /\ slots' = [slots EXCEPT ![slot] = {}]
    BY DEF RemoveSlot, Goto
  <1>2. /\ pc'[t] = "idle"
        /\ \A u \in Threads \ {t} : pc'[u] = pc[u] /\ request'[u] = request[u] /\ held'[u] = held[u]
    BY <1>0, <1>1 DEF GuardsOK, ReleaseAll
  <1>3. k \in Keys /\ slot \in Slots /\ index[k] = 0
    BY <1>0, <1>1 DEF CacheIInv, CachePlans, Requests
  <1>4. \A u \in Threads \ {t} : pc[u] \notin {"insert", "remove"} /\ ~ Adding(u)
    BY <1>1, IndexAlone
  <1>5. CacheTypeOK'
    <2>1. NoRequest \in Requests
      BY CacheAssumption DEF NoRequest, Requests
    <2>2. request' \in [Threads -> Requests]
      BY <1>0, <1>1, <2>1
    <2>3. slots' \in [Slots -> SUBSET [key : Keys, expired : BOOLEAN]]
      BY <1>0, <1>1
    <2>4. \A i \in Slots : \A e, f \in slots'[i] : e = f
      BY <1>0, <1>1
    <2> QED  BY <1>1, <2>2, <2>3, <2>4 DEF CacheIInv, CacheTypeOK
  <1>6. \A u \in Threads : ~ Adding(u) /\ ~ Adding(u)'
    BY <1>1, <1>2, <1>4 DEF Adding
  <1>7. CacheLocks' /\ CachePlans'
    BY <1>1, <1>2, <1>6 DEF CacheIInv, CacheLocks, CachePlans
  <1>8. CacheExact'
    <2>1. \A i \in Slots, x \in Keys : (Leaving(i, x) <=> x = k /\ i = slot) /\ ~ Leaving(i, x)'
      BY <1>1, <1>2, <1>4 DEF Leaving
    <2>2. /\ slots'[slot] = {} /\ \A i \in Slots : i # slot => slots'[i] = slots[i]
      BY <1>0, <1>1, <1>3
    <2>3. \A i \in Slots, x \in Keys : Filled(i, x)' <=> i # slot /\ Filled(i, x)
      BY <2>2 DEF Filled
    <2>4. \A i \in Slots : Queueing(i) => Queueing(i)'
      BY <1>1, <1>6 DEF Queueing
    <2> SUFFICES ASSUME "clear" \notin emptied PROVE CacheExact'
      BY <1>1 DEF CacheExact
    <2>5. \A i \in Slots, x \in Keys : Filled(i, x) <=> index[x] = i \/ Leaving(i, x)
      BY DEF CacheIInv, CacheExact
    <2>6. \A x \in Keys : Filled(slot, x) => x = k
      <3>1. Filled(slot, k)
        BY <1>3, <2>1, <2>5
      <3> QED  BY <1>0, <1>3, <3>1 DEF Filled
    <2>7. \A i \in Slots, x \in Keys : Filled(i, x)' <=> index[x] = i
      <3> SUFFICES ASSUME NEW i \in Slots, NEW x \in Keys
                   PROVE  Filled(i, x)' <=> index[x] = i
        OBVIOUS
      <3>1. CASE i = slot
        <4>1. 0 \notin Slots
          BY CacheAssumption DEF Slots
        <4>2. index[x] # slot
          BY <1>3, <2>5, <2>6, <4>1
        <4> QED  BY <2>3, <3>1, <4>2
      <3>2. CASE i # slot
        BY <2>1, <2>3, <2>5, <3>2
      <3> QED  BY <3>1, <3>2
    <2>8. \A i \in Slots : slots'[i] # {} => Queueing(i)'
      BY <2>2, <2>4 DEF CacheIInv, CacheExact
    <2> QED  BY <1>1, <2>1, <2>7, <2>8 DEF CacheExact
  <1> QED  BY <1>5, <1>7, <1>8 DEF CacheIInv

(* expire_old empties slots and takes their keys out of the index at once. *)
LEMMA ExpireEntriesKeeps ==
    ASSUME CacheIInv, GuardsOK', NEW t \in Threads, ExpireEntries(t)
    PROVE  CacheIInv'
  <1>0. /\ GuardsOK /\ request \in [Threads -> Requests] /\ index \in [Keys -> Slots \cup {0}]
        /\ slots \in [Slots -> SUBSET [key : Keys, expired : BOOLEAN]]
        /\ \A i \in Slots : \A e, f \in slots[i] : e = f
    BY DEF CacheIInv, CacheTypeOK
  <1>1. PICK gone \in SUBSET {i \in Slots : slots[i] # {}} :
           /\ slots' = [i \in Slots |-> IF i \in gone THEN {} ELSE slots[i]]
           /\ index' = Unindexed(gone)
    BY DEF ExpireEntries
  <1>2. /\ pc[t] = "expireOld" /\ pc' = [pc EXCEPT ![t] = "idle"] /\ ReleaseAll(t)
        /\ CanWrite("index") /\ UNCHANGED <<lru, request, emptied>>
    BY DEF ExpireEntries, Goto
  <1>3. \A u \in Threads : pc[u] \notin {"insert", "remove"} /\ ~ Adding(u)
    BY <1>2, IndexFree
  <1>4. pc'[t] = "idle" /\ \A u \in Threads \ {t} : pc'[u] = pc[u] /\ held'[u] = held[u]
    BY <1>0, <1>2 DEF GuardsOK, ReleaseAll
  <1>5. \A x \in Keys : index'[x] = IF \E i \in gone : Filled(i, x) THEN 0 ELSE index[x]
    BY <1>1 DEF Unindexed, Filled
  <1>6. CacheTypeOK'
    <2>1. index' \in [Keys -> Slots \cup {0}]
      BY <1>0, <1>1 DEF Unindexed
    <2>2. slots' \in [Slots -> SUBSET [key : Keys, expired : BOOLEAN]]
      BY <1>0, <1>1
    <2>3. \A i \in Slots : \A e, f \in slots'[i] : e = f
      BY <1>0, <1>1
    <2> QED  BY <1>2, <2>1, <2>2, <2>3 DEF CacheIInv, CacheTypeOK
  <1>7. \A u \in Threads : pc'[u] \notin {"insert", "remove"} /\ ~ Adding(u)'
    BY <1>2, <1>3, <1>4 DEF Adding
  <1>8. CacheLocks' /\ CachePlans'
    BY <1>2, <1>4, <1>7 DEF CacheIInv, CacheLocks, CachePlans
  <1>9. CacheExact'
    <2>1. \A i \in Slots, x \in Keys : ~ Leaving(i, x) /\ ~ Leaving(i, x)'
      BY <1>3, <1>7 DEF Leaving
    <2>2. \A i \in Slots : slots'[i] = IF i \in gone THEN {} ELSE slots[i]
      BY <1>1
    <2>3. \A i \in Slots, x \in Keys : Filled(i, x)' <=> i \notin gone /\ Filled(i, x)
      BY <2>2 DEF Filled
    <2>4. \A i \in Slots : Queueing(i) => Queueing(i)'
      BY <1>2, <1>3 DEF Queueing
    <2> SUFFICES ASSUME "clear" \notin emptied PROVE CacheExact'
      BY <1>2 DEF CacheExact
    <2>5. \A i \in Slots, x \in Keys : Filled(i, x) <=> index[x] = i
      BY <2>1 DEF CacheIInv, CacheExact
    <2>6. 0 \notin Slots
      BY CacheAssumption DEF Slots
    <2>7. \A i \in Slots, x \in Keys : Filled(i, x)' <=> index'[x] = i
      BY <1>1, <1>5, <2>3, <2>5, <2>6
    <2>8. \A i \in Slots : slots'[i] # {} => Queueing(i)'
      BY <2>2, <2>4 DEF CacheIInv, CacheExact
    <2> QED  BY <2>1, <2>7, <2>8 DEF CacheExact
  <1> QED  BY <1>6, <1>8, <1>9 DEF CacheIInv

(* Once clear is called, nothing is claimed of the contents any more.      *)
LEMMA ClearKeeps ==
    ASSUME CacheIInv, GuardsOK', NEW t \in Threads,
           ClearSlots(t) \/ ClearIndex(t) \/ ClearQueue(t)
    PROVE  CacheIInv'
  <1>0. GuardsOK
    BY DEF CacheIInv
  <1>1. /\ pc[t] \in {"idle", "clearIndex", "clearQueue"}
        /\ pc' \in {[pc EXCEPT ![t] = p] : p \in {"idle", "clearIndex", "clearQueue"}}
        /\ UNCHANGED <<held, request>>
    BY DEF ClearSlots, ClearIndex, ClearQueue, CallCache, Goto
  <1>2. pc'[t] \in {"idle", "clearIndex", "clearQueue"} /\ \A u \in Threads \ {t} : pc'[u] = pc[u]
    BY <1>0, <1>1 DEF GuardsOK
  <1>3. "clear" \in emptied' /\ emptied \subseteq emptied'
    BY DEF ClearSlots, ClearIndex, ClearQueue, Goto, CacheIInv, CachePlans
  <1>4. CacheTypeOK'
    <2>1. CASE ClearSlots(t)
      BY <1>1, <2>1 DEF ClearSlots, CacheIInv, CacheTypeOK
    <2>2. CASE ClearIndex(t)
      BY <1>1, <2>2 DEF ClearIndex, CacheIInv, CacheTypeOK
    <2>3. CASE ClearQueue(t)
      <3>1. lru' \in Seq(Slots) /\ UNCHANGED <<slots, index>>
        BY <2>3 DEF ClearQueue
      <3> QED  BY <1>1, <3>1 DEF CacheIInv, CacheTypeOK
    <2> QED  BY <2>1, <2>2, <2>3
  <1>5. \A u \in Threads : (Adding(u)' <=> Adding(u)) /\ (u # t => pc'[u] = pc[u])
    BY <1>1, <1>2 DEF Adding
  <1>6. CacheLocks'
    BY <1>1, <1>2, <1>5 DEF CacheIInv, CacheLocks
  <1>7. CachePlans'
    <2>1. UNCHANGED index \/ \A u \in Threads : pc[u] \notin {"insert", "remove"}
      BY IndexFree DEF ClearSlots, ClearIndex, ClearQueue
    <2> QED  BY <1>1, <1>2, <1>3, <2>1 DEF CacheIInv, CachePlans
  <1>8. CacheExact'
    BY <1>3 DEF CacheExact
  <1> QED  BY <1>4, <1>6, <1>7, <1>8 DEF CacheIInv

(* Any step of the cache keeps the invariant.                              *)
LEMMA CacheKept ==
    ASSUME CacheIInv, CacheNext
    PROVE  CacheIInv'
  <1>1. CASE Expire
    BY <1>1, ExpireKeeps
  <1>2. ASSUME NEW t \in Threads, CacheCall(t)
        PROVE  CacheIInv'
    <2>1. GuardsOK'
      BY <1>2, CacheMoves, GuardsStep DEF CacheIInv
    <2> QED
      BY <1>2, <2>1, GetKeeps, InsertKeeps, InsertPutKeeps, EnterQueueKeeps, RemoveKeyKeeps,
         RemoveSlotKeeps, ExpireEntriesKeeps, ClearKeeps DEF CacheCall, CacheStep
  <1> QED  BY <1>1, <1>2 DEF CacheNext, CacheCall

(* When nobody is calling, nothing is being removed.                       *)
LEMMA CacheAgrees ==
    ASSUME CacheIInv
    PROVE  IndexIsExact
  <1>1. Quiet => \A i \in Slots, k \in Keys : ~ Leaving(i, k)
    BY DEF Quiet, Idle, Leaving
  <1>2. Quiet /\ "clear" \notin emptied =>
           \A k \in Keys, i \in Slots : index[k] = i <=> Filled(i, k)
    BY <1>1 DEF CacheIInv, CacheExact
  <1> QED  BY <1>2 DEF IndexIsExact, Filled

-----------------------------------------------------------------------------
(***************************************************************************)
(* The order of use.  As long as nothing was removed, the queue has the    *)
(* slots of the keys in the order in which they were used; and whoever is  *)
(* about to enter it keeps the slots locked.                               *)
(***************************************************************************)
(* Of distinct elements, the one at place p is left out, and the others    *)
(* move up; a place past the end stands for none.                          *)
LEMMA WithoutIs ==
    ASSUME NEW S, NEW s \in Seq(S), NEW x, NEW p \in 1 .. (Len(s) + 1),
           \A j \in 1 .. Len(s) : s[j] = x <=> j = p
    PROVE  /\ Without(s, x) \in Seq(S)
           /\ p = Len(s) + 1 => Len(Without(s, x)) = Len(s)
           /\ p # Len(s) + 1 => Len(Without(s, x)) = Len(s) - 1
           /\ \A j \in 1 .. Len(Without(s, x)) :
                 Without(s, x)[j] = IF j < p THEN s[j] ELSE s[j + 1]
  <1> DEFINE kept == CHOOSE kept : Rebuilds(kept, s, x, Len(s))
             Good(n) == /\ kept[n] \in Seq(S)
                        /\ Len(kept[n]) = IF n < p THEN n ELSE n - 1
                        /\ \A j \in 1 .. Len(kept[n]) :
                              kept[n][j] = IF j < p THEN s[j] ELSE s[j + 1]
             Bad == {n \in 0 .. Len(s) : ~ Good(n)}
  <1>0. Len(s) \in Nat /\ p \in Nat /\ p > 0 /\ \A i \in 1 .. Len(s) : s[i] \in S
    OBVIOUS
  <1>1. \E f : Rebuilds(f, s, x, Len(s))
    BY <1>0, RebuildExists
  <1>2. Rebuilds(kept, s, x, Len(s))
    BY <1>1
  <1>3. Without(s, x) = kept[Len(s)]
    BY DEF Without, Rebuilds
  <1> HIDE DEF kept
  <1>4. /\ kept[0] = <<>>
        /\ \A n \in 1 .. Len(s) :
              kept[n] = IF s[n] = x THEN kept[n - 1] ELSE Append(kept[n - 1], s[n])
    <2>1. \A n \in 0 .. Len(s) :
             kept[n] = IF n = 0 THEN <<>>
                       ELSE IF s[n] = x THEN kept[n - 1] ELSE Append(kept[n - 1], s[n])
      BY <1>2 DEF Rebuilds
    <2>2. 0 \in 0 .. Len(s) /\ \A n \in 1 .. Len(s) : n \in 0 .. Len(s) /\ n # 0
      BY <1>0
    <2> QED  BY <2>1, <2>2
  <1>5. Bad = {}
    <2> SUFFICES ASSUME Bad # {} PROVE FALSE
      OBVIOUS
    <2>1. PICK n \in Bad : \A y \in Bad : n <= y
      <3>1. Bad \in SUBSET Nat
        BY <1>0
      <3> HIDE DEF Bad
      <3> QED  BY <3>1, LeastNumber
    <2>2. n \in 0 .. Len(s) /\ ~ Good(n)
      OBVIOUS
    <2>3. n # 0
      <3>1. Good(0)
        <4>1. kept[0] \in Seq(S) /\ Len(kept[0]) = 0 /\ 1 .. 0 = {}
          BY <1>4
        <4> QED  BY <1>0, <4>1
      <3> QED  BY <2>2, <3>1
    <2>4. n \in 1 .. Len(s) /\ n - 1 \in 0 .. Len(s) /\ n - 1 \notin Bad /\ n \in Nat
      <3> HIDE DEF Bad, Good
      <3>1. n \in 1 .. Len(s) /\ n - 1 \in 0 .. Len(s) /\ n \in Nat
        BY <1>0, <2>2, <2>3
      <3> QED  BY <2>1, <3>1
    <2>5. Good(n - 1)
      BY <2>4
    <2> DEFINE q == kept[n - 1]
    <2>6. /\ q \in Seq(S) /\ Len(q) \in Nat /\ Len(q) = (IF n - 1 < p THEN n - 1 ELSE n - 2)
          /\ \A j \in 1 .. Len(q) : q[j] = IF j < p THEN s[j] ELSE s[j + 1]
      BY <2>4, <2>5
    <2>7. kept[n] = IF n = p THEN q ELSE Append(q, s[n])
      BY <1>4, <2>4
    <2> HIDE DEF q
    <2>8. CASE n = p
      <3>1. Len(q) = n - 1
        BY <2>4, <2>6, <2>8
      <3> QED  BY <2>2, <2>4, <2>6, <2>7, <2>8, <3>1
    <2>9. CASE n # p
      <3>1. s[n] \in S /\ Len(q) = (IF n < p THEN n - 1 ELSE n - 2)
        BY <1>0, <2>4, <2>6, <2>9
      <3>2. /\ kept[n] \in Seq(S) /\ Len(kept[n]) = Len(q) + 1
            /\ (\A j \in 1 .. Len(q) : kept[n][j] = q[j]) /\ kept[n][Len(q) + 1] = s[n]
        <4>1. kept[n] = Append(q, s[n])
          BY <2>7, <2>9
        <4>2. q \in Seq(S) /\ s[n] \in S
          BY <2>6, <3>1
        <4> HIDE DEF kept
        <4>3. /\ Append(q, s[n]) \in Seq(S) /\ Len(Append(q, s[n])) = Len(q) + 1
              /\ \A j \in 1 .. Len(q) : Append(q, s[n])[j] = q[j]
              /\ Append(q, s[n])[Len(q) + 1] = s[n]
          BY <4>2, AppendProperties
        <4> QED  BY <4>1, <4>3
      <3>3. Len(kept[n]) = IF n < p THEN n ELSE n - 1
        <4>1. CASE n < p
          <5>1. Len(q) = n - 1
            BY <3>1, <4>1
          <5> QED  BY <2>4, <3>2, <4>1, <5>1
        <4>2. CASE ~ (n < p)
          <5>1. Len(q) = n - 2
            BY <3>1, <4>2
          <5> QED  BY <2>4, <3>2, <4>2, <5>1
        <4> QED  BY <4>1, <4>2
      <3>4. kept[n][Len(q) + 1] = IF Len(q) + 1 < p THEN s[Len(q) + 1] ELSE s[Len(q) + 2]
        <4>1. n < p => Len(q) + 1 = n /\ Len(q) + 1 < p
          BY <2>4, <3>1
        <4>2. ~ (n < p) => Len(q) + 2 = n /\ ~ (Len(q) + 1 < p)
          BY <1>0, <2>4, <2>9, <3>1
        <4> QED  BY <3>2, <4>1, <4>2
      <3>5. \A j \in 1 .. Len(kept[n]) : j \in 1 .. Len(q) \/ j = Len(q) + 1
        BY <2>6, <3>2
      <3>6. Len(q) + 1 + 1 = Len(q) + 2
        BY <2>6
      <3>7. \A j \in 1 .. Len(kept[n]) : kept[n][j] = IF j < p THEN s[j] ELSE s[j + 1]
        BY <2>6, <3>2, <3>4, <3>5, <3>6
      <3> QED  BY <2>2, <3>2, <3>3, <3>7
    <2> QED  BY <2>8, <2>9
  <1>6. Good(Len(s))
    <2> HIDE DEF Good
    <2>1. Len(s) \in 0 .. Len(s)
      BY <1>0
    <2> QED  BY <1>5, <2>1
  <1>7. PICK w : w = kept[Len(s)]
    OBVIOUS
  <1>8. /\ w \in Seq(S) /\ Len(w) = IF Len(s) < p THEN Len(s) ELSE Len(s) - 1
        /\ \A j \in 1 .. Len(w) : w[j] = IF j < p THEN s[j] ELSE s[j + 1]
    BY <1>6, <1>7
  <1>9. (p = Len(s) + 1 => Len(s) < p) /\ (p # Len(s) + 1 => ~ (Len(s) < p))
    BY <1>0
  <1> HIDE DEF Bad, Good
  <1>10. /\ p = Len(s) + 1 => Len(w) = Len(s)
         /\ p # Len(s) + 1 => Len(w) = Len(s) - 1
    BY <1>8, <1>9
  <1>11. Without(s, x) = w
    BY <1>3, <1>7
  <1> QED  BY <1>8, <1>10, <1>11

CacheOrder ==
    /\ recency \in Seq(Keys)
    /\ \A t \in Threads : pc[t] \in {"remove", "expireOld"} => emptied # {}
    /\ emptied = {} =>
          /\ Len(recency) = Len(lru)
          /\ IsInjective(lru)
          /\ \A j \in 1 .. Len(lru) : Filled(lru[j], recency[j])
          /\ \A t \in Threads : pc[t] = "queue" =>
                /\ Filled(request[t].slot, request[t].key)
                /\ <<"slots", "read">> \in held[t] \/ <<"slots", "write">> \in held[t]
                /\ request[t].touch \/ <<"slots", "write">> \in held[t]
                /\ request[t].touch \/ \A j \in 1 .. Len(lru) : lru[j] # request[t].slot

(* While nothing was removed, slots and keys of the queue determine each   *)
(* other.                                                                  *)
LEMMA OrderFacts ==
    ASSUME CacheIInv, CacheOrder, emptied = {}
    PROVE  /\ \A i \in Slots, k \in Keys : Filled(i, k) <=> index[k] = i
           /\ \A i \in Slots, k, x \in Keys : Filled(i, k) /\ Filled(i, x) => k = x
           /\ lru \in Seq(Slots) /\ Len(lru) \in Nat /\ Len(recency) = Len(lru)
           /\ \A j \in 1 .. Len(lru) : lru[j] \in Slots /\ recency[j] \in Keys
           /\ \A j, n \in 1 .. Len(lru) :
                 /\ lru[j] = lru[n] => j = n
                 /\ recency[j] = recency[n] => j = n
           /\ \A j \in 1 .. Len(lru), k \in Keys : Filled(lru[j], k) <=> recency[j] = k
  <1>1. \A i \in Slots, k \in Keys : Filled(i, k) <=> index[k] = i
    <2>1. \A i \in Slots, k \in Keys : ~ Leaving(i, k)
      BY DEF CacheOrder, Leaving
    <2> QED  BY <2>1 DEF CacheIInv, CacheExact
  <1>2. \A i \in Slots, k, x \in Keys : Filled(i, k) /\ Filled(i, x) => k = x
    BY DEF CacheIInv, CacheTypeOK, Filled
  <1>3. /\ lru \in Seq(Slots) /\ Len(lru) \in Nat /\ Len(recency) = Len(lru) /\ recency \in Seq(Keys)
        /\ DOMAIN lru = 1 .. Len(lru)
    BY DEF CacheIInv, CacheTypeOK, CacheOrder
  <1>4. \A j \in 1 .. Len(lru) : lru[j] \in Slots /\ recency[j] \in Keys
    BY <1>3
  <1>5. \A j, n \in 1 .. Len(lru) : lru[j] = lru[n] => j = n
    BY <1>3 DEF CacheOrder, IsInjective
  <1>6. \A j \in 1 .. Len(lru), k \in Keys : Filled(lru[j], k) <=> recency[j] = k
    BY <1>2, <1>4 DEF CacheOrder
  <1>7. \A j, n \in 1 .. Len(lru) : recency[j] = recency[n] => j = n
    <2> SUFFICES ASSUME NEW j \in 1 .. Len(lru), NEW n \in 1 .. Len(lru), recency[j] = recency[n]
                 PROVE  j = n
      OBVIOUS
    <2>1. Filled(lru[j], recency[j]) /\ Filled(lru[n], recency[j])
      BY <1>4, <1>6
    <2>2. lru[j] = lru[n]
      BY <1>1, <1>4, <2>1
    <2> QED  BY <1>5, <2>2
  <1> QED  BY <1>1, <1>2, <1>3, <1>4, <1>5, <1>6, <1>7

(* A step that leaves the queue and the keys in the slots alone.           *)
LEMMA OrderAside ==
    ASSUME CacheIInv, CacheOrder, UNCHANGED <<lru, recency, emptied>>,
           \A i \in Slots, k \in Keys : Filled(i, k)' <=> Filled(i, k),
           \A u \in Threads :
              pc'[u] \in {"queue", "remove", "expireOld"} =>
                 pc'[u] = pc[u] /\ request'[u] = request[u] /\ held'[u] = held[u]
    PROVE  CacheOrder'
  <1>1. recency' \in Seq(Keys) /\ \A t \in Threads : pc'[t] \in {"remove", "expireOld"} => emptied' # {}
    BY DEF CacheOrder
  <1>2. ASSUME emptied = {}
        PROVE  /\ \A j \in 1 .. Len(lru) : Filled(lru[j], recency[j])'
               /\ \A t \in Threads : pc'[t] = "queue" =>
                     /\ Filled(request[t].slot, request[t].key)'
                     /\ <<"slots", "read">> \in held'[t] \/ <<"slots", "write">> \in held'[t]
                     /\ request'[t].touch \/ <<"slots", "write">> \in held'[t]
                     /\ request'[t].touch \/ \A j \in 1 .. Len(lru) : lru[j] # request'[t].slot
    <2>1. \A j \in 1 .. Len(lru) : Filled(lru[j], recency[j])'
      <3> SUFFICES ASSUME NEW j \in 1 .. Len(lru)
                   PROVE  Filled(lru[j], recency[j])'
        OBVIOUS
      <3>1. lru[j] \in Slots /\ recency[j] \in Keys /\ Filled(lru[j], recency[j])
        BY <1>2, OrderFacts
      <3>2. PICK i \in Slots, k \in Keys : i = lru[j] /\ k = recency[j]
        BY <3>1
      <3>3. Filled(i, k)'
        BY <3>1, <3>2
      <3> QED  BY <3>2, <3>3 DEF Filled
    <2>2. ASSUME NEW t \in Threads, pc'[t] = "queue"
          PROVE  Filled(request[t].slot, request[t].key)'
      <3>1. pc[t] = "queue" /\ request'[t] = request[t]
        BY <2>2
      <3>2. request[t].slot \in Slots /\ request[t].key \in Keys
        BY <3>1 DEF CacheIInv, CacheTypeOK, CachePlans, Requests
      <3>3. PICK i \in Slots, k \in Keys : i = request[t].slot /\ k = request[t].key
        BY <3>2
      <3>4. Filled(i, k)'
        BY <1>2, <3>1, <3>3 DEF CacheOrder
      <3> QED  BY <3>1, <3>3, <3>4 DEF Filled
    <2> QED  BY <1>2, <2>1, <2>2 DEF CacheOrder
  <1> QED  BY <1>1, <1>2 DEF CacheOrder

(* GetSlot: the entry that was found stays until the slot has entered the  *)
(* queue.                                                                  *)
LEMMA GetSlotOrders ==
    ASSUME CacheIInv, CacheOrder, NEW t \in Threads, GetSlot(t)
    PROVE  CacheOrder'
  <1>1. /\ pc[t] = "getSlot" /\ UNCHANGED cacheVars /\ request[t].touch
        /\ request[t].slot \in Slots /\ request[t].key \in Keys
    BY DEF GetSlot, CacheIInv, CachePlans, CacheTypeOK, Requests
  <1>2. UNCHANGED <<slots, index, lru, request, recency, emptied>>
    BY <1>1 DEF cacheVars
  <1>3. \A i \in Slots, k \in Keys : Filled(i, k)' <=> Filled(i, k)
    BY <1>2 DEF Filled
  <1>4. CASE pc' = [pc EXCEPT ![t] = "idle"] /\ UNCHANGED held
    <2>1. \A u \in Threads : pc'[u] \in {"queue", "remove", "expireOld"} => pc'[u] = pc[u]
      BY <1>4 DEF CacheIInv, GuardsOK
    <2> QED  BY <1>2, <1>3, <1>4, <2>1, OrderAside
  <1>5. CASE Goto(t, "getSlot", "queue") /\ Read(t, "slots")
        /\ Entry(request[t].key) \in slots[request[t].slot]
    <2>1. /\ pc'[t] = "queue" /\ <<"slots", "read">> \in held'[t]
          /\ \A u \in Threads \ {t} : pc'[u] = pc[u] /\ held'[u] = held[u]
      BY <1>5 DEF Goto, Read, CacheIInv, GuardsOK
    <2>2. Filled(request[t].slot, request[t].key)
      BY <1>5 DEF Filled, Entry
    <2>3. /\ recency' \in Seq(Keys)
          /\ \A u \in Threads : pc'[u] \in {"remove", "expireOld"} => emptied' # {}
      BY <1>2, <2>1 DEF CacheOrder
    <2>4. \A i, k : Filled(i, k)' <=> Filled(i, k)
      BY <1>2 DEF Filled
    <2>5. ASSUME emptied = {}
          PROVE  \A u \in Threads : pc'[u] = "queue" =>
                    /\ Filled(request[u].slot, request[u].key)
                    /\ <<"slots", "read">> \in held'[u] \/ <<"slots", "write">> \in held'[u]
                    /\ request[u].touch \/ <<"slots", "write">> \in held'[u]
                    /\ request[u].touch \/ \A j \in 1 .. Len(lru) : lru[j] # request[u].slot
      BY <1>1, <2>1, <2>2, <2>5 DEF CacheOrder
    <2>6. /\ \A j : Filled(lru[j], recency[j])' <=> Filled(lru[j], recency[j])
          /\ \A u \in Threads : Filled(request[u].slot, request[u].key)' <=>
                                   Filled(request[u].slot, request[u].key)
      BY <1>2 DEF Filled
    <2> QED  BY <1>2, <2>3, <2>5, <2>6 DEF CacheOrder
  <1> QED  BY <1>4, <1>5 DEF GetSlot, Goto

(* EnterQueue: slot and key go to the end together.                        *)
LEMMA EnterQueueOrders ==
    ASSUME CacheIInv, CacheOrder, NEW t \in Threads, EnterQueue(t)
    PROVE  CacheOrder'
  <1> DEFINE slot == request[t].slot
             key == request[t].key
             W == IF request[t].touch THEN Without(lru, slot) ELSE lru
             R == Without(recency, key)
             len == Len(lru)
  <1>1. /\ pc[t] = "queue" /\ pc' = [pc EXCEPT ![t] = "idle"]
        /\ request' = [request EXCEPT ![t] = NoRequest] /\ ReleaseAll(t)
        /\ lru' = Append(W, slot) /\ recency' = Append(R, key)
        /\ UNCHANGED <<slots, index, emptied>>
    BY DEF EnterQueue, Goto, Queued
  <1>2. slot \in Slots /\ key \in Keys
    BY <1>1 DEF CacheIInv, CacheTypeOK, CachePlans, Requests
  <1>3. recency \in Seq(Keys) /\ lru \in Seq(Slots)
    BY DEF CacheIInv, CacheTypeOK, CacheOrder
  <1>4. R \in Seq(Keys)
    <2> HIDE DEF key
    <2> QED  BY <1>3, WithoutKeeps
  <1>5. /\ pc'[t] = "idle"
        /\ \A u \in Threads \ {t} : pc'[u] = pc[u] /\ request'[u] = request[u] /\ held'[u] = held[u]
    BY <1>1 DEF CacheIInv, GuardsOK, CacheTypeOK, ReleaseAll
  <1>6. \A i, k : Filled(i, k)' <=> Filled(i, k)
    BY <1>1 DEF Filled
  <1>7. CASE emptied # {}
    <2>1. recency' \in Seq(Keys)
      <3> HIDE DEF R, key
      <3> QED  BY <1>1, <1>2, <1>4, AppendProperties
    <2> QED  BY <1>1, <1>7, <2>1 DEF CacheOrder
  <1>8. CASE emptied = {}
    <2> HIDE DEF slot, key
    <2>1. Filled(slot, key)
      BY <1>1, <1>8 DEF CacheOrder, slot, key
    <2>2. /\ len \in Nat /\ Len(recency) = len
          /\ \A j \in 1 .. len : lru[j] \in Slots /\ recency[j] \in Keys
          /\ \A j, n \in 1 .. len : lru[j] = lru[n] => j = n
          /\ \A j \in 1 .. len, k \in Keys : Filled(lru[j], k) <=> recency[j] = k
          /\ \A i \in Slots, k \in Keys : Filled(i, k) <=> index[k] = i
      BY <1>8, OrderFacts
    <2> HIDE DEF len
    <2>3. \A j \in 1 .. len : lru[j] = slot <=> recency[j] = key
      BY <1>2, <2>1, <2>2
    <2>4. PICK p \in 1 .. (len + 1) : \A j \in 1 .. len : lru[j] = slot <=> j = p
      <3>1. CASE \E n \in 1 .. len : lru[n] = slot
        <4>1. PICK n \in 1 .. len : lru[n] = slot
          BY <3>1
        <4>2. n \in 1 .. (len + 1) /\ \A j \in 1 .. len : lru[j] = slot <=> j = n
          BY <2>2, <4>1
        <4> QED  BY <4>2
      <3>2. CASE \A n \in 1 .. len : lru[n] # slot
        <4>1. len + 1 \in 1 .. (len + 1) /\ \A j \in 1 .. len : j # len + 1
          BY <2>2
        <4> QED  BY <3>2, <4>1
      <3> QED  BY <3>1, <3>2
    <2>5. /\ R \in Seq(Keys)
          /\ p = len + 1 => Len(R) = len
          /\ p # len + 1 => Len(R) = len - 1
          /\ \A j \in 1 .. Len(R) : R[j] = IF j < p THEN recency[j] ELSE recency[j + 1]
      <3>1. \A j \in 1 .. Len(recency) : recency[j] = key <=> j = p
        BY <2>2, <2>3, <2>4
      <3>2. p \in 1 .. (Len(recency) + 1)
        BY <2>2
      <3>3. /\ Without(recency, key) \in Seq(Keys)
            /\ p = Len(recency) + 1 => Len(Without(recency, key)) = Len(recency)
            /\ p # Len(recency) + 1 => Len(Without(recency, key)) = Len(recency) - 1
            /\ \A j \in 1 .. Len(Without(recency, key)) :
                  Without(recency, key)[j] = IF j < p THEN recency[j] ELSE recency[j + 1]
        <4> HIDE DEF R
        <4> QED  BY <1>3, <3>1, <3>2, WithoutIs
      <3> QED  BY <2>2, <3>3
    <2>6. /\ W \in Seq(Slots)
          /\ p = len + 1 => Len(W) = len
          /\ p # len + 1 => Len(W) = len - 1
          /\ \A j \in 1 .. Len(W) : W[j] = IF j < p THEN lru[j] ELSE lru[j + 1]
      <3>1. /\ Without(lru, slot) \in Seq(Slots)
            /\ p = len + 1 => Len(Without(lru, slot)) = len
            /\ p # len + 1 => Len(Without(lru, slot)) = len - 1
            /\ \A j \in 1 .. Len(Without(lru, slot)) :
                  Without(lru, slot)[j] = IF j < p THEN lru[j] ELSE lru[j + 1]
        <4>1. /\ lru \in Seq(Slots) /\ p \in 1 .. (Len(lru) + 1)
              /\ \A j \in 1 .. Len(lru) : lru[j] = slot <=> j = p
          BY <1>3, <2>4 DEF len
        <4>2. /\ Without(lru, slot) \in Seq(Slots)
              /\ p = Len(lru) + 1 => Len(Without(lru, slot)) = Len(lru)
              /\ p # Len(lru) + 1 => Len(Without(lru, slot)) = Len(lru) - 1
              /\ \A j \in 1 .. Len(Without(lru, slot)) :
                    Without(lru, slot)[j] = IF j < p THEN lru[j] ELSE lru[j + 1]
          BY <4>1, WithoutIs
        <4> QED  BY <4>2 DEF len
      <3>2. CASE request[t].touch
        BY <3>1, <3>2
      <3>3. CASE ~ request[t].touch
        <4>1. \A j \in 1 .. len : lru[j] # slot
          BY <1>1, <1>8, <3>3 DEF CacheOrder, slot, len
        <4>2. p = len + 1
          BY <2>2, <2>4, <4>1
        <4>3. W = lru /\ Len(W) = len
          BY <3>3 DEF len
        <4> QED  BY <1>3, <2>2, <4>2, <4>3
      <3> QED  BY <3>2, <3>3
    <2> DEFINE m == Len(W)
    <2>7. /\ lru' \in Seq(Slots) /\ Len(lru') = m + 1 /\ lru'[m + 1] = slot
          /\ \A j \in 1 .. m : lru'[j] = W[j]
      <3> HIDE DEF W
      <3> QED  BY <1>1, <1>2, <2>6, AppendProperties
    <2>8. /\ recency' \in Seq(Keys) /\ Len(recency') = Len(R) + 1 /\ recency'[Len(R) + 1] = key
          /\ \A j \in 1 .. Len(R) : recency'[j] = R[j]
      <3> HIDE DEF R
      <3> QED  BY <1>1, <1>2, <2>5, AppendProperties
    <2> HIDE DEF W, R
    <2>9. m \in Nat /\ Len(R) = m /\ m = (IF p = len + 1 THEN len ELSE len - 1)
      BY <2>2, <2>5, <2>6
    <2> HIDE DEF m
    <2> DEFINE from(j) == IF j < p THEN j ELSE j + 1
    <2>10. \A j \in 1 .. m : from(j) \in 1 .. len /\ from(j) # p
      BY <2>2, <2>4, <2>9
    <2>11. \A j, n \in 1 .. m : from(j) = from(n) => j = n
      BY <2>2, <2>9
    <2>12. \A j \in 1 .. m : lru'[j] = lru[from(j)] /\ recency'[j] = recency[from(j)]
      BY <2>5, <2>6, <2>7, <2>8, <2>9 DEF m
    <2> HIDE DEF from
    <2>13. \A j \in 1 .. m : lru'[j] # slot
      BY <2>4, <2>10, <2>12
    <2>14. \A j \in 1 .. (m + 1) : j \in 1 .. m \/ j = m + 1
      BY <2>9
    <2>15. \A j, n \in 1 .. m : lru'[j] = lru'[n] => j = n
      BY <2>2, <2>10, <2>11, <2>12
    <2>16. IsInjective(lru')
      <3>1. DOMAIN lru' = 1 .. (m + 1)
        BY <2>7
      <3> QED  BY <2>7, <2>13, <2>14, <2>15, <3>1 DEF IsInjective
    <2>17. \A j \in 1 .. (m + 1) : Filled(lru'[j], recency'[j])
      <3> SUFFICES ASSUME NEW j \in 1 .. (m + 1)
                   PROVE  Filled(lru'[j], recency'[j])
        OBVIOUS
      <3>1. CASE j = m + 1
        BY <2>1, <2>7, <2>8, <2>9, <3>1
      <3>2. CASE j \in 1 .. m
        <4>1. from(j) \in 1 .. len /\ lru'[j] = lru[from(j)] /\ recency'[j] = recency[from(j)]
          BY <2>10, <2>12, <3>2
        <4> QED  BY <2>2, <4>1
      <3> QED  BY <2>14, <3>1, <3>2
    <2>18. ASSUME NEW u \in Threads, pc'[u] = "queue"
           PROVE  /\ u # t /\ pc[u] = "queue" /\ request'[u] = request[u] /\ held'[u] = held[u]
                  /\ request[u].touch /\ Filled(request[u].slot, request[u].key)
                  /\ <<"slots", "read">> \in held[u] \/ <<"slots", "write">> \in held[u]
      <3>1. u # t /\ pc[u] = "queue" /\ request'[u] = request[u] /\ held'[u] = held[u]
        BY <1>5, <2>18
      <3>2. <<"slots", "read">> \in held[t] \/ <<"slots", "write">> \in held[t]
        BY <1>1, <1>8 DEF CacheOrder
      <3>3. <<"slots", "write">> \notin held[u]
        BY <3>1, <3>2 DEF CacheIInv, GuardsOK, Locks
      <3> QED  BY <1>8, <3>1, <3>3 DEF CacheOrder
    <2>19. \A u \in Threads : pc'[u] \in {"remove", "expireOld"} => emptied' # {}
      BY <1>1, <1>5 DEF CacheOrder
    <2>20. \A j \in 1 .. Len(lru') : Filled(lru[j], recency[j])'
      BY <1>1, <2>7, <2>17 DEF Filled
    <2>21. \A u \in Threads : pc'[u] = "queue" =>
              /\ Filled(request[u].slot, request[u].key)'
              /\ <<"slots", "read">> \in held'[u] \/ <<"slots", "write">> \in held'[u]
              /\ request'[u].touch
      <3> SUFFICES ASSUME NEW u \in Threads, pc'[u] = "queue"
                   PROVE  /\ Filled(request[u].slot, request[u].key)'
                          /\ <<"slots", "read">> \in held'[u] \/ <<"slots", "write">> \in held'[u]
                          /\ request'[u].touch
        OBVIOUS
      <3>1. /\ request'[u] = request[u] /\ held'[u] = held[u] /\ request[u].touch
            /\ <<"slots", "read">> \in held[u] \/ <<"slots", "write">> \in held[u]
            /\ Filled(request[u].slot, request[u].key)
        BY <2>18
      <3>2. Filled(request[u].slot, request[u].key)'
        BY <1>1, <3>1 DEF Filled
      <3> QED  BY <3>1, <3>2
    <2> QED  BY <2>7, <2>8, <2>9, <2>16, <2>19, <2>20, <2>21 DEF CacheOrder
  <1> QED  BY <1>7, <1>8

(* What an insertion does to the queue, as long as nothing was removed: an *)
(* eviction takes the first slot, and the slot taken is not in the queue.  *)
LEMMA PutFacts ==
    ASSUME CacheIInv, CacheOrder, emptied = {}, NEW t \in Threads, InsertPut(t)
    PROVE  \E i \in Slots, n \in {0, 1} :
              /\ lru' \in Seq(Slots) /\ recency' \in Seq(Keys)
              /\ Len(lru') = Len(lru) - n /\ Len(recency') = Len(lru')
              /\ \A j \in 1 .. Len(lru') : /\ lru'[j] = lru[j + n] /\ recency'[j] = recency[j + n]
                                           /\ request[t].touch \/ lru'[j] # i
              /\ \A j \in Slots, x \in Keys :
                    Filled(j, x)' <=> IF j = i THEN x = request[t].key ELSE Filled(j, x)
              /\ request[t].touch => Filled(i, request[t].key)
              /\ \A x \in Keys : index[x] # 0 /\ index'[x] = 0 => Len(lru) > 0 /\ x = recency[1]
              /\ request' = [request EXCEPT ![t].slot = i]
  <1> DEFINE k == request[t].key
             touch == request[t].touch
             evicts == ~ touch /\ lru # <<>> /\ \A j \in Slots : slots[j] # {}
             len == Len(lru)
  <1>1. PICK i \in Slots :
           /\ IF touch THEN i = request[t].slot ELSE FreeSlot(i)
           /\ slots' = [slots EXCEPT ![i] = {Entry(k)}]
           /\ index' = [x \in Keys |-> IF x = k THEN i
                           ELSE IF evicts /\ (\E e \in slots[i] : e.key = x) THEN 0 ELSE index[x]]
           /\ request' = [request EXCEPT ![t].slot = i]
           /\ IF evicts THEN \E e \in slots[i] : recency' = Without(recency, e.key)
                        ELSE UNCHANGED recency
    BY DEF InsertPut
  <1>2. pc[t] = "insert" /\ lru' = (IF evicts THEN Tail(lru) ELSE lru)
    BY DEF InsertPut, Goto
  <1> HIDE DEF k, touch, evicts
  <1>3. /\ k \in Keys /\ request[t].slot = index[k] /\ (touch <=> index[k] # 0)
        /\ slots \in [Slots -> SUBSET [key : Keys, expired : BOOLEAN]]
    BY <1>2 DEF CacheIInv, CachePlans, CacheTypeOK, Requests, k, touch
  <1>4. /\ \A j \in Slots, x \in Keys : Filled(j, x) <=> index[x] = j
        /\ \A j \in Slots, x, y \in Keys : Filled(j, x) /\ Filled(j, y) => x = y
        /\ lru \in Seq(Slots) /\ len \in Nat /\ Len(recency) = len /\ recency \in Seq(Keys)
        /\ \A j \in 1 .. len : lru[j] \in Slots /\ recency[j] \in Keys
        /\ \A j, n \in 1 .. len : (lru[j] = lru[n] => j = n) /\ (recency[j] = recency[n] => j = n)
        /\ \A j \in 1 .. len, x \in Keys : Filled(lru[j], x) <=> recency[j] = x
    BY OrderFacts DEF CacheOrder
  <1> HIDE DEF len
  <1>5. \A j \in Slots, x \in Keys : Filled(j, x)' <=> IF j = i THEN x = k ELSE Filled(j, x)
    <2>1. /\ slots'[i] = {Entry(k)} /\ Entry(k).key = k
          /\ \A j \in Slots : j # i => slots'[j] = slots[j]
      BY <1>1, <1>3 DEF Entry
    <2> QED  BY <2>1 DEF Filled
  <1>6. touch => Filled(i, k)
    BY <1>1, <1>3, <1>4
  <1>7. CASE evicts
    <2>1. ~ touch /\ lru # <<>> /\ \A j \in Slots : slots[j] # {}
      BY <1>7 DEF evicts
    <2>2. /\ Tail(lru) \in Seq(Slots) /\ Len(Tail(lru)) = len - 1 /\ Head(lru) = lru[1]
          /\ \A m \in 1 .. (len - 1) : Tail(lru)[m] = lru[m + 1]
      BY <1>4, <2>1, HeadTailProperties DEF len
    <2>3. i = lru[1]
      BY <1>1, <2>1, <2>2 DEF FreeSlot
    <2>4. len > 0 /\ 1 \in 1 .. len /\ 1 \in 1 .. (len + 1)
      <3>1. len # 0
        BY <1>4, <2>1, EmptySeq DEF len
      <3> QED  BY <1>4, <3>1
    <2>5. recency' = Without(recency, recency[1])
      <3>1. PICK e \in slots[i] : recency' = Without(recency, e.key)
        BY <1>1, <1>7
      <3>2. e.key \in Keys /\ Filled(i, e.key)
        BY <1>3, <3>1 DEF Filled
      <3>3. e.key = recency[1]
        BY <1>4, <2>3, <2>4, <3>2
      <3> QED  BY <3>1, <3>3
    <2>6. \A j \in 1 .. Len(recency) : recency[j] = recency[1] <=> j = 1
      BY <1>4, <2>4
    <2>7. /\ Without(recency, recency[1]) \in Seq(Keys)
          /\ 1 # Len(recency) + 1 => Len(Without(recency, recency[1])) = Len(recency) - 1
          /\ \A j \in 1 .. Len(Without(recency, recency[1])) :
                Without(recency, recency[1])[j] = IF j < 1 THEN recency[j] ELSE recency[j + 1]
      <3>1. 1 \in 1 .. (Len(recency) + 1)
        BY <1>4, <2>4
      <3> QED  BY <1>4, <2>6, <3>1, WithoutIs
    <2>8. /\ recency' \in Seq(Keys) /\ Len(recency') = len - 1
          /\ \A j \in 1 .. (len - 1) : recency'[j] = recency[j + 1]
      BY <1>4, <2>4, <2>5, <2>7
    <2>9. lru' = Tail(lru)
      BY <1>2, <1>7
    <2>10. \A j \in 1 .. (len - 1) : j + 1 \in 1 .. len /\ j + 1 # 1
      BY <1>4
    <2>11. \A j \in 1 .. (len - 1) : lru'[j] = lru[j + 1] /\ lru'[j] # i
      BY <1>4, <2>2, <2>3, <2>4, <2>9, <2>10
    <2>12. \A x \in Keys : index[x] # 0 /\ index'[x] = 0 => x = recency[1]
      <3> SUFFICES ASSUME NEW x \in Keys, index[x] # 0, index'[x] = 0
                   PROVE  x = recency[1]
        OBVIOUS
      <3>1. i # 0
        BY CacheAssumption DEF Slots
      <3>2. Filled(i, x)
        BY <1>1, <3>1 DEF Filled
      <3> QED  BY <1>4, <2>3, <2>4, <3>2
    <2>13. \A j \in 1 .. Len(lru') : /\ lru'[j] = lru[j + 1] /\ recency'[j] = recency[j + 1]
                                     /\ touch \/ lru'[j] # i
      BY <2>2, <2>8, <2>9, <2>11
    <2> QED
      BY <1>1, <1>5, <1>6, <2>2, <2>4, <2>8, <2>9, <2>12, <2>13 DEF k, touch, len
  <1>8. CASE ~ evicts
    <2>1. lru' = lru /\ recency' = recency
      BY <1>1, <1>2, <1>8
    <2>2. ASSUME ~ touch, NEW j \in 1 .. len
          PROVE  lru[j] # i
      <3>1. FreeSlot(i)
        BY <1>1, <2>2
      <3>2. Filled(lru[j], recency[j])
        BY <1>4
      <3>3. slots[lru[j]] # {}
        BY <3>2 DEF Filled
      <3>4. slots[i] # {} => \A n \in Slots : slots[n] # {}
        BY <3>1, FirstFree
      <3>5. lru # <<>>
        BY <1>4, <2>2 DEF len
      <3> QED  BY <1>8, <2>2, <3>3, <3>4, <3>5 DEF evicts
    <2>3. \A x \in Keys : index'[x] = 0 => index[x] = 0
      <3>1. i # 0
        BY CacheAssumption DEF Slots
      <3> QED  BY <1>1, <1>8, <3>1
    <2>4. \A j \in 1 .. len : j + 0 = j
      BY <1>4
    <2>5. len - 0 = len
      BY <1>4
    <2>6. \A j \in 1 .. Len(lru') : /\ lru'[j] = lru[j + 0] /\ recency'[j] = recency[j + 0]
                                    /\ touch \/ lru'[j] # i
      BY <2>1, <2>2, <2>4 DEF len
    <2> QED
      BY <1>1, <1>4, <1>5, <1>6, <2>1, <2>3, <2>5, <2>6 DEF k, touch, len
  <1> QED  BY <1>7, <1>8

(* An eviction takes the first off the queue, slot and key alike.          *)
LEMMA InsertPutOrders ==
    ASSUME CacheIInv, CacheOrder, NEW t \in Threads, InsertPut(t)
    PROVE  CacheOrder'
  <1> DEFINE k == request[t].key
             touch == request[t].touch
  <1>1. Goto(t, "insert", "queue") /\ Write(t, "slots") /\ emptied' = emptied
    BY DEF InsertPut
  <1>2. /\ pc[t] = "insert" /\ pc'[t] = "queue" /\ <<"slots", "write">> \in held'[t]
        /\ \A u \in Threads \ {t} : pc'[u] = pc[u] /\ held'[u] = held[u]
        /\ \A u \in Threads :
              <<"slots", "read">> \notin held[u] /\ <<"slots", "write">> \notin held[u]
    BY <1>1 DEF Goto, Write, CanWrite, CanRead, CacheIInv, GuardsOK
  <1>3. request[t] = [key |-> k, slot |-> request[t].slot, touch |-> touch] /\ DOMAIN request = Threads
        /\ k \in Keys
    BY DEF CacheIInv, CacheTypeOK, Requests
  <1>4. \A u \in Threads : pc'[u] \in {"remove", "expireOld"} => emptied' # {}
    BY <1>1, <1>2 DEF CacheOrder
  <1>5. CASE emptied # {}
    <2>1. recency' \in Seq(Keys)
      <3>1. recency' = recency \/ \E x : recency' = Without(recency, x)
        BY DEF InsertPut
      <3>2. recency \in Seq(Keys)
        BY DEF CacheOrder
      <3> QED  BY <3>1, <3>2, WithoutKeeps
    <2> QED  BY <1>1, <1>4, <1>5, <2>1 DEF CacheOrder
  <1>6. CASE emptied = {}
    <2>1. PICK i \in Slots, n \in {0, 1} :
              /\ lru' \in Seq(Slots) /\ recency' \in Seq(Keys)
              /\ Len(lru') = Len(lru) - n /\ Len(recency') = Len(lru')
              /\ \A j \in 1 .. Len(lru') : /\ lru'[j] = lru[j + n] /\ recency'[j] = recency[j + n]
                                           /\ touch \/ lru'[j] # i
              /\ \A j \in Slots, x \in Keys : Filled(j, x)' <=> IF j = i THEN x = k ELSE Filled(j, x)
              /\ touch => Filled(i, k)
              /\ request' = [request EXCEPT ![t].slot = i]
      BY <1>6, PutFacts
    <2> HIDE DEF k, touch
    <2>2. request'[t] = [key |-> k, slot |-> i, touch |-> touch]
      <3>1. \A a, b, c : [[key |-> a, slot |-> b, touch |-> c] EXCEPT !.slot = i] =
                            [key |-> a, slot |-> i, touch |-> c]
        OBVIOUS
      <3>2. [request[t] EXCEPT !.slot = i] = [key |-> k, slot |-> i, touch |-> touch]
        BY <1>3, <3>1
      <3>3. request' = [request EXCEPT ![t] = [request[t] EXCEPT !.slot = i]]
        BY <2>1
      <3> QED  BY <1>3, <3>2, <3>3
    <2>3. request'[t].key = k /\ request'[t].slot = i /\ request'[t].touch = touch
      BY <2>2
    <2>4. /\ \A j \in Slots, a, x \in Keys : Filled(j, a) /\ Filled(j, x) => a = x
          /\ Len(lru) \in Nat
          /\ \A j \in 1 .. Len(lru) : lru[j] \in Slots /\ recency[j] \in Keys /\ Filled(lru[j], recency[j])
          /\ \A j, m \in 1 .. Len(lru) : lru[j] = lru[m] => j = m
      BY <1>6, OrderFacts DEF CacheOrder
    <2>5. \A j \in 1 .. Len(lru') : j + n \in 1 .. Len(lru)
      BY <2>1, <2>4
    <2>6. ASSUME NEW j \in 1 .. Len(lru')
          PROVE  Filled(lru[j], recency[j])'
      <3>1. PICK a \in Slots, x \in Keys :
               a = lru'[j] /\ x = recency'[j] /\ Filled(a, x) /\ (touch \/ a # i)
        BY <2>1, <2>4, <2>5
      <3>2. Filled(a, x)'
        <4>1. CASE a = i
          <5>1. Filled(a, k)
            BY <2>1, <3>1, <4>1
          <5>2. x = k
            BY <1>3, <2>4, <3>1, <5>1
          <5> QED  BY <2>1, <4>1, <5>2
        <4>2. CASE a # i
          BY <2>1, <3>1, <4>2
        <4> QED  BY <4>1, <4>2
      <3> QED  BY <3>1, <3>2 DEF Filled
    <2>7. IsInjective(lru')
      <3>1. \A j, m \in 1 .. Len(lru') : lru'[j] = lru'[m] => j = m
        <4> SUFFICES ASSUME NEW j \in 1 .. Len(lru'), NEW m \in 1 .. Len(lru'), lru'[j] = lru'[m]
                     PROVE  j = m
          OBVIOUS
        <4>1. j + n \in 1 .. Len(lru) /\ m + n \in 1 .. Len(lru) /\ lru[j + n] = lru[m + n]
          BY <2>1, <2>5
        <4>2. j + n = m + n
          BY <2>4, <4>1
        <4> QED  BY <4>2
      <3>2. DOMAIN lru' = 1 .. Len(lru')
        BY <2>1
      <3> QED  BY <3>1, <3>2 DEF IsInjective
    <2>8. \A u \in Threads : pc'[u] = "queue" => u = t
      BY <1>2, <1>6 DEF CacheOrder
    <2>9. Filled(request[t].slot, request[t].key)'
      <3>1. PICK x \in Keys : x = k
        BY <1>3
      <3>2. Filled(i, x)'
        BY <2>1, <3>1
      <3>3. request'[t].slot = i /\ request'[t].key = x
        BY <2>3, <3>1
      <3> QED  BY <3>2, <3>3 DEF Filled
    <2>10. touch \/ \A j \in 1 .. Len(lru') : lru'[j] # i
      BY <2>1
    <2> QED
      BY <1>2, <1>4, <2>1, <2>3, <2>6, <2>7, <2>8, <2>9, <2>10 DEF CacheOrder
  <1> QED  BY <1>5, <1>6

(* Any step of the cache keeps the order of use.                           *)
LEMMA OrderKept ==
    ASSUME CacheIInv, CacheOrder, CacheNext
    PROVE  CacheOrder'
  <1>1. CASE Expire
    <2>1. PICK i \in Slots : \E e \in slots[i] : slots' = [slots EXCEPT ![i] = {[e EXCEPT !.expired = TRUE]}]
      BY <1>1 DEF Expire
    <2>2. PICK e \in slots[i] : slots' = [slots EXCEPT ![i] = {[e EXCEPT !.expired = TRUE]}]
      BY <2>1
    <2>3. /\ slots \in [Slots -> SUBSET [key : Keys, expired : BOOLEAN]]
          /\ \A f \in slots[i] : f = e
      BY DEF CacheIInv, CacheTypeOK
    <2>4. e \in [key : Keys, expired : BOOLEAN]
      BY <2>3
    <2>5. \A j \in Slots : j # i => slots'[j] = slots[j]
      BY <2>2, <2>3
    <2>6. \A j \in Slots, k \in Keys : Filled(j, k)' <=> Filled(j, k)
      <3>1. slots'[i] = {[e EXCEPT !.expired = TRUE]} /\ [e EXCEPT !.expired = TRUE].key = e.key
        BY <2>2, <2>3, <2>4
      <3>2. \A k \in Keys : Filled(i, k)' <=> Filled(i, k)
        BY <2>3, <3>1 DEF Filled
      <3> QED  BY <2>5, <3>2 DEF Filled
    <2>7. UNCHANGED <<pc, held, index, lru, request, recency, emptied>>
      BY <1>1 DEF Expire
    <2> QED  BY <2>6, <2>7, OrderAside
  <1>2. ASSUME NEW t \in Threads, Get(t) \/ Insert(t)
        PROVE  CacheOrder'
    <2>1. /\ pc' = [pc EXCEPT ![t] = "getSlot"] \/ pc' = [pc EXCEPT ![t] = "insert"]
          /\ UNCHANGED held \/ Write(t, "index")
          /\ \E r : request' = [request EXCEPT ![t] = r]
          /\ UNCHANGED <<slots, index, lru, recency, emptied>>
      BY <1>2 DEF Get, Insert, CallCache, Goto
    <2>2. \A u \in Threads : pc'[u] \in {"queue", "remove", "expireOld"} =>
             pc'[u] = pc[u] /\ request'[u] = request[u] /\ held'[u] = held[u]
      BY <2>1 DEF CacheIInv, GuardsOK, CacheTypeOK, Write
    <2>3. \A i \in Slots, k \in Keys : Filled(i, k)' <=> Filled(i, k)
      BY <2>1 DEF Filled
    <2> QED  BY <2>1, <2>2, <2>3, OrderAside
  <1>3. ASSUME NEW t \in Threads, RemoveKey(t) \/ ExpireOld(t) \/ ClearSlots(t)
        PROVE  CacheOrder'
    <2>1. emptied' # {} /\ recency' = recency
      BY <1>3 DEF RemoveKey, ExpireOld, ClearSlots
    <2> QED  BY <2>1 DEF CacheOrder
  <1>4. ASSUME NEW t \in Threads, RemoveSlot(t) \/ ExpireEntries(t) \/ ClearIndex(t) \/ ClearQueue(t)
        PROVE  CacheOrder'
    <2>1. /\ pc[t] \in {"remove", "expireOld", "clearIndex", "clearQueue"}
          /\ UNCHANGED <<emptied, recency>>
      BY <1>4 DEF RemoveSlot, ExpireEntries, ClearIndex, ClearQueue, Goto
    <2>2. emptied # {}
      BY <2>1 DEF CacheOrder, CacheIInv, CachePlans
    <2> QED  BY <2>1, <2>2 DEF CacheOrder
  <1> QED
    BY <1>1, <1>2, <1>3, <1>4, GetSlotOrders, InsertPutOrders, EnterQueueOrders DEF CacheNext, CacheStep

(* The key that loses its slot is the one that was used the longest time   *)
(* ago.                                                                    *)
LEMMA EvictsFirst ==
    ASSUME CacheIInv, CacheOrder, CacheNext, emptied' = {}, NEW k \in Keys, index[k] # 0, index'[k] = 0
    PROVE  k = Head(recency)
  <1>1. emptied = {}
    BY DEF CacheNext, Expire, Get, Insert, RemoveKey, ExpireOld, ClearSlots, CacheStep, GetSlot,
           InsertPut, EnterQueue, RemoveSlot, ExpireEntries, ClearIndex, ClearQueue, cacheVars
  <1>2. PICK t \in Threads : InsertPut(t)
    <2>1. \A t \in Threads : pc[t] \notin {"remove", "expireOld", "clearIndex", "clearQueue"}
      BY <1>1 DEF CacheOrder, CacheIInv, CachePlans
    <2>2. index' # index
      OBVIOUS
    <2> QED
      BY <2>1, <2>2 DEF CacheNext, Expire, Get, Insert, RemoveKey, ExpireOld, ClearSlots, CacheStep,
           GetSlot, EnterQueue, RemoveSlot, ExpireEntries, ClearIndex, ClearQueue, cacheVars, Goto
  <1>3. Len(lru) > 0 /\ k = recency[1]
    BY <1>1, <1>2, PutFacts
  <1>4. recency \in Seq(Keys) /\ recency # <<>>
    BY <1>1, <1>3, EmptySeq DEF CacheOrder
  <1> QED  BY <1>3, <1>4, HeadTailProperties

-----------------------------------------------------------------------------
(***************************************************************************)
(* The batch scheduler.  First what its operators on sequences do to the   *)
(* events in them: none is there twice, and none is lost.                  *)
(***************************************************************************)
LEMMA SetOfAppend ==
    ASSUME NEW S, NEW s \in Seq(S), NEW e \in S, e \notin ToSet(s), IsInjective(s)
    PROVE  /\ Append(s, e) \in Seq(S) /\ Len(Append(s, e)) = Len(s) + 1
           /\ IsInjective(Append(s, e)) /\ ToSet(Append(s, e)) = ToSet(s) \cup {e}
  <1> DEFINE n == Len(s)
             a == Append(s, e)
  <1>1. n \in Nat /\ DOMAIN s = 1 .. n
    OBVIOUS
  <1>2. /\ a \in Seq(S) /\ Len(a) = n + 1 /\ DOMAIN a = 1 .. (n + 1)
        /\ (\A i \in 1 .. n : a[i] = s[i]) /\ a[n + 1] = e
    BY AppendProperties
  <1> HIDE DEF a, n
  <1>3. \A i \in 1 .. (n + 1) : i \in 1 .. n \/ i = n + 1
    BY <1>1
  <1>4. n + 1 \in 1 .. (n + 1) /\ \A i \in 1 .. n : i \in 1 .. (n + 1)
    BY <1>1
  <1>5. \A i \in 1 .. n : s[i] # e
    BY <1>1 DEF ToSet
  <1>6. ToSet(a) = ToSet(s) \cup {e}
    BY <1>1, <1>2, <1>3, <1>4 DEF ToSet
  <1>7. IsInjective(a)
    BY <1>1, <1>2, <1>3, <1>5 DEF IsInjective
  <1> QED  BY <1>2, <1>6, <1>7 DEF a, n

(* The events of a queue are its first and those of the rest.              *)
LEMMA SetOfTail ==
    ASSUME NEW S, NEW s \in Seq(S), s # <<>>, IsInjective(s)
    PROVE  /\ Tail(s) \in Seq(S) /\ Len(Tail(s)) = Len(s) - 1 /\ Len(s) \in Nat
           /\ Head(s) \in S /\ IsInjective(Tail(s)) /\ Head(s) \notin ToSet(Tail(s))
           /\ ToSet(s) = ToSet(Tail(s)) \cup {Head(s)}
  <1> DEFINE n == Len(s)
             r == Tail(s)
  <1>1. n \in Nat /\ n > 0 /\ DOMAIN s = 1 .. n /\ Head(s) = s[1]
    OBVIOUS
  <1>2. /\ Head(s) \in S /\ r \in Seq(S) /\ Len(r) = n - 1 /\ DOMAIN r = 1 .. (n - 1)
        /\ \A i \in 1 .. (n - 1) : r[i] = s[i + 1]
    BY HeadTailProperties
  <1> HIDE DEF n, r
  <1>3. /\ 1 \in 1 .. n /\ \A i \in 1 .. (n - 1) : i + 1 \in 1 .. n /\ i + 1 # 1
        /\ \A i \in 1 .. n : i = 1 \/ (i - 1 \in 1 .. (n - 1) /\ i = (i - 1) + 1)
    BY <1>1
  <1>4. ToSet(s) = ToSet(r) \cup {s[1]}
    <2>1. ToSet(s) = {s[i] : i \in 1 .. n} /\ ToSet(r) = {r[i] : i \in 1 .. (n - 1)}
      BY <1>1, <1>2 DEF ToSet
    <2>2. ASSUME NEW i \in 1 .. n, i # 1 PROVE s[i] \in ToSet(r)
      <3>1. i - 1 \in 1 .. (n - 1) /\ i = (i - 1) + 1
        BY <1>1, <2>2
      <3>2. r[i - 1] = s[i]
        BY <1>2, <3>1
      <3> QED  BY <2>1, <3>1, <3>2
    <2>3. \A i \in 1 .. (n - 1) : r[i] \in ToSet(s)
      BY <1>2, <1>3, <2>1
    <2>4. s[1] \in ToSet(s)
      BY <1>3, <2>1
    <2> QED  BY <2>1, <2>2, <2>3, <2>4
  <1>5. s[1] \notin ToSet(r)
    <2> SUFFICES ASSUME s[1] \in ToSet(r) PROVE FALSE
      OBVIOUS
    <2>1. PICK i \in 1 .. (n - 1) : s[1] = r[i]
      BY <1>2 DEF ToSet
    <2>2. s[1] = s[i + 1] /\ 1 \in 1 .. n /\ i + 1 \in 1 .. n /\ i + 1 # 1
      BY <1>2, <1>3, <2>1
    <2> QED  BY <1>1, <2>2 DEF IsInjective
  <1>6. IsInjective(r)
    <2> SUFFICES ASSUME NEW i \in 1 .. (n - 1), NEW j \in 1 .. (n - 1), r[i] = r[j] PROVE i = j
      BY <1>2 DEF IsInjective
    <2>1. i + 1 \in 1 .. n /\ j + 1 \in 1 .. n /\ s[i + 1] = s[j + 1]
      BY <1>2, <1>3
    <2>2. i + 1 = j + 1
      BY <1>1, <2>1 DEF IsInjective
    <2> QED  BY <2>2
  <1> QED  BY <1>1, <1>2, <1>4, <1>5, <1>6 DEF r, n

(* The events of two sequences together are there once if none is in both. *)
LEMMA SetOfConcat ==
    ASSUME NEW S, NEW s \in Seq(S), NEW z \in Seq(S)
    PROVE  /\ s \o z \in Seq(S) /\ ToSet(s \o z) = ToSet(s) \cup ToSet(z)
           /\ IsInjective(s \o z) <=>
                 IsInjective(s) /\ IsInjective(z) /\ ToSet(s) \cap ToSet(z) = {}
  <1> DEFINE m == Len(s)
             n == Len(z)
             c == s \o z
  <1>1. m \in Nat /\ n \in Nat /\ DOMAIN s = 1 .. m /\ DOMAIN z = 1 .. n
    OBVIOUS
  <1>2. /\ c \in Seq(S) /\ DOMAIN c = 1 .. (m + n)
        /\ \A i \in 1 .. (m + n) : c[i] = IF i <= m THEN s[i] ELSE z[i - m]
    BY ConcatProperties
  <1> HIDE DEF m, n, c
  <1>3. \A i \in 1 .. m : i \in 1 .. (m + n) /\ c[i] = s[i]
    BY <1>1, <1>2
  <1>4. \A i \in 1 .. n : m + i \in 1 .. (m + n) /\ c[m + i] = z[i]
    <2> TAKE i \in 1 .. n
    <2>1. m + i \in 1 .. (m + n) /\ ~(m + i <= m) /\ (m + i) - m = i
      BY <1>1
    <2> QED  BY <1>2, <2>1
  <1>5. \A i \in 1 .. (m + n) : i \in 1 .. m \/ \E j \in 1 .. n : i = m + j
    <2> TAKE i \in 1 .. (m + n)
    <2>1. i \notin 1 .. m => i - m \in 1 .. n /\ i = m + (i - m)
      BY <1>1
    <2> QED  BY <2>1
  <1>6. ToSet(c) = ToSet(s) \cup ToSet(z)
    <2>1. ToSet(s) = {s[i] : i \in 1 .. m} /\ ToSet(z) = {z[i] : i \in 1 .. n}
          /\ ToSet(c) = {c[i] : i \in 1 .. (m + n)}
      BY <1>1, <1>2 DEF ToSet
    <2>2. ASSUME NEW i \in 1 .. (m + n) PROVE c[i] \in ToSet(s) \cup ToSet(z)
      <3>1. CASE i \in 1 .. m
        BY <1>3, <2>1, <3>1
      <3>2. CASE i \notin 1 .. m
        <4>1. PICK j \in 1 .. n : i = m + j
          BY <1>5, <3>2
        <4> QED  BY <1>4, <2>1, <4>1
      <3> QED  BY <3>1, <3>2
    <2>3. \A i \in 1 .. m : s[i] \in ToSet(c)
      BY <1>3, <2>1
    <2>4. \A i \in 1 .. n : z[i] \in ToSet(c)
      BY <1>4, <2>1
    <2> QED  BY <2>1, <2>2, <2>3, <2>4
  <1>7. ASSUME IsInjective(c)
        PROVE  IsInjective(s) /\ IsInjective(z) /\ ToSet(s) \cap ToSet(z) = {}
    <2>1. \A i, j \in 1 .. (m + n) : c[i] = c[j] => i = j
      BY <1>2, <1>7 DEF IsInjective
    <2>2. IsInjective(s)
      BY <1>1, <1>3, <2>1 DEF IsInjective
    <2>3. IsInjective(z)
      <3> SUFFICES ASSUME NEW i \in 1 .. n, NEW j \in 1 .. n, z[i] = z[j] PROVE i = j
        BY <1>1 DEF IsInjective
      <3>1. m + i = m + j
        BY <1>4, <2>1
      <3> QED  BY <1>1, <3>1
    <2>4. ASSUME NEW i \in 1 .. m, NEW j \in 1 .. n PROVE s[i] # z[j]
      <3>1. i # m + j
        BY <1>1
      <3> QED  BY <1>3, <1>4, <2>1, <3>1
    <2>5. ToSet(s) \cap ToSet(z) = {}
      BY <1>1, <2>4 DEF ToSet
    <2> QED  BY <2>2, <2>3, <2>5
  <1>8. ASSUME IsInjective(s), IsInjective(z), ToSet(s) \cap ToSet(z) = {}
        PROVE  IsInjective(c)
    <2>1. \A i \in 1 .. m, j \in 1 .. n : s[i] # z[j]
      BY <1>1, <1>8 DEF ToSet
    <2> SUFFICES ASSUME NEW i \in 1 .. (m + n), NEW j \in 1 .. (m + n), c[i] = c[j] PROVE i = j
      BY <1>2 DEF IsInjective
    <2>2. CASE i \in 1 .. m /\ j \in 1 .. m
      BY <1>1, <1>3, <1>8, <2>2 DEF IsInjective
    <2>3. CASE i \in 1 .. m /\ j \notin 1 .. m
      <3>1. PICK b \in 1 .. n : j = m + b
        BY <1>5, <2>3
      <3> QED  BY <1>3, <1>4, <2>1, <2>3, <3>1
    <2>4. CASE i \notin 1 .. m /\ j \in 1 .. m
      <3>1. PICK b \in 1 .. n : i = m + b
        BY <1>5, <2>4
      <3> QED  BY <1>3, <1>4, <2>1, <2>4, <3>1
    <2>5. CASE i \notin 1 .. m /\ j \notin 1 .. m
      <3>1. PICK a \in 1 .. n : i = m + a
        BY <1>5, <2>5
      <3>2. PICK b \in 1 .. n : j = m + b
        BY <1>5, <2>5
      <3>3. z[a] = z[b]
        BY <1>4, <3>1, <3>2
      <3>4. a = b
        BY <1>1, <1>8, <3>3 DEF IsInjective
      <3> QED  BY <3>1, <3>2, <3>4
    <2> QED  BY <2>2, <2>3, <2>4, <2>5
  <1> QED  BY <1>2, <1>6, <1>7, <1>8 DEF c

(* A queue is cut in two.                                                  *)
LEMMA CutQueue ==
    ASSUME NEW S, NEW s \in Seq(S), NEW n \in Nat
    PROVE  /\ First(s, n) \in Seq(S) /\ Rest(s, n) \in Seq(S)
           /\ s = First(s, n) \o Rest(s, n) /\ Len(First(s, n)) <= n
           /\ Len(Rest(s, n)) <= Len(s) /\ Len(First(s, n)) \in Nat
  <1> DEFINE l == Len(s)
             k == IF n < l THEN n ELSE l
             f == SubSeq(s, 1, k)
             r == SubSeq(s, n + 1, l)
  <1>0. l \in Nat /\ \A i \in 1 .. l : s[i] \in S
    OBVIOUS
  <1>1. k \in Nat /\ k <= l /\ k <= n
    BY <1>0
  <1>2. First(s, n) = f /\ Rest(s, n) = r
    BY DEF First, Rest
  <1> HIDE DEF k
  <1>3. f \in Seq(S) /\ Len(f) = k /\ \A i \in 1 .. k : f[i] = s[i]
    <2>1. \A i \in 1 .. k : s[i] \in S
      BY <1>0, <1>1
    <2>2. /\ f \in Seq(S) /\ Len(f) = (IF 1 <= k THEN k - 1 + 1 ELSE 0)
          /\ \A i \in 1 .. k - 1 + 1 : f[i] = s[1 + i - 1]
      BY <1>1, <2>1, SubSeqProperties
    <2>3. \A i \in 1 .. k : i \in 1 .. k - 1 + 1 /\ 1 + i - 1 = i
      BY <1>1
    <2> QED  BY <1>1, <2>2, <2>3
  <1>4. /\ r \in Seq(S) /\ Len(r) = (IF n + 1 <= l THEN l - n ELSE 0)
        /\ \A i \in 1 .. l - n : r[i] = s[n + i]
    <2>1. \A i \in n + 1 .. l : s[i] \in S
      BY <1>0
    <2>2. /\ r \in Seq(S) /\ Len(r) = (IF n + 1 <= l THEN l - (n + 1) + 1 ELSE 0)
          /\ \A i \in 1 .. l - (n + 1) + 1 : r[i] = s[n + 1 + i - 1]
      BY <1>0, <2>1, SubSeqProperties
    <2>3. l - (n + 1) + 1 = l - n /\ \A i \in 1 .. l - n : n + 1 + i - 1 = n + i
      BY <1>0
    <2> QED  BY <2>2, <2>3
  <1> HIDE DEF f, r, l
  <1>5. Len(f) + Len(r) = l /\ Len(r) <= l
    BY <1>0, <1>3, <1>4 DEF k
  <1>6. s = f \o r
    <2>1. /\ f \o r \in Seq(S) /\ Len(f \o r) = l
          /\ \A i \in 1 .. l : (f \o r)[i] = IF i <= k THEN f[i] ELSE r[i - k]
      BY <1>3, <1>4, <1>5, ConcatProperties
    <2>2. ASSUME NEW i \in 1 .. l PROVE (f \o r)[i] = s[i]
      <3>1. CASE i <= k
        BY <1>1, <1>3, <2>1, <2>2, <3>1
      <3>2. CASE ~(i <= k)
        <4>1. n < l /\ k = n /\ i - n \in 1 .. l - n /\ n + (i - n) = i
          BY <1>0, <3>2 DEF k
        <4> QED  BY <1>4, <2>1, <3>2, <4>1
      <3> QED  BY <3>1, <3>2
    <2>3. Len(s) = l
      BY DEF l
    <2> QED  BY <2>1, <2>2, <2>3, SeqEqual
  <1> QED  BY <1>1, <1>2, <1>3, <1>4, <1>5, <1>6 DEF l

(* The batches one after the other, from the first to all.                 *)
Flattens(flat, seqs, len) ==
    flat = [i \in 1 .. len |-> IF i = 1 THEN seqs[i] ELSE flat[i - 1] \o seqs[i]]

(* FlattenSeq is built from the last sequence to the first, which is       *)
(* possible.                                                               *)
LEMMA FlatExists ==
    ASSUME NEW seqs
    PROVE  \A len \in Nat : \E flat : Flattens(flat, seqs, len)
  <1> DEFINE Unflat == {len \in Nat : ~ \E flat : Flattens(flat, seqs, len)}
  <1> SUFFICES ASSUME Unflat # {} PROVE FALSE
    OBVIOUS
  <1>1. PICK n \in Unflat : \A y \in Unflat : n <= y
    <2>1. Unflat \in SUBSET Nat
      OBVIOUS
    <2> HIDE DEF Unflat
    <2> QED  BY <2>1, LeastNumber
  <1>2. n \in Nat /\ ~ \E flat : Flattens(flat, seqs, n)
    OBVIOUS
  <1>3. n # 0
    <2>1. 1 .. 0 = {}
      OBVIOUS
    <2>2. Flattens([i \in 1 .. 0 |-> seqs[i]], seqs, 0)
      BY <2>1 DEF Flattens
    <2> QED  BY <1>2, <2>2
  <1>4. n - 1 \in Nat /\ n - 1 \notin Unflat
    BY <1>1, <1>2, <1>3
  <1>5. PICK flat : Flattens(flat, seqs, n - 1)
    BY <1>4
  <1> DEFINE next(k, q) == IF k = 1 THEN seqs[k] ELSE q \o seqs[k]
             longer == [k \in 1 .. n |-> IF k = n THEN next(n, flat[n - 1]) ELSE flat[k]]
  <1> HIDE DEF Unflat
  <1>6. \A k \in 1 .. (n - 1) : flat[k] = next(k, flat[k - 1])
    BY <1>5 DEF Flattens
  <1>7. \A k \in 1 .. n : longer[k] = next(k, longer[k - 1])
    <2> SUFFICES ASSUME NEW k \in 1 .. n
                 PROVE  longer[k] = next(k, longer[k - 1])
      OBVIOUS
    <2>0. n \in 1 .. n
      BY <1>2, <1>3
    <2>1. CASE k = n
      <3>1. n # 1 => n - 1 \in 1 .. n /\ n - 1 # n
        BY <1>2, <1>3
      <3>2. n # 1 => longer[n - 1] = flat[n - 1]
        BY <3>1
      <3>3. longer[n] = next(n, flat[n - 1])
        BY <2>0
      <3> QED  BY <2>1, <3>2, <3>3
    <2>2. CASE k # n
      <3>1. longer[k] = flat[k] /\ k \in 1 .. (n - 1)
        BY <1>2, <2>2
      <3>2. k # 1 => k - 1 \in 1 .. n /\ k - 1 # n
        BY <1>2, <2>2
      <3>3. k # 1 => longer[k - 1] = flat[k - 1]
        BY <3>2
      <3> QED  BY <1>6, <3>1, <3>3
    <2> QED  BY <2>1, <2>2
  <1>8. longer = [k \in 1 .. n |-> longer[k]]
    OBVIOUS
  <1> HIDE DEF longer
  <1>9. Flattens(longer, seqs, n)
    BY <1>7, <1>8 DEF Flattens
  <1> QED  BY <1>2, <1>9

(* What FlattenSeq gives for a sequence of sequences that is not empty.    *)
LEMMA FlatWalk ==
    ASSUME NEW S, NEW seqs \in Seq(Seq(S)), Len(seqs) # 0
    PROVE  \E flat : /\ FlattenSeq(seqs) = flat[Len(seqs)]
                     /\ \A i \in 1 .. Len(seqs) :
                           /\ flat[i] = IF i = 1 THEN seqs[i] ELSE flat[i - 1] \o seqs[i]
                           /\ flat[i] \in Seq(S)
  <1> DEFINE flat == CHOOSE flat : Flattens(flat, seqs, Len(seqs))
             Bad == {i \in 1 .. Len(seqs) : flat[i] \notin Seq(S)}
  <1>0. Len(seqs) \in Nat /\ \A i \in 1 .. Len(seqs) : seqs[i] \in Seq(S)
    OBVIOUS
  <1>1. \E f : Flattens(f, seqs, Len(seqs))
    BY <1>0, FlatExists
  <1>2. Flattens(flat, seqs, Len(seqs))
    BY <1>1
  <1>3. FlattenSeq(seqs) = flat[Len(seqs)]
    BY DEF FlattenSeq, Flattens
  <1> HIDE DEF flat
  <1>4. \A i \in 1 .. Len(seqs) : flat[i] = IF i = 1 THEN seqs[i] ELSE flat[i - 1] \o seqs[i]
    BY <1>2 DEF Flattens
  <1>5. Bad = {}
    <2> SUFFICES ASSUME Bad # {} PROVE FALSE
      OBVIOUS
    <2>1. PICK n \in Bad : \A y \in Bad : n <= y
      <3>1. Bad \in SUBSET Nat
        BY <1>0
      <3> HIDE DEF Bad
      <3> QED  BY <3>1, LeastNumber
    <2>2. n \in 1 .. Len(seqs) /\ flat[n] \notin Seq(S)
      OBVIOUS
    <2>3. n # 1
      BY <1>0, <1>4, <2>2
    <2>4. n - 1 \in 1 .. Len(seqs) /\ n - 1 \notin Bad
      BY <1>0, <2>1, <2>2, <2>3
    <2>5. flat[n - 1] \in Seq(S) /\ seqs[n] \in Seq(S)
      BY <1>0, <2>2, <2>4
    <2>6. flat[n - 1] \o seqs[n] \in Seq(S)
      BY <2>5, ConcatProperties
    <2> QED  BY <1>4, <2>2, <2>3, <2>6
  <1>6. \A i \in 1 .. Len(seqs) : flat[i] \in Seq(S)
    BY <1>5
  <1> QED  BY <1>3, <1>4, <1>6

(* Two walks over the same batches are the same.                           *)
LEMMA FlattenAppend ==
    ASSUME NEW S, NEW seqs \in Seq(Seq(S)), NEW s \in Seq(S)
    PROVE  /\ FlattenSeq(Append(seqs, s)) = IF seqs = <<>> THEN s ELSE FlattenSeq(seqs) \o s
           /\ seqs # <<>> => FlattenSeq(seqs) \in Seq(S)
  <1> DEFINE n == Len(seqs)
             more == Append(seqs, s)
  <1>0. n \in Nat /\ (seqs = <<>> <=> n = 0)
    OBVIOUS
  <1>1. /\ more \in Seq(Seq(S)) /\ Len(more) = n + 1
        /\ (\A i \in 1 .. n : more[i] = seqs[i]) /\ more[n + 1] = s
    BY AppendProperties
  <1> HIDE DEF more, n
  <1>2. PICK long : /\ FlattenSeq(more) = long[n + 1]
                    /\ \A i \in 1 .. n + 1 :
                          /\ long[i] = IF i = 1 THEN more[i] ELSE long[i - 1] \o more[i]
                          /\ long[i] \in Seq(S)
    <2>1. Len(more) # 0
      BY <1>0, <1>1
    <2>2. \E long : /\ FlattenSeq(more) = long[Len(more)]
                    /\ \A i \in 1 .. Len(more) :
                          /\ long[i] = IF i = 1 THEN more[i] ELSE long[i - 1] \o more[i]
                          /\ long[i] \in Seq(S)
      BY <1>1, <2>1, FlatWalk
    <2> QED  BY <1>1, <2>2
  <1>3. CASE n = 0
    BY <1>0, <1>1, <1>2, <1>3
  <1>4. CASE n # 0
    <2>1. PICK flat : /\ FlattenSeq(seqs) = flat[n]
                      /\ \A i \in 1 .. n :
                            /\ flat[i] = IF i = 1 THEN seqs[i] ELSE flat[i - 1] \o seqs[i]
                            /\ flat[i] \in Seq(S)
      BY <1>0, <1>4, FlatWalk DEF n
    <2> DEFINE Off == {i \in 1 .. n : long[i] # flat[i]}
    <2>2. Off = {}
      <3> SUFFICES ASSUME Off # {} PROVE FALSE
        OBVIOUS
      <3>1. PICK m \in Off : \A y \in Off : m <= y
        <4>1. Off \in SUBSET Nat
          BY <1>0
        <4> HIDE DEF Off
        <4> QED  BY <4>1, LeastNumber
      <3>2. m \in 1 .. n /\ m \in 1 .. n + 1 /\ long[m] # flat[m]
        BY <1>0
      <3>3. m # 1
        BY <1>1, <1>2, <2>1, <3>2
      <3>4. m - 1 \in 1 .. n /\ m - 1 \notin Off
        BY <1>0, <3>1, <3>2, <3>3
      <3>5. long[m - 1] = flat[m - 1]
        BY <3>4
      <3>6. long[m] = long[m - 1] \o more[m]
        BY <1>2, <3>2, <3>3
      <3>7. flat[m] = flat[m - 1] \o seqs[m] /\ more[m] = seqs[m]
        BY <1>1, <2>1, <3>2, <3>3
      <3> QED  BY <3>2, <3>5, <3>6, <3>7
    <2>3. n \in 1 .. n /\ n + 1 \in 1 .. n + 1 /\ n + 1 # 1 /\ (n + 1) - 1 = n
      BY <1>0, <1>4
    <2>4. long[n] = flat[n] /\ flat[n] \in Seq(S)
      BY <2>1, <2>2, <2>3
    <2>5. long[n + 1] = long[n] \o s
      BY <1>1, <1>2, <2>3
    <2>6. seqs # <<>>
      BY <1>0, <1>4
    <2>7. FlattenSeq(more) = long[n + 1] /\ FlattenSeq(seqs) = flat[n]
      BY <1>2, <2>1
    <2>8. FlattenSeq(more) = FlattenSeq(seqs) \o s /\ FlattenSeq(seqs) \in Seq(S)
      BY <2>4, <2>5, <2>7
    <2> HIDE DEF Off
    <2> QED  BY <2>6, <2>8 DEF more
  <1> QED  BY <1>3, <1>4 DEF more
(***************************************************************************)
(* The scheduler's data: where the events are, the bounds of the queues,   *)
(* and the statistics with what the threads in calls have still to count.  *)
(***************************************************************************)
BatchTypeOK ==
    /\ queues \in [Priority -> Seq(Nat)]
    /\ target \in Targets
    /\ received \in Nat /\ lostCount \in Nat /\ batches \in Nat /\ entered \in Nat
    /\ submission \in [Threads -> Priority]
    /\ batched \in Seq(Seq(Nat))

Placed ==
    /\ IsInjective(InBatches)
    /\ \A q \in Priority : IsInjective(queues[q])
    /\ \A p, q \in Priority : p # q => ToSet(queues[p]) \cap ToSet(queues[q]) = {}
    /\ \A q \in Priority : ToSet(queues[q]) \cap (ToSet(InBatches) \cup removed) = {}
    /\ ToSet(InBatches) \cap removed = {}
    /\ \A e : e \in 1 .. entered <=>
                 \/ e \in ToSet(InBatches) \/ e \in removed
                 \/ \E q \in Priority : e \in ToSet(queues[q])

Late == {t \in Threads : pc[t] \in {"enqueue", "countDropped"}}
Dropping == {t \in Threads : pc[t] = "countDropped"}

(* Whoever drops an event keeps its queue locked until there is another.   *)
QueueBounds ==
    /\ \A q \in Priority : Len(queues[q]) <= QueueSize(q)
    /\ \A t \in Dropping : /\ <<submission[t], "write">> \in held[t]
                           /\ Len(queues[submission[t]]) < QueueSize(submission[t])

BatchCounts ==
    /\ received = entered + Cardinality(Late)
    /\ lostCount + Cardinality(Dropping) <= Cardinality(removed)
    /\ Len(batched) = batches + (IF pc[Scheduler] = "countBatch" THEN 1 ELSE 0)

BatchIInv == GuardsOK /\ BatchTypeOK /\ Placed /\ QueueBounds /\ BatchCounts

BatchCall(t) ==
    Submit(t) \/ StartScheduler(t) \/ StopScheduler(t) \/ AdjustBatchSize(t) \/ ClearNormal(t) \/ BatchStep(t)

(* No batches have no events.                                              *)
LEMMA EmptyFlat == FlattenSeq(<<>>) = <<>>
  <1>1. Len(<<>>) = 0
    OBVIOUS
  <1> QED  BY <1>1 DEF FlattenSeq

(* Another batch adds its events at the end.                               *)
LEMMA FlatIsSeq ==
    ASSUME NEW S, NEW seqs \in Seq(Seq(S)), NEW s \in Seq(S)
    PROVE  FlattenSeq(seqs) \in Seq(S) /\ FlattenSeq(Append(seqs, s)) = FlattenSeq(seqs) \o s
  <1>1. CASE seqs = <<>>
    <2>1. FlattenSeq(seqs) = <<>>
      BY <1>1, EmptyFlat
    <2>2. FlattenSeq(Append(seqs, s)) = s
      BY <1>1, FlattenAppend
    <2>3. <<>> \in Seq(S) /\ <<>> \o s = s
      BY ConcatEmptySeq
    <2> QED  BY <2>1, <2>2, <2>3
  <1>2. CASE seqs # <<>>
    BY <1>2, FlattenAppend
  <1> QED  BY <1>1, <1>2

(* An event enters a queue.                                                *)
LEMMA PlacedEnter ==
    ASSUME BatchTypeOK, Placed, NEW q \in Priority,
           queues' = [queues EXCEPT ![q] = Append(queues[q], entered + 1)],
           entered' = entered + 1, UNCHANGED <<batched, removed>>
    PROVE  Placed' /\ queues' \in [Priority -> Seq(Nat)] /\ Len(queues'[q]) = Len(queues[q]) + 1
  <1>0. queues[q] \in Seq(Nat) /\ entered + 1 \in Nat /\ entered \in Nat
    BY DEF BatchTypeOK
  <1>1. entered + 1 \notin 1 .. entered
    BY <1>0
  <1>2. entered + 1 \notin ToSet(queues[q]) /\ IsInjective(queues[q])
    BY <1>1 DEF Placed
  <1> DEFINE s == Append(queues[q], entered + 1)
  <1>3. /\ s \in Seq(Nat) /\ Len(s) = Len(queues[q]) + 1
        /\ IsInjective(s) /\ ToSet(s) = ToSet(queues[q]) \cup {entered + 1}
    BY <1>0, <1>2, SetOfAppend
  <1>4. queues'[q] = s /\ \A p \in Priority : p # q => queues'[p] = queues[p]
    BY DEF BatchTypeOK
  <1>5. queues' \in [Priority -> Seq(Nat)]
    BY <1>3 DEF BatchTypeOK
  <1> HIDE DEF s
  <1>6. InBatches' = InBatches
    BY DEF InBatches
  <1>7. \A e : e \in 1 .. entered' <=> e \in 1 .. entered \/ e = entered + 1
    BY <1>0
  <1>8. /\ \A p \in Priority : IsInjective(queues'[p])
        /\ \A p \in Priority : p # q => ToSet(queues'[p]) = ToSet(queues[p])
        /\ ToSet(queues'[q]) = ToSet(queues[q]) \cup {entered + 1}
    BY <1>3, <1>4 DEF Placed
  <1>9. /\ entered + 1 \notin ToSet(InBatches) /\ entered + 1 \notin removed
        /\ \A p \in Priority : entered + 1 \notin ToSet(queues[p])
    BY <1>1 DEF Placed
  <1>10. Placed'
    <2>1. \A p, r \in Priority : p # r => ToSet(queues'[p]) \cap ToSet(queues'[r]) = {}
      <3> SUFFICES ASSUME NEW p \in Priority, NEW r \in Priority, p # r,
                          NEW e \in ToSet(queues'[p]), e \in ToSet(queues'[r])
                   PROVE  FALSE
        OBVIOUS
      <3>1. ToSet(queues[p]) \cap ToSet(queues[r]) = {}
        BY DEF Placed
      <3>2. e = entered + 1 \/ e \in ToSet(queues[p])
        BY <1>8
      <3>3. e = entered + 1 \/ e \in ToSet(queues[r])
        BY <1>8
      <3>4. e # entered + 1
        BY <1>8, <1>9
      <3> QED  BY <3>1, <3>2, <3>3, <3>4
    <2>2. \A p \in Priority : ToSet(queues'[p]) \cap (ToSet(InBatches) \cup removed) = {}
      BY <1>8, <1>9 DEF Placed
    <2>3. \A e : e \in 1 .. entered' <=>
                    \/ e \in ToSet(InBatches) \/ e \in removed
                    \/ \E p \in Priority : e \in ToSet(queues'[p])
      BY <1>7, <1>8 DEF Placed
    <2> QED  BY <1>6, <1>8, <2>1, <2>2, <2>3 DEF Placed
  <1> QED  BY <1>3, <1>4, <1>5, <1>10

(* Events are taken off a queue for good.                                  *)
LEMMA PlacedLess ==
    ASSUME BatchTypeOK, Placed, NEW q \in Priority, NEW s \in Seq(Nat), NEW gone,
           queues' = [queues EXCEPT ![q] = s], removed' = removed \cup gone,
           UNCHANGED <<batched, entered>>,
           IsInjective(s), ToSet(queues[q]) = ToSet(s) \cup gone, ToSet(s) \cap gone = {}
    PROVE  Placed' /\ queues' \in [Priority -> Seq(Nat)]
  <1>1. queues'[q] = s /\ \A p \in Priority : p # q => queues'[p] = queues[p]
    BY DEF BatchTypeOK
  <1>2. queues' \in [Priority -> Seq(Nat)]
    BY DEF BatchTypeOK
  <1>3. InBatches' = InBatches
    BY DEF InBatches
  <1>4. \A p \in Priority : ToSet(queues'[p]) = IF p = q THEN ToSet(s) ELSE ToSet(queues[p])
    BY <1>1
  <1>5. \A p \in Priority : IsInjective(queues'[p])
    BY <1>1 DEF Placed
  <1>6. \A p \in Priority : ToSet(queues'[p]) \subseteq ToSet(queues[p])
    BY <1>4
  <1>7. \A p, r \in Priority : p # r => ToSet(queues'[p]) \cap ToSet(queues'[r]) = {}
    BY <1>6 DEF Placed
  <1>8. \A p \in Priority : ToSet(queues'[p]) \cap (ToSet(InBatches) \cup removed') = {}
    <2> SUFFICES ASSUME NEW p \in Priority, NEW e \in ToSet(queues'[p])
                 PROVE  e \notin ToSet(InBatches) /\ e \notin removed /\ e \notin gone
      OBVIOUS
    <2>1. e \in ToSet(queues[p])
      BY <1>6
    <2>2. e \notin gone
      <3>1. CASE p = q
        BY <1>4, <3>1
      <3>2. CASE p # q
        BY <2>1, <3>2 DEF Placed
      <3> QED  BY <3>1, <3>2
    <2> QED  BY <2>1, <2>2 DEF Placed
  <1>9. ToSet(InBatches) \cap removed' = {}
    BY DEF Placed
  <1>10. \A e : e \in 1 .. entered <=>
                   \/ e \in ToSet(InBatches) \/ e \in removed'
                   \/ \E p \in Priority : e \in ToSet(queues'[p])
    <2> TAKE e
    <2>1. e \in removed' \/ (\E p \in Priority : e \in ToSet(queues'[p])) <=>
             e \in removed \/ \E p \in Priority : e \in ToSet(queues[p])
      BY <1>4
    <2> QED  BY <2>1 DEF Placed
  <1>11. Placed'
    BY <1>3, <1>5, <1>7, <1>8, <1>9, <1>10 DEF Placed
  <1> QED  BY <1>2, <1>11

(* A batch takes the events of its two parts.                              *)
LEMMA PlacedCollect ==
    ASSUME BatchTypeOK, Placed,
           NEW u1 \in Seq(Nat), NEW u2 \in Seq(Nat), NEW n1 \in Seq(Nat), NEW n2 \in Seq(Nat),
           queues["urgent"] = u1 \o u2, queues["normal"] = n1 \o n2,
           queues' = [q \in Priority |-> IF q = "urgent" THEN u2 ELSE n2],
           batched' = Append(batched, u1 \o n1), UNCHANGED <<entered, removed>>
    PROVE  Placed' /\ queues' \in [Priority -> Seq(Nat)] /\ batched' \in Seq(Seq(Nat))
  <1> DEFINE U == ToSet(queues["urgent"])
             N == ToSet(queues["normal"])
             B == ToSet(InBatches)
  <1>1. Priority = {"urgent", "normal"}
    BY DEF Priority
  <1>2. /\ U \cap N = {} /\ U \cap (B \cup removed) = {} /\ N \cap (B \cup removed) = {}
        /\ IsInjective(u1 \o u2) /\ IsInjective(n1 \o n2) /\ IsInjective(InBatches)
        /\ B \cap removed = {}
        /\ \A e : e \in 1 .. entered <=> e \in B \/ e \in removed \/ e \in U \/ e \in N
    <2>1. /\ "urgent" \in Priority /\ "normal" \in Priority /\ "urgent" # "normal"
          /\ \A q \in Priority : q = "urgent" \/ q = "normal"
      BY <1>1
    <2>2. /\ U \cap N = {} /\ U \cap (B \cup removed) = {} /\ N \cap (B \cup removed) = {}
      BY <2>1 DEF Placed
    <2>3. IsInjective(queues["urgent"]) /\ IsInjective(queues["normal"])
      BY <2>1 DEF Placed
    <2>4. IsInjective(InBatches) /\ B \cap removed = {}
      BY DEF Placed
    <2>5. \A e : e \in 1 .. entered <=> e \in B \/ e \in removed \/ e \in U \/ e \in N
      BY <2>1 DEF Placed
    <2> QED  BY <2>2, <2>3, <2>4, <2>5
  <1>3. /\ U = ToSet(u1) \cup ToSet(u2) /\ ToSet(u1) \cap ToSet(u2) = {}
        /\ IsInjective(u1) /\ IsInjective(u2)
    BY <1>2, SetOfConcat
  <1>4. /\ N = ToSet(n1) \cup ToSet(n2) /\ ToSet(n1) \cap ToSet(n2) = {}
        /\ IsInjective(n1) /\ IsInjective(n2)
    BY <1>2, SetOfConcat
  <1>5. u1 \o n1 \in Seq(Nat) /\ ToSet(u1 \o n1) = ToSet(u1) \cup ToSet(n1) /\ IsInjective(u1 \o n1)
    <2>1. ToSet(u1) \cap ToSet(n1) = {}
      BY <1>2, <1>3, <1>4
    <2> QED  BY <1>3, <1>4, <2>1, SetOfConcat
  <1> DEFINE s == u1 \o n1
  <1> HIDE DEF s
  <1>6. InBatches \in Seq(Nat) /\ InBatches' = InBatches \o s
    <2>1. batched \in Seq(Seq(Nat)) /\ s \in Seq(Nat)
      BY <1>5 DEF BatchTypeOK, s
    <2>2. batched' = Append(batched, s)
      BY DEF s
    <2> QED  BY <2>1, <2>2, FlatIsSeq DEF InBatches
  <1>7. IsInjective(InBatches') /\ ToSet(InBatches') = B \cup ToSet(u1) \cup ToSet(n1)
    <2>1. s \in Seq(Nat) /\ IsInjective(s) /\ ToSet(s) = ToSet(u1) \cup ToSet(n1)
      BY <1>5 DEF s
    <2>2. B \cap ToSet(s) = {}
      BY <1>2, <1>3, <1>4, <2>1
    <2>3. /\ ToSet(InBatches \o s) = ToSet(InBatches) \cup ToSet(s)
          /\ IsInjective(InBatches \o s) <=>
                IsInjective(InBatches) /\ IsInjective(s) /\ ToSet(InBatches) \cap ToSet(s) = {}
      BY <1>6, <2>1, SetOfConcat
    <2> QED  BY <1>2, <1>6, <2>1, <2>2, <2>3
  <1>8. queues'["urgent"] = u2 /\ queues'["normal"] = n2
    BY <1>1
  <1>9. queues' \in [Priority -> Seq(Nat)]
    BY <1>1
  <1>10. batched' \in Seq(Seq(Nat))
    <2>1. batched \in Seq(Seq(Nat)) /\ u1 \o n1 \in Seq(Nat)
      BY <1>5 DEF BatchTypeOK
    <2> QED  BY <2>1, AppendProperties
  <1> DEFINE B2 == ToSet(InBatches')
  <1>11. B2 = B \cup ToSet(u1) \cup ToSet(n1)
    BY <1>7
  <1> HIDE DEF U, N, B, B2
  <1>12. /\ ToSet(u2) \cap ToSet(n2) = {} /\ ToSet(u2) \cap (B2 \cup removed) = {}
         /\ ToSet(n2) \cap (B2 \cup removed) = {} /\ B2 \cap removed = {}
         /\ \A e : e \in 1 .. entered <=> e \in B2 \/ e \in removed \/ e \in ToSet(u2) \/ e \in ToSet(n2)
    BY <1>2, <1>3, <1>4, <1>11
  <1>13. Placed'
    BY <1>1, <1>3, <1>4, <1>7, <1>8, <1>12 DEF Placed, B2
  <1> QED  BY <1>9, <1>10, <1>13

(* Priorities and sets of threads.                                         *)
LEMMA BatchFacts ==
    ASSUME BatchIInv
    PROVE  /\ IsFiniteSet(Late) /\ IsFiniteSet(Dropping) /\ IsFiniteSet(removed)
           /\ Cardinality(Late) \in Nat /\ Cardinality(Dropping) \in Nat /\ Cardinality(removed) \in Nat
           /\ Scheduler \in Threads /\ "urgent" \in Priority /\ "normal" \in Priority
           /\ \A q \in Priority : QueueSize(q) \in Nat /\ Len(queues[q]) \in Nat
           /\ Targets \subseteq Nat /\ target \in Nat /\ Len(batched) \in Nat
  <1>1. IsFiniteSet(Late) /\ IsFiniteSet(Dropping)
    <2>1. Late \in SUBSET Threads /\ Dropping \in SUBSET Threads
      BY DEF Late, Dropping
    <2> QED  BY <2>1, BatchAssumption, FS_Subset
  <1>2. IsFiniteSet(removed)
    <2>1. removed \in SUBSET (1 .. entered)
      BY DEF BatchIInv, Placed
    <2>2. IsFiniteSet(1 .. entered)
      BY FS_Interval DEF BatchIInv, BatchTypeOK
    <2> QED  BY <2>1, <2>2, FS_Subset
  <1>3. Cardinality(Late) \in Nat /\ Cardinality(Dropping) \in Nat /\ Cardinality(removed) \in Nat
    BY <1>1, <1>2, FS_CardinalityType
  <1>4. \A q \in Priority : QueueSize(q) \in Nat /\ queues[q] \in Seq(Nat)
    BY BatchAssumption DEF QueueSize, BatchIInv, BatchTypeOK
  <1>5. Targets \subseteq Nat /\ target \in Nat /\ batched \in Seq(Seq(Nat))
    BY BatchAssumption DEF BatchIInv, BatchTypeOK
  <1> QED  BY <1>1, <1>2, <1>3, <1>4, <1>5, BatchAssumption DEF Priority

(* A step that leaves the events and the statistics alone.                 *)
LEMMA BatchAside ==
    ASSUME BatchIInv, GuardsOK', NEW s \in Threads,
           pc[s] \notin {"enqueue", "countDropped", "countBatch"},
           pc'[s] \notin {"enqueue", "countDropped", "countBatch"},
           \A u \in Threads \ {s} :
              pc'[u] = pc[u] /\ held'[u] = held[u] /\ submission'[u] = submission[u],
           submission' \in [Threads -> Priority], target' \in Targets,
           UNCHANGED <<queues, received, lostCount, batches, entered, batched, removed>>
    PROVE  BatchIInv'
  <1>0. Scheduler \in Threads
    BY BatchAssumption
  <1>1. BatchTypeOK'
    BY DEF BatchIInv, BatchTypeOK
  <1>2. InBatches' = InBatches
    BY DEF InBatches
  <1>3. Placed'
    BY <1>2 DEF BatchIInv, Placed
  <1>4. Late' = Late /\ Dropping' = Dropping
    BY DEF Late, Dropping
  <1>5. QueueBounds'
    <2>1. \A t \in Dropping : t \in Threads \ {s}
      BY DEF Dropping
    <2> QED  BY <1>4, <2>1 DEF BatchIInv, QueueBounds
  <1>6. BatchCounts'
    <2>1. pc'[Scheduler] = "countBatch" <=> pc[Scheduler] = "countBatch"
      BY <1>0
    <2> QED  BY <1>4, <2>1 DEF BatchIInv, BatchCounts
  <1> QED  BY <1>1, <1>3, <1>5, <1>6 DEF BatchIInv

(* The scheduler's thread moves from one place to another.                 *)
LEMMA LoopMoves ==
    ASSUME GuardsOK, NEW from, NEW to, Loop(from, to),
           \/ UNCHANGED held \/ ReleaseAll(Scheduler)
           \/ Write(Scheduler, "normal") \/ Write(Scheduler, "stats")
    PROVE  /\ GuardsOK' /\ Scheduler \in Threads /\ pc[Scheduler] = from /\ pc'[Scheduler] = to
           /\ \A u \in Threads \ {Scheduler} : pc'[u] = pc[u] /\ held'[u] = held[u]
           /\ UNCHANGED <<target, received, lostCount, submission, submits, batchCalls, entered>>
  <1>0. Scheduler \in Threads
    BY BatchAssumption
  <1>1. Goto(Scheduler, from, to)
    BY DEF Loop
  <1>2. Moves(Scheduler)
    BY <1>0, <1>1 DEF Moves, GuardsOK, Goto, Locks
  <1>3. \A u \in Threads \ {Scheduler} : pc'[u] = pc[u] /\ held'[u] = held[u]
    BY <1>0, <1>1 DEF GuardsOK, Goto, ReleaseAll, Write
  <1> QED  BY <1>0, <1>1, <1>2, <1>3, GuardsStep DEF Loop, Goto, GuardsOK

(* The loop looks at the queues and reports without touching the events.   *)
LEMMA LoopKeeps ==
    ASSUME BatchIInv,
           \/ LookNormal \/ LookUrgent \/ EndScheduler \/ TooSoon \/ CollectNormal \/ NotYet
           \/ SkipReport \/ Report \/ DepthNormal \/ DepthUrgent
    PROVE  BatchIInv'
  <1>1. PICK from \in {"look", "lookUrgent", "ending", "collect", "collectUrgent", "report",
                       "depthNormal", "depthUrgent"},
             to \in {"look", "lookUrgent", "ending", "collect", "collectUrgent", "report", "idle",
                     "depthNormal", "depthUrgent"} : Loop(from, to)
    BY DEF LookNormal, LookUrgent, EndScheduler, TooSoon, CollectNormal, NotYet, SkipReport, Report,
           DepthNormal, DepthUrgent
  <1>2. /\ \/ UNCHANGED held \/ ReleaseAll(Scheduler)
           \/ Write(Scheduler, "normal") \/ Write(Scheduler, "stats")
        /\ UNCHANGED <<queues, batches, batched, removed>>
    BY DEF LookNormal, LookUrgent, EndScheduler, TooSoon, CollectNormal, NotYet, SkipReport, Report,
           DepthNormal, DepthUrgent
  <1>3. /\ GuardsOK' /\ Scheduler \in Threads /\ pc[Scheduler] = from /\ pc'[Scheduler] = to
        /\ \A u \in Threads \ {Scheduler} : pc'[u] = pc[u] /\ held'[u] = held[u]
        /\ UNCHANGED <<target, received, lostCount, submission, submits, batchCalls, entered>>
    BY <1>1, <1>2, LoopMoves DEF BatchIInv
  <1>4. submission' \in [Threads -> Priority] /\ target' \in Targets
    BY <1>3 DEF BatchIInv, BatchTypeOK
  <1> QED  BY <1>1, <1>2, <1>3, <1>4, BatchAside

(* try_create_batch moves events from both queues into one batch.          *)
LEMMA CollectKeeps ==
    ASSUME BatchIInv, Collect
    PROVE  BatchIInv'
  <1> DEFINE u1 == First(queues["urgent"], target)
             n1 == First(queues["normal"], Room(u1))
             u2 == Rest(queues["urgent"], target)
             n2 == Rest(queues["normal"], Room(u1))
  <1>1. /\ Loop("collectUrgent", "countBatch") /\ ReleaseAll(Scheduler)
        /\ queues' = [q \in Priority |->
                         IF q = "urgent" THEN Rest(queues[q], target) ELSE Rest(queues[q], Room(u1))]
        /\ batched' = Append(batched, u1 \o n1) /\ UNCHANGED <<batches, removed>>
    BY DEF Collect
  <1>2. /\ GuardsOK' /\ Scheduler \in Threads /\ pc[Scheduler] = "collectUrgent"
        /\ pc'[Scheduler] = "countBatch"
        /\ \A u \in Threads \ {Scheduler} : pc'[u] = pc[u] /\ held'[u] = held[u]
        /\ UNCHANGED <<target, received, lostCount, submission, submits, batchCalls, entered>>
    BY <1>1, LoopMoves DEF BatchIInv
  <1>3. /\ queues["urgent"] \in Seq(Nat) /\ queues["normal"] \in Seq(Nat) /\ target \in Nat
        /\ Priority = {"urgent", "normal"}
    BY BatchFacts DEF BatchIInv, BatchTypeOK, Priority
  <1>4. /\ u1 \in Seq(Nat) /\ u2 \in Seq(Nat) /\ queues["urgent"] = u1 \o u2
        /\ Len(u1) <= target /\ Len(u2) <= Len(queues["urgent"]) /\ Len(u1) \in Nat
    BY <1>3, CutQueue
  <1>5. Room(u1) \in Nat
    <2> HIDE DEF u1
    <2> QED  BY <1>3, <1>4 DEF Room
  <1>6. /\ n1 \in Seq(Nat) /\ n2 \in Seq(Nat) /\ queues["normal"] = n1 \o n2
        /\ Len(n2) <= Len(queues["normal"])
    <2> HIDE DEF u1
    <2> QED  BY <1>3, <1>5, CutQueue
  <1>7. queues' = [q \in Priority |-> IF q = "urgent" THEN u2 ELSE n2]
    BY <1>1, <1>3
  <1> HIDE DEF u1, u2, n1, n2
  <1>8. Placed' /\ queues' \in [Priority -> Seq(Nat)] /\ batched' \in Seq(Seq(Nat))
    BY <1>1, <1>2, <1>4, <1>6, <1>7, PlacedCollect DEF BatchIInv
  <1>9. BatchTypeOK'
    BY <1>1, <1>2, <1>8 DEF BatchIInv, BatchTypeOK
  <1>10. Late' = Late /\ Dropping' = Dropping
    BY <1>2 DEF Late, Dropping
  <1>11. \A q \in Priority : Len(queues'[q]) <= Len(queues[q])
    BY <1>3, <1>4, <1>6, <1>7
  <1>12. QueueBounds'
    <2>1. \A q \in Priority : QueueSize(q) \in Nat /\ Len(queues[q]) \in Nat /\ Len(queues'[q]) \in Nat
      BY <1>8, BatchFacts
    <2>2. \A t \in Dropping : t \in Threads \ {Scheduler} /\ submission[t] \in Priority
      BY <1>2 DEF Dropping, BatchIInv, BatchTypeOK
    <2>3. \A q \in Priority : Len(queues'[q]) <= QueueSize(q)
      BY <1>11, <2>1 DEF BatchIInv, QueueBounds
    <2>4. \A t \in Dropping : /\ <<submission[t], "write">> \in held'[t]
                              /\ Len(queues'[submission[t]]) < QueueSize(submission[t])
      BY <1>2, <1>11, <2>1, <2>2 DEF BatchIInv, QueueBounds
    <2> QED  BY <1>2, <1>10, <2>3, <2>4 DEF QueueBounds
  <1>13. BatchCounts'
    <2>1. Len(batched') = Len(batched) + 1 /\ Len(batched) \in Nat /\ batches \in Nat
      <3>1. batched \in Seq(Seq(Nat)) /\ u1 \o n1 \in Seq(Nat)
        BY <1>4, <1>6, ConcatProperties DEF BatchIInv, BatchTypeOK
      <3> QED  BY <1>1, <3>1, AppendProperties DEF BatchIInv, BatchTypeOK
    <2> QED  BY <1>1, <1>2, <1>10, <2>1 DEF BatchIInv, BatchCounts
  <1> QED  BY <1>2, <1>8, <1>9, <1>12, <1>13 DEF BatchIInv

(* A batch is counted once it is made.                                     *)
LEMMA CountBatchKeeps ==
    ASSUME BatchIInv, CountBatch
    PROVE  BatchIInv'
  <1>1. /\ Loop("countBatch", "report") /\ UNCHANGED <<held, queues, batched, removed>>
        /\ batches' = batches + 1
    BY DEF CountBatch
  <1>2. /\ GuardsOK' /\ Scheduler \in Threads /\ pc[Scheduler] = "countBatch"
        /\ pc'[Scheduler] = "report"
        /\ \A u \in Threads \ {Scheduler} : pc'[u] = pc[u] /\ held'[u] = held[u]
        /\ UNCHANGED <<target, received, lostCount, submission, submits, batchCalls, entered>>
    BY <1>1, LoopMoves DEF BatchIInv
  <1>3. BatchTypeOK'
    BY <1>1, <1>2 DEF BatchIInv, BatchTypeOK
  <1>4. InBatches' = InBatches
    BY <1>1 DEF InBatches
  <1>5. Placed'
    BY <1>1, <1>2, <1>4 DEF BatchIInv, Placed
  <1>6. Late' = Late /\ Dropping' = Dropping
    BY <1>2 DEF Late, Dropping
  <1>7. QueueBounds'
    BY <1>1, <1>2, <1>6 DEF BatchIInv, QueueBounds
  <1>8. BatchCounts'
    <2>1. Len(batched) \in Nat /\ batches \in Nat
      BY BatchFacts DEF BatchIInv, BatchTypeOK
    <2> QED  BY <1>1, <1>2, <1>6, <2>1 DEF BatchIInv, BatchCounts
  <1> QED  BY <1>2, <1>3, <1>5, <1>7, <1>8 DEF BatchIInv

(* A thread in a call moves.                                               *)
LEMMA CallMoves ==
    ASSUME GuardsOK, NEW t \in Threads, NEW from, NEW to, Goto(t, from, to),
           \/ UNCHANGED held \/ ReleaseAll(t)
           \/ \E q \in Priority : Write(t, q)
    PROVE  /\ GuardsOK' /\ pc[t] = from /\ pc'[t] = to
           /\ \A u \in Threads \ {t} : pc'[u] = pc[u] /\ held'[u] = held[u]
  <1>1. Moves(t)
    BY DEF Moves, GuardsOK, Goto, Locks, Priority
  <1>2. \A u \in Threads \ {t} : pc'[u] = pc[u] /\ held'[u] = held[u]
    BY DEF GuardsOK, Goto, ReleaseAll, Write
  <1> QED  BY <1>1, <1>2, GuardsStep DEF Goto, GuardsOK

(* submit, start, stop and adjust_batch_size leave the events alone.       *)
LEMMA OtherCallsKeep ==
    ASSUME BatchIInv, NEW t \in Threads,
           Submit(t) \/ StartScheduler(t) \/ StopScheduler(t) \/ AdjustBatchSize(t)
    PROVE  BatchIInv'
  <1>0. GuardsOK /\ Scheduler \in Threads
    BY BatchAssumption DEF BatchIInv
  <1>1. CASE Submit(t)
    <2>1. Goto(t, "idle", "countReceived") /\ UNCHANGED held
      BY <1>1 DEF Submit
    <2>2. /\ GuardsOK' /\ pc[t] = "idle" /\ pc'[t] = "countReceived"
          /\ \A u \in Threads \ {t} : pc'[u] = pc[u] /\ held'[u] = held[u]
      BY <1>0, <2>1, CallMoves
    <2>3. PICK q \in Priority : submission' = [submission EXCEPT ![t] = q]
      BY <1>1 DEF Submit
    <2>4. /\ submission' \in [Threads -> Priority]
          /\ \A u \in Threads \ {t} : submission'[u] = submission[u]
      BY <2>3 DEF BatchIInv, BatchTypeOK
    <2>5. target' \in Targets
      BY <1>1 DEF Submit, BatchIInv, BatchTypeOK
    <2>6. UNCHANGED <<queues, received, lostCount, batches, entered, batched, removed>>
      BY <1>1 DEF Submit, batchStats, batchHistory
    <2> QED  BY <2>2, <2>4, <2>5, <2>6, BatchAside
  <1>2. CASE StartScheduler(t)
    <2>1. Goto(Scheduler, "idle", "look") /\ UNCHANGED <<held, submission, target>>
      BY <1>2 DEF StartScheduler
    <2>2. /\ GuardsOK' /\ pc[Scheduler] = "idle" /\ pc'[Scheduler] = "look"
          /\ \A u \in Threads \ {Scheduler} : pc'[u] = pc[u] /\ held'[u] = held[u]
      BY <1>0, <2>1, CallMoves
    <2>3. submission' \in [Threads -> Priority] /\ target' \in Targets
      BY <2>1 DEF BatchIInv, BatchTypeOK
    <2>4. UNCHANGED <<queues, received, lostCount, batches, entered, batched, removed>>
      BY <1>2 DEF StartScheduler, batchStats, batchHistory
    <2> QED  BY <1>0, <2>1, <2>2, <2>3, <2>4, BatchAside
  <1>3. CASE StopScheduler(t) \/ AdjustBatchSize(t)
    <2>1. /\ UNCHANGED <<pc, held, submission>> /\ pc[t] = "idle"
          /\ UNCHANGED <<queues, received, lostCount, batches, entered, batched, removed>>
      BY <1>3 DEF StopScheduler, AdjustBatchSize, CallBatches, Busy, batchStats, batchHistory
    <2>2. GuardsOK'
      BY <1>0, <2>1 DEF GuardsOK
    <2>3. target' \in Targets
      BY <1>3 DEF StopScheduler, AdjustBatchSize, BatchIInv, BatchTypeOK
    <2>4. submission' \in [Threads -> Priority]
      BY <2>1 DEF BatchIInv, BatchTypeOK
    <2> QED  BY <2>1, <2>2, <2>3, <2>4, BatchAside
  <1> QED  BY <1>1, <1>2, <1>3

(* An event is received before it enters a queue.                          *)
LEMMA CountReceivedKeeps ==
    ASSUME BatchIInv, NEW t \in Threads, CountReceived(t)
    PROVE  BatchIInv'
  <1>0. Scheduler \in Threads
    BY BatchAssumption
  <1>1. /\ Goto(t, "countReceived", "enqueue") /\ received' = received + 1
        /\ UNCHANGED <<held, queues, working, target, lostCount, batches, submission, entered, batched, removed>>
    BY DEF CountReceived, batchHistory
  <1>2. /\ GuardsOK' /\ pc[t] = "countReceived" /\ pc'[t] = "enqueue"
        /\ \A u \in Threads \ {t} : pc'[u] = pc[u] /\ held'[u] = held[u]
    BY <1>1, CallMoves DEF BatchIInv
  <1>3. BatchTypeOK'
    BY <1>1 DEF BatchIInv, BatchTypeOK
  <1>4. InBatches' = InBatches
    BY <1>1 DEF InBatches
  <1>5. Placed'
    BY <1>1, <1>4 DEF BatchIInv, Placed
  <1>6. Late' = Late \cup {t} /\ t \notin Late /\ Dropping' = Dropping
    BY <1>2 DEF Late, Dropping
  <1>7. QueueBounds'
    BY <1>1, <1>6 DEF BatchIInv, QueueBounds
  <1>8. Cardinality(Late') = Cardinality(Late) + 1
    BY <1>6, BatchFacts, FS_AddElement
  <1>9. BatchCounts'
    <2>1. pc'[Scheduler] = "countBatch" <=> pc[Scheduler] = "countBatch"
      BY <1>0, <1>2
    <2>2. Cardinality(Late) \in Nat /\ entered \in Nat /\ received \in Nat
      BY BatchFacts DEF BatchIInv, BatchTypeOK
    <2> QED  BY <1>1, <1>6, <1>8, <2>1, <2>2 DEF BatchIInv, BatchCounts
  <1> QED  BY <1>2, <1>3, <1>5, <1>7, <1>9 DEF BatchIInv

(* No event of a locked queue is lost by another thread.                   *)
LEMMA WriterAlone ==
    ASSUME BatchIInv, NEW q \in Priority, CanWrite(q)
    PROVE  \A u \in Dropping : submission[u] # q
  <1>1. \A u \in Dropping : u \in Threads /\ <<submission[u], "write">> \in held[u]
    BY DEF Dropping, BatchIInv, QueueBounds
  <1> QED  BY <1>1 DEF CanWrite, CanRead

(* An event enters a queue that has room, which nobody else has locked.    *)
LEMMA EnqueueKeeps ==
    ASSUME BatchIInv, NEW t \in Threads, Enqueue(t)
    PROVE  BatchIInv'
  <1> DEFINE q == submission[t]
  <1>0. Scheduler \in Threads /\ q \in Priority
    BY BatchAssumption DEF BatchIInv, BatchTypeOK
  <1>1. /\ Goto(t, "enqueue", "idle") /\ CanWrite(q) /\ Len(queues[q]) < QueueSize(q)
        /\ queues' = [queues EXCEPT ![q] = Append(queues[q], entered + 1)]
        /\ entered' = entered + 1
        /\ UNCHANGED <<held, target, received, lostCount, batches, submission, batched, removed>>
    BY DEF Enqueue, Entering, batchStats
  <1> HIDE DEF q
  <1>2. /\ GuardsOK' /\ pc[t] = "enqueue" /\ pc'[t] = "idle"
        /\ \A u \in Threads \ {t} : pc'[u] = pc[u] /\ held'[u] = held[u]
    BY <1>1, CallMoves DEF BatchIInv
  <1>3. Placed' /\ queues' \in [Priority -> Seq(Nat)] /\ Len(queues'[q]) = Len(queues[q]) + 1
    BY <1>0, <1>1, PlacedEnter DEF BatchIInv
  <1>4. BatchTypeOK'
    BY <1>1, <1>3 DEF BatchIInv, BatchTypeOK
  <1>5. Late' = Late \ {t} /\ t \in Late /\ Dropping' = Dropping /\ t \notin Dropping
    BY <1>2 DEF Late, Dropping
  <1>6. QueueBounds'
    <2>1. \A u \in Dropping : u \in Threads \ {t} /\ submission[u] # q /\ submission[u] \in Priority
      BY <1>0, <1>1, <1>5, WriterAlone DEF Dropping, BatchIInv, BatchTypeOK
    <2>2. \A p \in Priority : QueueSize(p) \in Nat /\ Len(queues[p]) \in Nat
      BY BatchFacts
    <2>3. \A p \in Priority : p # q => queues'[p] = queues[p]
      BY <1>1 DEF BatchIInv, BatchTypeOK
    <2>4. \A p \in Priority : Len(queues'[p]) <= QueueSize(p)
      BY <1>0, <1>1, <1>3, <2>2, <2>3 DEF BatchIInv, QueueBounds
    <2>5. \A u \in Dropping : /\ <<submission[u], "write">> \in held'[u]
                              /\ Len(queues'[submission[u]]) < QueueSize(submission[u])
      BY <1>1, <2>1, <2>3 DEF BatchIInv, QueueBounds
    <2> QED  BY <1>1, <1>5, <2>4, <2>5 DEF QueueBounds
  <1>7. Cardinality(Late') = Cardinality(Late) - 1
    BY <1>5, BatchFacts, FS_RemoveElement
  <1>8. BatchCounts'
    <2>1. pc'[Scheduler] = "countBatch" <=> pc[Scheduler] = "countBatch"
      BY <1>0, <1>2
    <2>2. Cardinality(Late) \in Nat /\ entered \in Nat /\ received \in Nat
      BY BatchFacts DEF BatchIInv, BatchTypeOK
    <2> QED  BY <1>1, <1>5, <1>7, <2>1, <2>2 DEF BatchIInv, BatchCounts
  <1> QED  BY <1>2, <1>3, <1>4, <1>6, <1>8 DEF BatchIInv

(* The oldest event of a full queue is taken off, and counted later.       *)
LEMMA DropOldestKeeps ==
    ASSUME BatchIInv, NEW t \in Threads, DropOldest(t)
    PROVE  BatchIInv'
  <1> DEFINE q == submission[t]
             r == Tail(queues[q])
             h == Head(queues[q])
  <1>0. Scheduler \in Threads /\ q \in Priority /\ queues[q] \in Seq(Nat)
    BY BatchAssumption DEF BatchIInv, BatchTypeOK
  <1>1. /\ Goto(t, "enqueue", "countDropped") /\ Write(t, q) /\ Len(queues[q]) >= QueueSize(q)
        /\ queues' = [queues EXCEPT ![q] = r] /\ removed' = removed \cup {h}
        /\ UNCHANGED <<target, received, lostCount, batches, submission, entered, batched>>
    BY DEF DropOldest, batchStats
  <1>2. queues[q] # <<>>
    <2>1. QueueSize(q) \in Nat \ {0}
      BY BatchAssumption DEF QueueSize
    <2>2. Len(queues[q]) > 0
      BY <1>0, <1>1, <2>1
    <2> QED  BY <2>2
  <1>3. /\ r \in Seq(Nat) /\ Len(r) = Len(queues[q]) - 1 /\ IsInjective(r)
        /\ ToSet(queues[q]) = ToSet(r) \cup {h} /\ ToSet(r) \cap {h} = {}
    <2>1. IsInjective(queues[q])
      BY <1>0 DEF BatchIInv, Placed
    <2> QED  BY <1>0, <1>2, <2>1, SetOfTail
  <1> HIDE DEF q, r, h
  <1>4. /\ GuardsOK' /\ pc[t] = "enqueue" /\ pc'[t] = "countDropped"
        /\ \A u \in Threads \ {t} : pc'[u] = pc[u] /\ held'[u] = held[u]
    BY <1>0, <1>1, CallMoves DEF BatchIInv
  <1>5. Placed' /\ queues' \in [Priority -> Seq(Nat)]
    BY <1>0, <1>1, <1>3, PlacedLess DEF BatchIInv
  <1>6. BatchTypeOK'
    BY <1>1, <1>5 DEF BatchIInv, BatchTypeOK
  <1>7. Late' = Late /\ Dropping' = Dropping \cup {t} /\ t \notin Dropping
    BY <1>4 DEF Late, Dropping
  <1>8. QueueBounds'
    <2>1. \A p \in Priority : QueueSize(p) \in Nat /\ Len(queues[p]) \in Nat
      BY BatchFacts
    <2>2. queues'[q] = r /\ \A p \in Priority : p # q => queues'[p] = queues[p]
      BY <1>0, <1>1 DEF BatchIInv, BatchTypeOK
    <2>3. Len(queues[q]) <= QueueSize(q)
      BY <1>0 DEF BatchIInv, QueueBounds
    <2>4. Len(r) < QueueSize(q)
      BY <1>0, <1>3, <2>1, <2>3
    <2>5. \A p \in Priority : Len(queues'[p]) <= QueueSize(p)
      <3> SUFFICES ASSUME NEW p \in Priority
                   PROVE  Len(queues'[p]) <= QueueSize(p)
        OBVIOUS
      <3>1. CASE p = q
        BY <1>0, <1>3, <2>1, <2>2, <2>4, <3>1
      <3>2. CASE p # q
        BY <2>2, <3>2 DEF BatchIInv, QueueBounds
      <3> QED  BY <3>1, <3>2
    <2>6. \A u \in Dropping : u \in Threads \ {t} /\ submission[u] # q /\ submission[u] \in Priority
      <3>1. CanWrite(q)
        BY <1>1 DEF Write
      <3> QED  BY <1>0, <1>7, <3>1, WriterAlone DEF Dropping, BatchIInv, BatchTypeOK
    <2>7. \A u \in Dropping : /\ <<submission[u], "write">> \in held'[u]
                              /\ Len(queues'[submission[u]]) < QueueSize(submission[u])
      BY <1>4, <2>2, <2>6 DEF BatchIInv, QueueBounds
    <2>8. <<q, "write">> \in held'[t]
      BY <1>1 DEF Write, BatchIInv, GuardsOK
    <2> QED  BY <1>1, <1>7, <2>2, <2>4, <2>5, <2>7, <2>8 DEF QueueBounds, q
  <1>9. Cardinality(Dropping') = Cardinality(Dropping) + 1
    BY <1>7, BatchFacts, FS_AddElement
  <1>10. Cardinality(removed') = Cardinality(removed) + 1
    <2>1. h \notin removed
      BY <1>0, <1>3 DEF BatchIInv, Placed
    <2> QED  BY <1>1, <2>1, BatchFacts, FS_AddElement
  <1>11. BatchCounts'
    <2>1. pc'[Scheduler] = "countBatch" <=> pc[Scheduler] = "countBatch"
      BY <1>0, <1>4
    <2>2. /\ Cardinality(Dropping) \in Nat /\ Cardinality(removed) \in Nat /\ lostCount \in Nat
      BY BatchFacts DEF BatchIInv, BatchTypeOK
    <2> QED  BY <1>1, <1>7, <1>9, <1>10, <2>1, <2>2 DEF BatchIInv, BatchCounts
  <1> QED  BY <1>4, <1>5, <1>6, <1>8, <1>11 DEF BatchIInv

(* The loss is counted, and the event that came has the place.             *)
LEMMA CountDroppedKeeps ==
    ASSUME BatchIInv, NEW t \in Threads, CountDropped(t)
    PROVE  BatchIInv'
  <1> DEFINE q == submission[t]
  <1>0. Scheduler \in Threads /\ q \in Priority
    BY BatchAssumption DEF BatchIInv, BatchTypeOK
  <1>1. /\ Goto(t, "countDropped", "idle") /\ ReleaseAll(t) /\ lostCount' = lostCount + 1
        /\ queues' = [queues EXCEPT ![q] = Append(queues[q], entered + 1)]
        /\ entered' = entered + 1
        /\ UNCHANGED <<target, received, batches, submission, batched, removed>>
    BY DEF CountDropped, Entering
  <1>2. /\ GuardsOK' /\ pc[t] = "countDropped" /\ pc'[t] = "idle"
        /\ \A u \in Threads \ {t} : pc'[u] = pc[u] /\ held'[u] = held[u]
    BY <1>1, CallMoves DEF BatchIInv
  <1>3. Placed' /\ queues' \in [Priority -> Seq(Nat)] /\ Len(queues'[q]) = Len(queues[q]) + 1
    <2> HIDE DEF q
    <2> QED  BY <1>0, <1>1, PlacedEnter DEF BatchIInv
  <1>4. BatchTypeOK'
    BY <1>1, <1>3 DEF BatchIInv, BatchTypeOK
  <1>5. Late' = Late \ {t} /\ t \in Late /\ Dropping' = Dropping \ {t} /\ t \in Dropping
    BY <1>2 DEF Late, Dropping
  <1>6. <<q, "write">> \in held[t] /\ Len(queues[q]) < QueueSize(q)
    BY <1>5 DEF BatchIInv, QueueBounds
  <1>7. \A u \in Dropping' : /\ u \in Threads \ {t} /\ u \in Dropping /\ submission[u] # q
                             /\ submission[u] \in Priority /\ <<submission[u], "write">> \in held[u]
    <2> SUFFICES ASSUME NEW u \in Dropping'
                 PROVE  /\ u \in Threads \ {t} /\ u \in Dropping /\ submission[u] # q
                        /\ submission[u] \in Priority /\ <<submission[u], "write">> \in held[u]
      OBVIOUS
    <2>1. u \in Threads \ {t} /\ u \in Dropping
      BY <1>5 DEF Dropping
    <2>2. submission[u] \in Priority /\ <<submission[u], "write">> \in held[u]
      BY <2>1 DEF BatchIInv, BatchTypeOK, QueueBounds
    <2>3. submission[u] # q
      <3>1. q \in Locks
        BY <1>0 DEF Priority, Locks
      <3>2. <<q, "write">> \notin held[u]
        BY <1>6, <2>1, <3>1 DEF BatchIInv, GuardsOK
      <3> QED  BY <2>2, <3>2
    <2> QED  BY <2>1, <2>2, <2>3
  <1> HIDE DEF q
  <1>8. QueueBounds'
    <2>1. \A p \in Priority : QueueSize(p) \in Nat /\ Len(queues[p]) \in Nat
      BY BatchFacts
    <2>2. \A p \in Priority : p # q => queues'[p] = queues[p]
      BY <1>1 DEF BatchIInv, BatchTypeOK
    <2>3. \A p \in Priority : Len(queues'[p]) <= QueueSize(p)
      <3> SUFFICES ASSUME NEW p \in Priority
                   PROVE  Len(queues'[p]) <= QueueSize(p)
        OBVIOUS
      <3>1. CASE p = q
        BY <1>0, <1>3, <1>6, <2>1, <3>1
      <3>2. CASE p # q
        BY <2>2, <3>2 DEF BatchIInv, QueueBounds
      <3> QED  BY <3>1, <3>2
    <2>4. \A u \in Dropping' : /\ <<submission[u], "write">> \in held'[u]
                               /\ Len(queues'[submission[u]]) < QueueSize(submission[u])
      BY <1>2, <1>7, <2>2 DEF BatchIInv, QueueBounds
    <2> QED  BY <1>1, <2>3, <2>4 DEF QueueBounds
  <1>9. /\ Cardinality(Late') = Cardinality(Late) - 1
        /\ Cardinality(Dropping') = Cardinality(Dropping) - 1
    BY <1>5, BatchFacts, FS_RemoveElement
  <1>10. BatchCounts'
    <2>1. pc'[Scheduler] = "countBatch" <=> pc[Scheduler] = "countBatch"
      BY <1>0, <1>2
    <2>2. /\ Cardinality(Late) \in Nat /\ Cardinality(Dropping) \in Nat /\ Cardinality(removed) \in Nat
          /\ entered \in Nat /\ received \in Nat /\ lostCount \in Nat
      BY BatchFacts DEF BatchIInv, BatchTypeOK
    <2> QED  BY <1>1, <1>9, <2>1, <2>2 DEF BatchIInv, BatchCounts
  <1> QED  BY <1>2, <1>3, <1>4, <1>8, <1>10 DEF BatchIInv

(* clear empties a queue that nobody has locked.                           *)
LEMMA ClearQueueKeeps ==
    ASSUME BatchIInv, NEW t \in Threads, ClearNormal(t) \/ ClearUrgent(t)
    PROVE  BatchIInv'
  <1>0. Scheduler \in Threads
    BY BatchAssumption
  <1>1. PICK q \in Priority : Emptied(q)
    BY DEF ClearNormal, ClearUrgent, Priority
  <1>2. /\ CanWrite(q) /\ queues' = [queues EXCEPT ![q] = <<>>]
        /\ removed' = removed \cup ToSet(queues[q])
        /\ UNCHANGED <<held, target, received, lostCount, batches, submission, entered, batched>>
    BY <1>1 DEF Emptied, batchStats
  <1>3. PICK from \in {"idle", "clearUrgent"}, to \in {"idle", "clearUrgent"} : Goto(t, from, to)
    BY DEF ClearNormal, ClearUrgent
  <1>4. /\ GuardsOK' /\ pc[t] = from /\ pc'[t] = to
        /\ \A u \in Threads \ {t} : pc'[u] = pc[u] /\ held'[u] = held[u]
    BY <1>2, <1>3, CallMoves DEF BatchIInv
  <1>5. Placed' /\ queues' \in [Priority -> Seq(Nat)]
    <2>1. <<>> \in Seq(Nat) /\ IsInjective(<<>>) /\ ToSet(<<>>) = {}
      BY DEF IsInjective, ToSet
    <2>2. ToSet(queues[q]) = ToSet(<<>>) \cup ToSet(queues[q]) /\ ToSet(<<>>) \cap ToSet(queues[q]) = {}
      BY <2>1
    <2> QED  BY <1>2, <2>1, <2>2, PlacedLess DEF BatchIInv
  <1>6. BatchTypeOK'
    BY <1>2, <1>5 DEF BatchIInv, BatchTypeOK
  <1>7. Late' = Late /\ Dropping' = Dropping
    BY <1>3, <1>4 DEF Late, Dropping
  <1>8. QueueBounds'
    <2>1. \A p \in Priority : QueueSize(p) \in Nat /\ Len(queues[p]) \in Nat
      BY BatchFacts
    <2>2. Len(queues'[q]) = 0 /\ \A p \in Priority : p # q => queues'[p] = queues[p]
      BY <1>2 DEF BatchIInv, BatchTypeOK
    <2>3. \A p \in Priority : Len(queues'[p]) <= QueueSize(p)
      BY <2>1, <2>2 DEF BatchIInv, QueueBounds
    <2>4. \A u \in Dropping : submission[u] \in Priority /\ submission[u] # q
      BY <1>2, WriterAlone DEF Dropping, BatchIInv, BatchTypeOK
    <2> QED  BY <1>2, <1>7, <2>2, <2>3, <2>4 DEF BatchIInv, QueueBounds
  <1>9. Cardinality(removed) <= Cardinality(removed') /\ Cardinality(removed') \in Nat
    <2>1. removed' \in SUBSET (1 .. entered)
      BY <1>2, <1>5 DEF Placed
    <2>2. IsFiniteSet(1 .. entered)
      BY FS_Interval DEF BatchIInv, BatchTypeOK
    <2>3. IsFiniteSet(removed')
      BY <2>1, <2>2, FS_Subset
    <2>4. removed \in SUBSET removed'
      BY <1>2
    <2> QED  BY <2>3, <2>4, FS_Subset, FS_CardinalityType
  <1>10. BatchCounts'
    <2>1. pc'[Scheduler] = "countBatch" <=> pc[Scheduler] = "countBatch"
      BY <1>0, <1>3, <1>4
    <2>2. /\ Cardinality(Dropping) \in Nat /\ Cardinality(removed) \in Nat /\ lostCount \in Nat
      BY BatchFacts DEF BatchIInv, BatchTypeOK
    <2> QED  BY <1>2, <1>7, <1>9, <2>1, <2>2 DEF BatchIInv, BatchCounts
  <1> QED  BY <1>4, <1>5, <1>6, <1>8, <1>10 DEF BatchIInv

(* Any step of the scheduler keeps the invariant.                          *)
LEMMA BatchKept ==
    ASSUME BatchIInv, BatchNext
    PROVE  BatchIInv'
  <1>1. PICK t \in Threads : BatchCall(t)
    BY DEF BatchNext, BatchCall
  <1>2. CASE Submit(t) \/ StartScheduler(t) \/ StopScheduler(t) \/ AdjustBatchSize(t)
    BY <1>2, OtherCallsKeep
  <1>3. CASE ClearNormal(t) \/ ClearUrgent(t)
    BY <1>3, ClearQueueKeeps
  <1>4. CASE CountReceived(t)
    BY <1>4, CountReceivedKeeps
  <1>5. CASE Enqueue(t)
    BY <1>5, EnqueueKeeps
  <1>6. CASE DropOldest(t)
    BY <1>6, DropOldestKeeps
  <1>7. CASE CountDropped(t)
    BY <1>7, CountDroppedKeeps
  <1>8. CASE SchedulerStep
    BY <1>8, LoopKeeps, CollectKeeps, CountBatchKeeps DEF SchedulerStep
  <1> QED  BY <1>1, <1>2, <1>3, <1>4, <1>5, <1>6, <1>7, <1>8 DEF BatchCall, BatchStep

(* What EventsConserved says follows.                                      *)
LEMMA BatchAgrees ==
    ASSUME BatchIInv
    PROVE  EventsConserved
  <1> DEFINE waiting == queues["urgent"] \o queues["normal"]
             places == InBatches \o waiting
             B == ToSet(InBatches)
             U == ToSet(queues["urgent"])
             N == ToSet(queues["normal"])
  <1>1. /\ Priority = {"urgent", "normal"}
        /\ queues["urgent"] \in Seq(Nat) /\ queues["normal"] \in Seq(Nat)
    BY DEF Priority, BatchIInv, BatchTypeOK
  <1>2. InBatches \in Seq(Nat)
    <2>1. batched \in Seq(Seq(Nat)) /\ <<>> \in Seq(Nat)
      BY DEF BatchIInv, BatchTypeOK
    <2> QED  BY <2>1, FlatIsSeq DEF InBatches
  <1>3. /\ U \cap N = {} /\ U \cap (B \cup removed) = {} /\ N \cap (B \cup removed) = {}
        /\ IsInjective(queues["urgent"]) /\ IsInjective(queues["normal"]) /\ IsInjective(InBatches)
        /\ B \cap removed = {}
        /\ \A e : e \in 1 .. entered <=> e \in B \/ e \in removed \/ e \in U \/ e \in N
    BY <1>1 DEF BatchIInv, Placed
  <1>4. waiting \in Seq(Nat) /\ ToSet(waiting) = U \cup N /\ IsInjective(waiting)
    BY <1>1, <1>3, SetOfConcat
  <1> HIDE DEF waiting, U, N, B
  <1>5. ToSet(places) = B \cup U \cup N /\ IsInjective(places)
    <2>1. B \cap ToSet(waiting) = {}
      BY <1>3, <1>4
    <2>2. /\ ToSet(places) = ToSet(InBatches) \cup ToSet(waiting)
          /\ IsInjective(places) <=>
                IsInjective(InBatches) /\ IsInjective(waiting) /\ ToSet(InBatches) \cap ToSet(waiting) = {}
      BY <1>2, <1>4, SetOfConcat
    <2> QED  BY <1>3, <1>4, <2>1, <2>2 DEF B
  <1> HIDE DEF places
  <1>6. ToSet(places) \cup removed = 1 .. entered /\ ToSet(places) \cap removed = {}
    BY <1>3, <1>5
  <1>7. \A q \in Priority : Len(queues[q]) <= QueueSize(q)
    BY DEF BatchIInv, QueueBounds
  <1>8. ASSUME Quiet
        PROVE  received = entered /\ lostCount <= Cardinality(removed) /\ batches = Len(batched)
    <2>1. \A t \in Threads : pc[t] = "idle"
      BY <1>8 DEF Quiet, Idle
    <2>2. Late = {} /\ Dropping = {}
      BY <2>1 DEF Late, Dropping
    <2>3. pc[Scheduler] # "countBatch"
      BY <2>1, BatchAssumption
    <2>4. Cardinality(Late) = 0 /\ Cardinality(Dropping) = 0
      BY <2>2, FS_EmptySet
    <2>5. received \in Nat /\ entered \in Nat /\ lostCount \in Nat /\ batches \in Nat
      BY DEF BatchIInv, BatchTypeOK
    <2> QED  BY <2>3, <2>4, <2>5 DEF BatchIInv, BatchCounts
  <1> QED  BY <1>5, <1>6, <1>7, <1>8 DEF EventsConserved, places, waiting

-----------------------------------------------------------------------------
(***************************************************************************)
(* The synchronizer.  Its data does not need the locks: what a thread has  *)
(* found stays true until it uses it, unless an event is added twice.      *)
(***************************************************************************)
(* What is mapped is no more than it was, and as much if nothing meets.    *)
LEMMA MappedSet ==
    ASSUME NEW S, IsFiniteSet(S), NEW f, f = [x \in S |-> f[x]]
    PROVE  LET T == {f[x] : x \in S}
           IN  /\ IsFiniteSet(T) /\ Cardinality(T) \in Nat /\ Cardinality(S) \in Nat
               /\ Cardinality(T) <= Cardinality(S)
               /\ (\A x, y \in S : f[x] = f[y] => x = y) => Cardinality(T) = Cardinality(S)
  <1> DEFINE T == {f[x] : x \in S}
  <1>1. f \in Surjection(S, T)
    BY DEF Surjection
  <1>2. /\ IsFiniteSet(T) /\ Cardinality(T) <= Cardinality(S)
        /\ Cardinality(T) = Cardinality(S) <=> f \in Injection(S, T)
    BY <1>1, FS_Surjection
  <1>3. f \in [S -> T]
    BY <1>1 DEF Surjection
  <1>4. (\A x, y \in S : f[x] = f[y] => x = y) => f \in Injection(S, T)
    BY <1>3 DEF Injection, IsInjective
  <1> QED  BY <1>2, <1>4, FS_CardinalityType

(* Fewer than n others are above each of the n highest.                    *)
LEMMA HighestFew ==
    ASSUME NEW S \in SUBSET Nat, IsFiniteSet(S), NEW n \in Nat,
           NEW K, K = {s \in S : Cardinality({r \in S : r > s}) < n}
    PROVE  IsFiniteSet(K) /\ Cardinality(K) \in Nat /\ Cardinality(K) <= n
  <1>1. IsFiniteSet(K) /\ Cardinality(K) \in Nat
    BY FS_Subset, FS_CardinalityType
  <1>2. CASE K = {}
    <2>1. Cardinality(K) = 0
      BY <1>2, FS_EmptySet
    <2> QED  BY <1>1, <2>1
  <1>3. CASE K # {}
    <2>0. K \in SUBSET S
      OBVIOUS
    <2>1. PICK m \in K : \A y \in K : m <= y
      BY <1>3, LeastNumber
    <2> DEFINE A == {r \in S : r > m}
    <2>2. IsFiniteSet(A) /\ Cardinality(A) \in Nat /\ Cardinality(A) < n
      <3>1. A \in SUBSET S
        OBVIOUS
      <3>2. IsFiniteSet(A) /\ Cardinality(A) \in Nat
        BY <3>1, FS_Subset, FS_CardinalityType
      <3> QED  BY <2>1, <3>2
    <2>3. K \ {m} \in SUBSET A
      <3> SUFFICES ASSUME NEW y \in K, y # m
                   PROVE  y \in S /\ y > m
        OBVIOUS
      <3>1. y \in Nat /\ m \in Nat /\ y \in S /\ m <= y
        BY <2>0, <2>1
      <3> QED  BY <3>1
    <2> HIDE DEF A
    <2>4. Cardinality(K \ {m}) <= Cardinality(A)
      BY <2>2, <2>3, FS_Subset
    <2>5. Cardinality(K \ {m}) = Cardinality(K) - 1
      BY <1>1, <2>1, FS_RemoveElement
    <2> QED  BY <1>1, <2>2, <2>4, <2>5
  <1> QED  BY <1>2, <1>3

-----------------------------------------------------------------------------
IdOf(t) == adding[t].event.id
At(place) == {t \in Threads : pc[t] = place}

ChainTypeOK ==
    /\ DOMAIN pc = Threads /\ DOMAIN adding = Threads
    /\ \A t \in Threads :
          /\ adding[t] = [event |-> adding[t].event, status |-> adding[t].status]
          /\ pc[t] \in {"status", "insertId", "insertTime"} => adding[t].event \in ChainEvents
    /\ IsFiniteSet(byTime)
    /\ \A x \in byTime : /\ x = [event |-> x.event, status |-> x.status, copy |-> x.copy]
                         /\ x.event \in ChainEvents
    /\ eventCount \in Nat

(* The ids are those of the events, and of the events on their way.        *)
IdsExact ==
    /\ \A t \in Threads : pc[t] \in {"status", "insertId"} => IdOf(t) \notin byId
    /\ \A t, u \in Threads :
          t # u /\ pc[t] \in {"status", "insertId"} /\ pc[u] \in {"status", "insertId"} =>
              IdOf(t) # IdOf(u)
    /\ \A t \in Threads :
          pc[t] = "insertTime" => IdOf(t) \in byId /\ \A x \in byTime : x.event.id # IdOf(t)
    /\ \A t, u \in Threads :
          t # u /\ pc[t] = "insertTime" /\ pc[u] = "insertTime" => IdOf(t) # IdOf(u)
    /\ \A i : i \in byId <=> \/ \E x \in byTime : x.event.id = i
                             \/ \E t \in Threads : pc[t] = "insertTime" /\ IdOf(t) = i
    /\ \A x, y \in byTime : x.event.id = y.event.id => x = y

(* Every event is counted, soon; when there are too many, someone is going *)
(* to prune them.                                                          *)
EventsBounded ==
    /\ Cardinality(byTime) <= eventCount + Cardinality(At("count"))
    /\ eventCount > MaxEventsKept =>
          \/ Cardinality(Times(byTime)) <= MaxEventsKept
          \/ \E t \in Threads : pc[t] \in {"count", "prune", "pruneIds"}

ChainIInv == ChainTypeOK /\ (~ doubled => IdsExact) /\ EventsBounded

ChainCall(t) == AddEvent(t) \/ UpdateWatermark(t) \/ StatsByTime(t) \/ ChainStep(t)

(* All that is counted is finite, and there are no more times than events. *)
LEMMA ChainFacts ==
    ASSUME ChainIInv
    PROVE  /\ Cardinality(byTime) \in Nat /\ eventCount \in Nat /\ MaxEventsKept \in Nat
           /\ Times(byTime) \in SUBSET Nat /\ IsFiniteSet(Times(byTime))
           /\ Cardinality(Times(byTime)) \in Nat
           /\ Cardinality(Times(byTime)) <= Cardinality(byTime)
           /\ IsFiniteSet(At("count")) /\ Cardinality(At("count")) \in Nat
  <1>1. IsFiniteSet(byTime) /\ eventCount \in Nat /\ \A x \in byTime : x.event \in ChainEvents
    BY DEF ChainIInv, ChainTypeOK
  <1>2. Cardinality(byTime) \in Nat
    BY <1>1, FS_CardinalityType
  <1>3. Times(byTime) \in SUBSET Nat
    BY <1>1, SynchronizerAssumption DEF Times
  <1>4. /\ IsFiniteSet(Times(byTime)) /\ Cardinality(Times(byTime)) \in Nat
        /\ Cardinality(Times(byTime)) <= Cardinality(byTime)
    <2> DEFINE f == [x \in byTime |-> x.event.time]
    <2>1. {f[x] : x \in byTime} = Times(byTime)
      BY DEF Times
    <2>2. f = [x \in byTime |-> f[x]]
      OBVIOUS
    <2> HIDE DEF f
    <2> QED  BY <1>1, <2>1, <2>2, MappedSet
  <1>5. IsFiniteSet(At("count")) /\ Cardinality(At("count")) \in Nat
    <2>1. At("count") \in SUBSET Threads /\ IsFiniteSet(Threads)
      BY SynchronizerAssumption DEF At
    <2> QED  BY <2>1, FS_Subset, FS_CardinalityType
  <1> QED  BY <1>1, <1>2, <1>3, <1>4, <1>5, SynchronizerAssumption

(* A step that leaves the events alone.                                    *)
LEMMA ChainAside ==
    ASSUME ChainIInv, NEW t \in Threads,
           DOMAIN pc' = Threads, \A u \in Threads \ {t} : pc'[u] = pc[u],
           pc[t] \notin {"status", "insertId", "insertTime", "count", "prune", "pruneIds"},
           pc'[t] \notin {"status", "insertId", "insertTime", "count", "prune", "pruneIds"},
           UNCHANGED <<byTime, byId, eventCount, adding, doubled>>
    PROVE  ChainIInv'
  <1>1. ChainTypeOK'
    BY DEF ChainIInv, ChainTypeOK
  <1>2. \A u \in Threads : IdOf(u)' = IdOf(u)
    BY DEF IdOf
  <1>3. ~ doubled => IdsExact'
    BY <1>2 DEF ChainIInv, IdsExact
  <1>4. At("count")' = At("count")
    BY DEF At
  <1>5. EventsBounded'
    BY <1>4 DEF ChainIInv, EventsBounded, Times
  <1> QED  BY <1>1, <1>3, <1>5 DEF ChainIInv

(* A step moves one thread.                                                *)
LEMMA ChainGoes ==
    ASSUME ChainIInv, NEW t \in Threads, NEW from, NEW to, Goto(t, from, to)
    PROVE  /\ pc[t] = from /\ pc'[t] = to /\ DOMAIN pc' = Threads
           /\ \A u \in Threads \ {t} : pc'[u] = pc[u]
  BY DEF ChainIInv, ChainTypeOK, Goto

(* Watermarks and statistics leave the events alone.                       *)
LEMMA AsideKeeps ==
    ASSUME ChainIInv, NEW t \in Threads,
           UpdateWatermark(t) \/ LockEvents(t) \/ StatsByTime(t) \/ StatsById(t) \/ StatsMarks(t)
    PROVE  ChainIInv'
  <1>1. PICK from \in {"idle", "refresh", "statsIds", "statsMarks"},
             to \in {"idle", "refresh", "refreshEach", "statsIds", "statsMarks"} : Goto(t, from, to)
    BY DEF UpdateWatermark, LockEvents, StatsByTime, StatsById, StatsMarks, CallChain
  <1>2. UNCHANGED <<byTime, byId, eventCount, adding, doubled>>
    BY DEF UpdateWatermark, LockEvents, StatsByTime, StatsById, StatsMarks, chainVars
  <1> QED  BY <1>1, <1>2, ChainGoes, ChainAside

(* An event is taken that is not there, and that nobody else is adding     *)
(* unless it is doubled.                                                   *)
LEMMA AddEventKeeps ==
    ASSUME ChainIInv, NEW t \in Threads, AddEvent(t)
    PROVE  ChainIInv'
  <1>1. Goto(t, "idle", "status") /\ UNCHANGED <<byTime, byId, eventCount>>
    BY DEF AddEvent, CallChain
  <1>2. PICK e \in ChainEvents :
           /\ e.id \notin byId
           /\ adding' = [adding EXCEPT ![t] = [event |-> e, status |-> 0]]
           /\ doubled' = (doubled \/ \E u \in Threads \ {t} :
                             pc[u] \in {"status", "insertId"} /\ adding[u].event.id = e.id)
    BY DEF AddEvent
  <1>3. /\ pc[t] = "idle" /\ pc'[t] = "status" /\ DOMAIN pc' = Threads
        /\ \A u \in Threads \ {t} : pc'[u] = pc[u]
    BY <1>1, ChainGoes
  <1>4. /\ DOMAIN adding' = Threads /\ adding'[t] = [event |-> e, status |-> 0]
        /\ \A u \in Threads \ {t} : adding'[u] = adding[u]
    BY <1>2 DEF ChainIInv, ChainTypeOK
  <1>5. ChainTypeOK'
    BY <1>1, <1>3, <1>4 DEF ChainIInv, ChainTypeOK
  <1>6. IdOf(t)' = e.id /\ \A u \in Threads \ {t} : IdOf(u)' = IdOf(u)
    BY <1>4 DEF IdOf
  <1>7. ASSUME ~ doubled'
        PROVE  IdsExact'
    <2>1. ~ doubled
      BY <1>2, <1>7
    <2>2. IdsExact
      BY <2>1 DEF ChainIInv
    <2>3. \A u \in Threads \ {t} : pc[u] \in {"status", "insertId"} => IdOf(u) # e.id
      <3>1. ~ \E u \in Threads \ {t} : pc[u] \in {"status", "insertId"} /\ adding[u].event.id = e.id
        BY <1>2, <1>7
      <3> QED  BY <3>1 DEF IdOf
    <2>4. \A u \in Threads : pc'[u] \in {"status", "insertId"} => IdOf(u)' \notin byId
      BY <1>2, <1>3, <1>6, <2>2 DEF IdsExact
    <2>5. \A u, v \in Threads :
             u # v /\ pc'[u] \in {"status", "insertId"} /\ pc'[v] \in {"status", "insertId"} =>
                 IdOf(u)' # IdOf(v)'
      BY <1>3, <1>6, <2>2, <2>3 DEF IdsExact
    <2>6. \A u \in Threads : pc'[u] = "insertTime" <=> pc[u] = "insertTime"
      BY <1>3
    <2>7. \A u \in Threads : pc[u] = "insertTime" => IdOf(u)' = IdOf(u)
      BY <1>3, <1>6
    <2> QED  BY <1>1, <2>2, <2>4, <2>5, <2>6, <2>7 DEF IdsExact
  <1>8. At("count")' = At("count")
    BY <1>3 DEF At
  <1>9. EventsBounded'
    BY <1>1, <1>3, <1>8 DEF ChainIInv, EventsBounded, Times
  <1> QED  BY <1>5, <1>7, <1>9 DEF ChainIInv

(* The status of an event does not matter for its id.                      *)
LEMMA TakeStatusKeeps ==
    ASSUME ChainIInv, NEW t \in Threads, TakeStatus(t)
    PROVE  ChainIInv'
  <1>1. /\ Goto(t, "status", "insertId") /\ UNCHANGED <<byTime, byId, eventCount, doubled>>
        /\ adding' = [adding EXCEPT ![t].status = StatusOf(adding[t].event)]
    BY DEF TakeStatus
  <1>2. /\ pc[t] = "status" /\ pc'[t] = "insertId" /\ DOMAIN pc' = Threads
        /\ \A u \in Threads \ {t} : pc'[u] = pc[u]
    BY <1>1, ChainGoes
  <1>3. PICK status : status = StatusOf(adding[t].event)
    OBVIOUS
  <1>4. /\ DOMAIN adding' = Threads /\ adding'[t] = [event |-> adding[t].event, status |-> status]
        /\ \A u \in Threads \ {t} : adding'[u] = adding[u]
    <2>1. adding' = [adding EXCEPT ![t] = [adding[t] EXCEPT !.status = status]]
      BY <1>1, <1>3
    <2>2. adding[t] = [event |-> adding[t].event, status |-> adding[t].status] /\ DOMAIN adding = Threads
      BY DEF ChainIInv, ChainTypeOK
    <2>3. \A a, b, c : [[event |-> a, status |-> b] EXCEPT !.status = c] = [event |-> a, status |-> c]
      OBVIOUS
    <2>4. [adding[t] EXCEPT !.status = status] = [event |-> adding[t].event, status |-> status]
      BY <2>2, <2>3
    <2>5. adding'[t] = [adding[t] EXCEPT !.status = status]
      BY <2>1, <2>2
    <2> QED  BY <2>1, <2>2, <2>4, <2>5
  <1>5. adding'[t].event = adding[t].event
    BY <1>4
  <1>6. ChainTypeOK'
    BY <1>1, <1>2, <1>4, <1>5 DEF ChainIInv, ChainTypeOK
  <1>7. \A u \in Threads : IdOf(u)' = IdOf(u)
    BY <1>4, <1>5 DEF IdOf
  <1>8. \A u \in Threads :
           /\ pc'[u] \in {"status", "insertId"} <=> pc[u] \in {"status", "insertId"}
           /\ pc'[u] = "insertTime" <=> pc[u] = "insertTime"
    BY <1>2
  <1>9. ~ doubled => IdsExact'
    BY <1>1, <1>7, <1>8 DEF ChainIInv, IdsExact
  <1>10. At("count")' = At("count")
    BY <1>2 DEF At
  <1>11. EventsBounded'
    BY <1>1, <1>2, <1>10 DEF ChainIInv, EventsBounded, Times
  <1> QED  BY <1>1, <1>6, <1>9, <1>11 DEF ChainIInv

(* The id is inserted that nobody else is adding.                          *)
LEMMA InsertIdKeeps ==
    ASSUME ChainIInv, NEW t \in Threads, InsertId(t)
    PROVE  ChainIInv'
  <1>1. /\ Goto(t, "insertId", "insertTime") /\ UNCHANGED <<byTime, eventCount, adding, doubled>>
        /\ byId' = byId \cup {IdOf(t)}
    BY DEF InsertId, IdOf
  <1>2. /\ pc[t] = "insertId" /\ pc'[t] = "insertTime" /\ DOMAIN pc' = Threads
        /\ \A u \in Threads \ {t} : pc'[u] = pc[u]
    BY <1>1, ChainGoes
  <1>3. ChainTypeOK'
    BY <1>1, <1>2 DEF ChainIInv, ChainTypeOK
  <1>4. \A u \in Threads : IdOf(u)' = IdOf(u)
    BY <1>1 DEF IdOf
  <1>5. ASSUME ~ doubled
        PROVE  IdsExact'
    <2>1. IdsExact
      BY <1>5 DEF ChainIInv
    <2>2. \A u \in Threads : pc'[u] \in {"status", "insertId"} =>
                                u # t /\ pc[u] \in {"status", "insertId"} /\ IdOf(u) # IdOf(t)
      BY <1>2, <2>1 DEF IdsExact
    <2>3. \A u \in Threads : pc'[u] \in {"status", "insertId"} => IdOf(u) \notin byId'
      BY <1>1, <2>1, <2>2 DEF IdsExact
    <2>4. IdOf(t) \notin byId
      BY <1>2, <2>1 DEF IdsExact
    <2>5. \A x \in byTime : x.event.id # IdOf(t)
      BY <2>1, <2>4 DEF IdsExact
    <2>6. \A u \in Threads \ {t} : pc'[u] = "insertTime" =>
                                      pc[u] = "insertTime" /\ IdOf(u) \in byId /\ IdOf(u) # IdOf(t)
      BY <1>2, <2>1, <2>4 DEF IdsExact
    <2>7. \A u \in Threads :
             pc'[u] = "insertTime" => IdOf(u) \in byId' /\ \A x \in byTime : x.event.id # IdOf(u)
      BY <1>1, <2>1, <2>5, <2>6 DEF IdsExact
    <2>8. \A u, v \in Threads :
             u # v /\ pc'[u] = "insertTime" /\ pc'[v] = "insertTime" => IdOf(u) # IdOf(v)
      BY <2>1, <2>6 DEF IdsExact
    <2>9. \A i : i \in byId' <=> \/ \E x \in byTime : x.event.id = i
                                 \/ \E u \in Threads : pc'[u] = "insertTime" /\ IdOf(u) = i
      BY <1>1, <1>2, <2>1, <2>6 DEF IdsExact
    <2>10. \A u, v \in Threads :
              u # v /\ pc'[u] \in {"status", "insertId"} /\ pc'[v] \in {"status", "insertId"} =>
                  IdOf(u) # IdOf(v)
      BY <2>1, <2>2 DEF IdsExact
    <2> QED  BY <1>1, <1>4, <2>1, <2>3, <2>7, <2>8, <2>9, <2>10 DEF IdsExact
  <1>6. At("count")' = At("count")
    BY <1>2 DEF At
  <1>7. EventsBounded'
    BY <1>1, <1>2, <1>6 DEF ChainIInv, EventsBounded, Times
  <1> QED  BY <1>1, <1>3, <1>5, <1>7 DEF ChainIInv

(* The event follows its id, and is going to be counted.                   *)
LEMMA InsertTimeKeeps ==
    ASSUME ChainIInv, NEW t \in Threads, InsertTime(t)
    PROVE  ChainIInv'
  <1>1. PICK n : /\ n = [event |-> adding[t].event, status |-> adding[t].status,
                         copy |-> Cardinality({x \in byTime : x.event = adding[t].event})]
                 /\ Goto(t, "insertTime", "count") /\ byTime' = byTime \cup {n}
                 /\ UNCHANGED <<byId, eventCount, adding, doubled>>
    BY DEF InsertTime
  <1>2. /\ pc[t] = "insertTime" /\ pc'[t] = "count" /\ DOMAIN pc' = Threads
        /\ \A u \in Threads \ {t} : pc'[u] = pc[u]
    BY <1>1, ChainGoes
  <1>3. /\ n = [event |-> n.event, status |-> n.status, copy |-> n.copy]
        /\ n.event \in ChainEvents /\ n.event.id = IdOf(t)
    BY <1>1, <1>2 DEF ChainIInv, ChainTypeOK, IdOf
  <1>4. /\ IsFiniteSet(byTime') /\ Cardinality(byTime') \in Nat
        /\ Cardinality(byTime') <= Cardinality(byTime) + 1
    <2>1. IsFiniteSet(byTime) /\ Cardinality(byTime) \in Nat
      BY ChainFacts DEF ChainIInv, ChainTypeOK
    <2>2. CASE n \in byTime
      <3>1. byTime' = byTime
        BY <1>1, <2>2
      <3> QED  BY <2>1, <3>1
    <2>3. CASE n \notin byTime
      <3>1. byTime' = byTime \cup {n}
        BY <1>1
      <3>2. /\ IsFiniteSet(byTime \cup {n})
            /\ Cardinality(byTime \cup {n}) = Cardinality(byTime) + 1
        BY <2>1, <2>3, FS_AddElement
      <3> QED  BY <2>1, <3>1, <3>2
    <2> QED  BY <2>2, <2>3
  <1>5. ChainTypeOK'
    BY <1>1, <1>2, <1>3, <1>4 DEF ChainIInv, ChainTypeOK
  <1>6. \A u \in Threads : IdOf(u)' = IdOf(u)
    BY <1>1 DEF IdOf
  <1>7. ASSUME ~ doubled
        PROVE  IdsExact'
    <2>1. IdsExact
      BY <1>7 DEF ChainIInv
    <2>2. IdOf(t) \in byId /\ \A x \in byTime : x.event.id # IdOf(t)
      BY <1>2, <2>1 DEF IdsExact
    <2>3. \A u \in Threads : pc'[u] = "insertTime" => u # t /\ pc[u] = "insertTime" /\ IdOf(u) # IdOf(t)
      BY <1>2, <2>1 DEF IdsExact
    <2>4. \A u \in Threads :
             pc'[u] = "insertTime" => IdOf(u) \in byId /\ \A x \in byTime' : x.event.id # IdOf(u)
      BY <1>1, <1>3, <2>1, <2>3 DEF IdsExact
    <2>5. \A i : i \in byId <=> \/ \E x \in byTime' : x.event.id = i
                                \/ \E u \in Threads : pc'[u] = "insertTime" /\ IdOf(u) = i
      <3> TAKE i
      <3>1. i \in byId <=> \/ \E x \in byTime : x.event.id = i
                           \/ \E u \in Threads : pc[u] = "insertTime" /\ IdOf(u) = i
        BY <2>1 DEF IdsExact
      <3>2. (\E x \in byTime' : x.event.id = i) <=> i = IdOf(t) \/ \E x \in byTime : x.event.id = i
        BY <1>1, <1>3
      <3>3. (\E u \in Threads : pc[u] = "insertTime" /\ IdOf(u) = i) <=>
               \/ i = IdOf(t)
               \/ \E u \in Threads : pc'[u] = "insertTime" /\ IdOf(u) = i
        BY <1>2
      <3> QED  BY <3>1, <3>2, <3>3
    <2>6. \A x, y \in byTime' : x.event.id = y.event.id => x = y
      BY <1>1, <1>3, <2>1, <2>2 DEF IdsExact
    <2>7. \A u \in Threads : pc'[u] \in {"status", "insertId"} <=> pc[u] \in {"status", "insertId"}
      BY <1>2
    <2> QED  BY <1>1, <1>6, <2>1, <2>3, <2>4, <2>5, <2>6, <2>7 DEF IdsExact
  <1>8. At("count")' = At("count") \cup {t} /\ t \notin At("count")
    BY <1>2 DEF At
  <1>9. Cardinality(At("count")') = Cardinality(At("count")) + 1
    BY <1>8, ChainFacts, FS_AddElement
  <1>10. EventsBounded'
    <2>1. /\ Cardinality(byTime) \in Nat /\ eventCount \in Nat /\ Cardinality(At("count")) \in Nat
          /\ Cardinality(byTime) <= eventCount + Cardinality(At("count"))
      BY ChainFacts DEF ChainIInv, EventsBounded
    <2>2. Cardinality(byTime') <= eventCount' + Cardinality(At("count")')
      BY <1>1, <1>4, <1>9, <2>1
    <2> QED  BY <1>2, <2>2 DEF EventsBounded
  <1> QED  BY <1>1, <1>5, <1>7, <1>10 DEF ChainIInv

(* Whoever counts the first event too many prunes.                         *)
LEMMA CountEventKeeps ==
    ASSUME ChainIInv, NEW t \in Threads, CountEventAdded(t)
    PROVE  ChainIInv'
  <1>1. /\ Goto(t, "count", IF MustPrune THEN "prune" ELSE "idle")
        /\ eventCount' = eventCount + 1 /\ UNCHANGED <<byTime, byId, adding, doubled>>
    BY DEF CountEventAdded
  <1>2. /\ pc[t] = "count" /\ pc'[t] = (IF MustPrune THEN "prune" ELSE "idle")
        /\ DOMAIN pc' = Threads /\ \A u \in Threads \ {t} : pc'[u] = pc[u]
    BY <1>1, ChainGoes
  <1>3. ChainTypeOK'
    BY <1>1, <1>2 DEF ChainIInv, ChainTypeOK
  <1>4. \A u \in Threads : IdOf(u)' = IdOf(u)
    BY <1>1 DEF IdOf
  <1>5. \A u \in Threads :
           /\ pc'[u] \in {"status", "insertId"} <=> pc[u] \in {"status", "insertId"}
           /\ pc'[u] = "insertTime" <=> pc[u] = "insertTime"
    BY <1>2
  <1>6. ~ doubled => IdsExact'
    BY <1>1, <1>4, <1>5 DEF ChainIInv, IdsExact
  <1>7. At("count")' = At("count") \ {t} /\ t \in At("count")
    BY <1>2 DEF At
  <1>8. Cardinality(At("count")') = Cardinality(At("count")) - 1
    BY <1>7, ChainFacts, FS_RemoveElement
  <1>9. EventsBounded'
    <2>1. /\ Cardinality(byTime) \in Nat /\ eventCount \in Nat /\ Cardinality(At("count")) \in Nat
          /\ Cardinality(byTime) <= eventCount + Cardinality(At("count")) /\ MaxEventsKept \in Nat
      BY ChainFacts DEF ChainIInv, EventsBounded
    <2>2. Cardinality(byTime') <= eventCount' + Cardinality(At("count")')
      BY <1>1, <1>8, <2>1
    <2>3. eventCount' > MaxEventsKept => pc'[t] = "prune"
      BY <1>1, <1>2, <2>1 DEF MustPrune
    <2> QED  BY <2>2, <2>3 DEF EventsBounded
  <1> QED  BY <1>1, <1>3, <1>6, <1>9 DEF ChainIInv

(* Taking the lock changes no data.                                        *)
LEMMA PruneKeeps ==
    ASSUME ChainIInv, NEW t \in Threads, Prune(t)
    PROVE  ChainIInv'
  <1>1. Goto(t, "prune", "pruneIds") /\ UNCHANGED <<byTime, byId, eventCount, adding, doubled>>
    BY DEF Prune, chainVars
  <1>2. /\ pc[t] = "prune" /\ pc'[t] = "pruneIds" /\ DOMAIN pc' = Threads
        /\ \A u \in Threads \ {t} : pc'[u] = pc[u]
    BY <1>1, ChainGoes
  <1>3. ChainTypeOK'
    BY <1>1, <1>2 DEF ChainIInv, ChainTypeOK
  <1>4. \A u \in Threads : IdOf(u)' = IdOf(u)
    BY <1>1 DEF IdOf
  <1>5. \A u \in Threads :
           /\ pc'[u] \in {"status", "insertId"} <=> pc[u] \in {"status", "insertId"}
           /\ pc'[u] = "insertTime" <=> pc[u] = "insertTime"
    BY <1>2
  <1>6. ~ doubled => IdsExact'
    BY <1>1, <1>4, <1>5 DEF ChainIInv, IdsExact
  <1>7. At("count")' = At("count")
    BY <1>2 DEF At
  <1>8. EventsBounded'
    BY <1>1, <1>2, <1>7 DEF ChainIInv, EventsBounded, Times
  <1> QED  BY <1>1, <1>3, <1>6, <1>8 DEF ChainIInv

(* The ids of the pruned events go, and no other.                          *)
LEMMA PruneIdsKeeps ==
    ASSUME ChainIInv, NEW t \in Threads, PruneIds(t)
    PROVE  ChainIInv'
  <1>1. /\ Goto(t, "pruneIds", "idle") /\ byTime' = Kept /\ byId' = IdsLeft
        /\ UNCHANGED <<eventCount, adding, doubled>>
    BY DEF PruneIds
  <1>2. /\ pc[t] = "pruneIds" /\ pc'[t] = "idle" /\ DOMAIN pc' = Threads
        /\ \A u \in Threads \ {t} : pc'[u] = pc[u]
    BY <1>1, ChainGoes
  <1>3. byTime' \in SUBSET byTime
    BY <1>1 DEF Kept
  <1>4. /\ IsFiniteSet(byTime') /\ Cardinality(byTime') \in Nat
        /\ Cardinality(byTime') <= Cardinality(byTime)
    <2>1. IsFiniteSet(byTime)
      BY DEF ChainIInv, ChainTypeOK
    <2> QED  BY <1>3, <2>1, FS_Subset, FS_CardinalityType
  <1>5. ChainTypeOK'
    BY <1>1, <1>2, <1>3, <1>4 DEF ChainIInv, ChainTypeOK
  <1>6. \A u \in Threads : IdOf(u)' = IdOf(u)
    BY <1>1 DEF IdOf
  <1>7. \A u \in Threads :
           /\ pc'[u] \in {"status", "insertId"} <=> pc[u] \in {"status", "insertId"}
           /\ pc'[u] = "insertTime" <=> pc[u] = "insertTime"
    BY <1>2
  <1>8. ASSUME ~ doubled
        PROVE  IdsExact'
    <2>1. IdsExact
      BY <1>8 DEF ChainIInv
    <2>2. \A i : i \in byId' <=> i \in byId /\ ~ \E x \in byTime \ byTime' : x.event.id = i
      BY <1>1 DEF IdsLeft
    <2>3. \A u \in Threads : pc[u] = "insertTime" => IdOf(u) \in byId'
      BY <2>1, <2>2 DEF IdsExact
    <2>4. \A i : i \in byId' <=> \/ \E x \in byTime' : x.event.id = i
                                 \/ \E u \in Threads : pc[u] = "insertTime" /\ IdOf(u) = i
      <3> TAKE i
      <3>1. i \in byId <=> \/ \E x \in byTime : x.event.id = i
                           \/ \E u \in Threads : pc[u] = "insertTime" /\ IdOf(u) = i
        BY <2>1 DEF IdsExact
      <3>2. (\E x \in byTime' : x.event.id = i) => i \in byId'
        BY <1>3, <2>1, <2>2, <3>1 DEF IdsExact
      <3> QED  BY <1>3, <2>2, <2>3, <3>1, <3>2
    <2>5. \A u \in Threads : pc[u] \in {"status", "insertId"} => IdOf(u) \notin byId'
      BY <2>1, <2>2 DEF IdsExact
    <2> QED  BY <1>3, <1>6, <1>7, <2>1, <2>3, <2>4, <2>5 DEF IdsExact
  <1>9. At("count")' = At("count")
    BY <1>2 DEF At
  <1>10. Cardinality(Times(byTime')) <= MaxEventsKept
    <2> DEFINE S == Times(byTime)
               n == MaxEventsKept \div 10
               K == {s \in S : Cardinality({r \in S : r > s}) < n}
    <2>1. S \in SUBSET Nat /\ IsFiniteSet(S)
      BY ChainFacts
    <2>2. n \in Nat /\ n <= MaxEventsKept
      BY SynchronizerAssumption
    <2>3. Times(byTime') \in SUBSET K
      <3> SUFFICES ASSUME NEW x \in byTime'
                   PROVE  x.event.time \in K
        BY DEF Times
      <3>1. x \in byTime /\ Cardinality({s \in S : s > x.event.time}) < n
        BY <1>1 DEF Kept
      <3>2. x.event.time \in S
        BY <3>1 DEF Times
      <3> QED  BY <3>1, <3>2
    <2>4. IsFiniteSet(K) /\ Cardinality(K) \in Nat /\ Cardinality(K) <= n
      <3> HIDE DEF S, n
      <3> QED  BY <2>1, <2>2, HighestFew
    <2> HIDE DEF K, n, S
    <2>5. Cardinality(Times(byTime')) <= Cardinality(K) /\ Cardinality(Times(byTime')) \in Nat
      BY <2>3, <2>4, FS_Subset, FS_CardinalityType
    <2> QED  BY <2>2, <2>4, <2>5, SynchronizerAssumption
  <1>11. EventsBounded'
    <2>1. /\ Cardinality(byTime) \in Nat /\ eventCount \in Nat /\ Cardinality(At("count")) \in Nat
          /\ Cardinality(byTime) <= eventCount + Cardinality(At("count"))
      BY ChainFacts DEF ChainIInv, EventsBounded
    <2>2. Cardinality(byTime') <= eventCount' + Cardinality(At("count")')
      BY <1>1, <1>4, <1>9, <2>1
    <2> QED  BY <1>10, <2>2 DEF EventsBounded, Times
  <1> QED  BY <1>1, <1>5, <1>8, <1>11 DEF ChainIInv

(* Other statuses for the same events.                                     *)
LEMMA RefreshKeeps ==
    ASSUME ChainIInv, NEW t \in Threads, RefreshEach(t)
    PROVE  ChainIInv'
  <1> DEFINE f == [x \in byTime |-> [x EXCEPT !.status = StatusOf(x.event)]]
  <1>1. /\ Goto(t, "refreshEach", "idle") /\ byTime' = {f[x] : x \in byTime}
        /\ UNCHANGED <<byId, eventCount, adding, doubled>>
    BY DEF RefreshEach
  <1>2. /\ pc[t] = "refreshEach" /\ pc'[t] = "idle" /\ DOMAIN pc' = Threads
        /\ \A u \in Threads \ {t} : pc'[u] = pc[u]
    BY <1>1, ChainGoes
  <1>3. ASSUME NEW x \in byTime
        PROVE  /\ f[x].event = x.event /\ x.event \in ChainEvents
               /\ f[x] = [event |-> f[x].event, status |-> f[x].status, copy |-> f[x].copy]
    <2>1. x = [event |-> x.event, status |-> x.status, copy |-> x.copy] /\ x.event \in ChainEvents
      BY DEF ChainIInv, ChainTypeOK
    <2>2. PICK status : status = StatusOf(x.event)
      OBVIOUS
    <2>3. \A a, b, c, d : [[event |-> a, status |-> b, copy |-> c] EXCEPT !.status = d] =
                             [event |-> a, status |-> d, copy |-> c]
      OBVIOUS
    <2>4. [x EXCEPT !.status = status] = [event |-> x.event, status |-> status, copy |-> x.copy]
      BY <2>1, <2>3
    <2>5. f[x] = [event |-> x.event, status |-> status, copy |-> x.copy]
      BY <2>2, <2>4
    <2> QED  BY <2>1, <2>5
  <1>4. f = [x \in byTime |-> f[x]]
    OBVIOUS
  <1> HIDE DEF f
  <1>5. /\ \A y \in byTime' : \E x \in byTime : y = f[x]
        /\ \A x \in byTime : f[x] \in byTime'
    BY <1>1
  <1>6. \A y \in byTime' : /\ y = [event |-> y.event, status |-> y.status, copy |-> y.copy]
                           /\ y.event \in ChainEvents /\ \E x \in byTime : y.event = x.event
    <2> SUFFICES ASSUME NEW y \in byTime'
                 PROVE  /\ y = [event |-> y.event, status |-> y.status, copy |-> y.copy]
                        /\ y.event \in ChainEvents /\ \E x \in byTime : y.event = x.event
      OBVIOUS
    <2>1. PICK z \in byTime : y = f[z]
      BY <1>5
    <2> QED  BY <1>3, <2>1
  <1>7. \A x \in byTime : \E y \in byTime' : y.event = x.event
    <2> SUFFICES ASSUME NEW z \in byTime
                 PROVE  \E y \in byTime' : y.event = z.event
      OBVIOUS
    <2>1. f[z] \in byTime' /\ f[z].event = z.event
      BY <1>3, <1>5
    <2> QED  BY <2>1
  <1>8. /\ IsFiniteSet(byTime') /\ Cardinality(byTime') \in Nat
        /\ Cardinality(byTime') <= Cardinality(byTime)
    <2>1. IsFiniteSet(byTime)
      BY DEF ChainIInv, ChainTypeOK
    <2> QED  BY <1>1, <1>4, <2>1, MappedSet
  <1>9. ChainTypeOK'
    BY <1>1, <1>2, <1>8, <1>6 DEF ChainIInv, ChainTypeOK
  <1>10. \A u \in Threads : IdOf(u)' = IdOf(u)
    BY <1>1 DEF IdOf
  <1>11. \A u \in Threads :
           /\ pc'[u] \in {"status", "insertId"} <=> pc[u] \in {"status", "insertId"}
           /\ pc'[u] = "insertTime" <=> pc[u] = "insertTime"
    BY <1>2
  <1>12. \A i : (\E x \in byTime' : x.event.id = i) <=> \E x \in byTime : x.event.id = i
    BY <1>6, <1>7
  <1>13. ASSUME ~ doubled
         PROVE  IdsExact'
    <2>1. IdsExact
      BY <1>13 DEF ChainIInv
    <2>2. \A x, y \in byTime' : x.event.id = y.event.id => x = y
      <3> SUFFICES ASSUME NEW x \in byTime, NEW y \in byTime, f[x].event.id = f[y].event.id
                   PROVE  f[x] = f[y]
        BY <1>1
      <3>1. x.event.id = y.event.id
        BY <1>3
      <3>2. x = y
        BY <2>1, <3>1 DEF IdsExact
      <3> QED  BY <3>2
    <2>3. \A u \in Threads : pc[u] = "insertTime" => \A x \in byTime' : x.event.id # IdOf(u)
      BY <1>12, <2>1 DEF IdsExact
    <2>4. \A i : i \in byId <=> \/ \E x \in byTime' : x.event.id = i
                                \/ \E u \in Threads : pc[u] = "insertTime" /\ IdOf(u) = i
      BY <1>12, <2>1 DEF IdsExact
    <2> QED  BY <1>1, <1>10, <1>11, <2>1, <2>2, <2>3, <2>4 DEF IdsExact
  <1>14. At("count")' = At("count")
    BY <1>2 DEF At
  <1>15. Times(byTime') = Times(byTime)
    BY <1>6, <1>7 DEF Times
  <1>16. EventsBounded'
    <2>1. /\ Cardinality(byTime) \in Nat /\ eventCount \in Nat /\ Cardinality(At("count")) \in Nat
          /\ Cardinality(byTime) <= eventCount + Cardinality(At("count"))
      BY ChainFacts DEF ChainIInv, EventsBounded
    <2>2. Cardinality(byTime') <= eventCount' + Cardinality(At("count")')
      BY <1>1, <1>8, <1>14, <2>1
    <2>3. \A u \in Threads : pc[u] \in {"count", "prune", "pruneIds"} => pc'[u] = pc[u]
      BY <1>2
    <2>4. Times(byTime)' = Times(byTime)
      BY <1>15 DEF Times
    <2> QED  BY <1>1, <2>2, <2>3, <2>4 DEF ChainIInv, EventsBounded
  <1> QED  BY <1>1, <1>9, <1>13, <1>16 DEF ChainIInv

(* Any step of the synchronizer keeps the invariant.                       *)
LEMMA ChainKept ==
    ASSUME ChainIInv, ChainNext
    PROVE  ChainIInv'
  <1>1. PICK t \in Threads : ChainCall(t)
    BY DEF ChainNext, ChainCall
  <1>2. CASE AddEvent(t)
    BY <1>2, AddEventKeeps
  <1>3. CASE TakeStatus(t)
    BY <1>3, TakeStatusKeeps
  <1>4. CASE InsertId(t)
    BY <1>4, InsertIdKeeps
  <1>5. CASE InsertTime(t)
    BY <1>5, InsertTimeKeeps
  <1>6. CASE CountEventAdded(t)
    BY <1>6, CountEventKeeps
  <1>7. CASE Prune(t) \/ PruneIds(t)
    BY <1>7, PruneKeeps, PruneIdsKeeps
  <1>8. CASE RefreshEach(t)
    BY <1>8, RefreshKeeps
  <1>9. CASE UpdateWatermark(t) \/ LockEvents(t) \/ StatsByTime(t) \/ StatsById(t) \/ StatsMarks(t)
    BY <1>9, AsideKeeps
  <1> QED  BY <1>1, <1>2, <1>3, <1>4, <1>5, <1>6, <1>7, <1>8, <1>9 DEF ChainCall, ChainStep

(* When nobody is between inserting and pruning, the maps agree.           *)
LEMMA ChainsAgree ==
    ASSUME ChainIInv
    PROVE  MapsAgree
  <1> SUFFICES ASSUME \A t \in Threads : pc[t] \in {"idle", "status", "insertId"}, ~ doubled
               PROVE  /\ byId = {x.event.id : x \in byTime}
                      /\ Cardinality(byTime) = Cardinality(byId)
                      /\ Cardinality(Times(byTime)) <= MaxEventsKept
    BY DEF MapsAgree
  <1>1. IdsExact
    BY DEF ChainIInv
  <1>2. \A t \in Threads : pc[t] \notin {"insertTime", "count", "prune", "pruneIds"}
    OBVIOUS
  <1>3. byId = {x.event.id : x \in byTime}
    BY <1>1, <1>2 DEF IdsExact
  <1>4. Cardinality(byTime) = Cardinality(byId)
    <2> DEFINE f == [x \in byTime |-> x.event.id]
    <2>1. f = [x \in byTime |-> f[x]] /\ byId = {f[x] : x \in byTime}
      BY <1>3
    <2>2. \A x, y \in byTime : f[x] = f[y] => x = y
      BY <1>1 DEF IdsExact
    <2>3. IsFiniteSet(byTime)
      BY DEF ChainIInv, ChainTypeOK
    <2> HIDE DEF f
    <2>4. Cardinality({f[x] : x \in byTime}) = Cardinality(byTime)
      BY <2>1, <2>2, <2>3, MappedSet
    <2> QED  BY <2>1, <2>4
  <1>5. Cardinality(Times(byTime)) <= MaxEventsKept
    <2>1. Cardinality(At("count")) = 0
      <3>1. At("count") = {}
        BY <1>2 DEF At
      <3> QED  BY <3>1, FS_EmptySet
    <2>2. /\ Cardinality(byTime) \in Nat /\ eventCount \in Nat /\ MaxEventsKept \in Nat
          /\ Cardinality(Times(byTime)) \in Nat /\ Cardinality(Times(byTime)) <= Cardinality(byTime)
      BY ChainFacts
    <2>3. Cardinality(byTime) <= eventCount
      BY <2>1, <2>2 DEF ChainIInv, EventsBounded
    <2>4. CASE eventCount > MaxEventsKept
      BY <1>2, <2>4 DEF ChainIInv, EventsBounded
    <2>5. CASE ~ (eventCount > MaxEventsKept)
      BY <2>2, <2>3, <2>5
    <2> QED  BY <2>4, <2>5
  <1> QED  BY <1>3, <1>4, <1>5

-----------------------------------------------------------------------------
(***************************************************************************)
(* The composition.                                                        *)
(***************************************************************************)
(* The structures nobody is at work on stay as they were made.             *)
SwapperUntouched == newest = 0
CacheUntouched == index = [k \in Keys |-> 0] /\ slots = [i \in Slots |-> {}]
BatchesUntouched ==
    /\ queues = [q \in Priority |-> <<>>] /\ batched = <<>> /\ removed = {} /\ entered = 0
    /\ received = 0 /\ lostCount = 0 /\ batches = 0
ChainsUntouched == byTime = {} /\ byId = {}

SwapperPart == IF structure = "swapper" THEN SwapIInv ELSE SwapperUntouched
CachePart == IF structure = "cache" THEN CacheIInv /\ CacheOrder ELSE CacheUntouched
BatchesPart == IF structure = "batches" THEN BatchIInv ELSE BatchesUntouched
ChainsPart == IF structure = "chains" THEN ChainIInv ELSE ChainsUntouched

(* A step of the composition keeps the swapper.                            *)
LEMMA SwapperPartKept ==
    ASSUME SwapperPart, [LockedNext]_lockedVars
    PROVE  SwapperPart'
  <1>1. CASE structure = "swapper" /\ LockedNext
    <2>1. SwapperNext /\ structure' = structure /\ SwapIInv
      BY <1>1 DEF LockedNext, AtSwapper, AtCache, AtBatches, AtChains, SwapperPart
    <2> QED  BY <1>1, <2>1, SwapperKept DEF SwapperPart
  <1>2. CASE structure = "swapper" /\ UNCHANGED lockedVars
    <2>1. UNCHANGED <<pc, held, structure, active, previous, mine, base, newest, raced>> /\ SwapIInv
      BY <1>2 DEF lockedVars, swapperVars, swapHistory, SwapperPart
    <2> QED  BY <1>2, <2>1
             DEF SwapperPart, SwapIInv, GuardsOK, SwapTypeOK, SwapLocks, SwapPlans, SwapServes, Putting,
                 Latest
  <1>3. CASE structure # "swapper"
    <2>1. structure' = structure /\ newest' = newest
      BY <1>3 DEF LockedNext, AtSwapper, AtCache, AtBatches, AtChains, lockedVars, swapperVars, swapHistory
    <2> QED  BY <1>3, <2>1 DEF SwapperPart, SwapperUntouched
  <1> QED  BY <1>1, <1>2, <1>3

(* A step of the composition keeps the cache.                              *)
LEMMA CachePartKept ==
    ASSUME CachePart, [LockedNext]_lockedVars
    PROVE  CachePart'
  <1>1. CASE structure = "cache" /\ LockedNext
    <2>1. CacheNext /\ structure' = structure /\ CacheIInv /\ CacheOrder
      BY <1>1 DEF LockedNext, AtSwapper, AtCache, AtBatches, AtChains, CachePart
    <2> QED  BY <1>1, <2>1, CacheKept, OrderKept DEF CachePart
  <1>2. CASE structure = "cache" /\ UNCHANGED lockedVars
    <2>1. /\ UNCHANGED <<pc, held, structure, slots, index, lru, request, recency, emptied>>
          /\ CacheIInv /\ CacheOrder
      BY <1>2 DEF lockedVars, cacheVars, CachePart
    <2>2. GuardsOK' /\ CacheTypeOK'
      BY <2>1 DEF CacheIInv, GuardsOK, CacheTypeOK
    <2>3. \A t \in Threads : Adding(t)' = Adding(t)
      BY <2>1 DEF Adding
    <2>4. CacheLocks' /\ CachePlans'
      BY <2>1, <2>3 DEF CacheIInv, CacheLocks, CachePlans
    <2>5. /\ \A i \in Slots, k \in Keys : Filled(i, k)' = Filled(i, k) /\ Leaving(i, k)' = Leaving(i, k)
          /\ \A i \in Slots : Queueing(i)' = Queueing(i)
      BY <2>1, <2>3 DEF Filled, Leaving, Queueing
    <2>6. CacheExact'
      BY <2>1, <2>5 DEF CacheIInv, CacheExact
    <2>7. CacheOrder'
      BY <2>1, <2>5, OrderAside
    <2> QED  BY <1>2, <2>1, <2>2, <2>4, <2>6, <2>7 DEF CachePart, CacheIInv
  <1>3. CASE structure # "cache"
    <2>1. structure' = structure /\ index' = index /\ slots' = slots
      BY <1>3 DEF LockedNext, AtSwapper, AtCache, AtBatches, AtChains, lockedVars, cacheVars
    <2> QED  BY <1>3, <2>1 DEF CachePart, CacheUntouched
  <1> QED  BY <1>1, <1>2, <1>3

(* A step of the composition keeps the scheduler's events.                 *)
LEMMA BatchesPartKept ==
    ASSUME BatchesPart, [LockedNext]_lockedVars
    PROVE  BatchesPart'
  <1>1. CASE structure = "batches" /\ LockedNext
    <2>1. BatchNext /\ structure' = structure /\ BatchIInv
      BY <1>1 DEF LockedNext, AtSwapper, AtCache, AtBatches, AtChains, BatchesPart
    <2> QED  BY <1>1, <2>1, BatchKept DEF BatchesPart
  <1>2. CASE structure = "batches" /\ UNCHANGED lockedVars
    <2>1. /\ UNCHANGED <<pc, held, structure, queues, target, received, lostCount, batches, submission,
                         entered, batched, removed>>
          /\ BatchIInv
      BY <1>2 DEF lockedVars, batchVars, batchStats, batchHistory, BatchesPart
    <2>2. InBatches' = InBatches /\ Late' = Late /\ Dropping' = Dropping
      BY <2>1 DEF InBatches, Late, Dropping
    <2>3. GuardsOK' /\ BatchTypeOK'
      BY <2>1 DEF BatchIInv, GuardsOK, BatchTypeOK
    <2>4. Placed'
      BY <2>1, <2>2 DEF BatchIInv, Placed
    <2>5. QueueBounds' /\ BatchCounts'
      BY <2>1, <2>2 DEF BatchIInv, QueueBounds, BatchCounts
    <2> QED  BY <1>2, <2>1, <2>3, <2>4, <2>5 DEF BatchesPart, BatchIInv
  <1>3. CASE structure # "batches"
    <2>1. /\ structure' = structure
          /\ UNCHANGED <<queues, received, lostCount, batches, entered, batched, removed>>
      BY <1>3 DEF LockedNext, AtSwapper, AtCache, AtBatches, AtChains, lockedVars, batchVars, batchStats,
                  batchHistory
    <2> QED  BY <1>3, <2>1 DEF BatchesPart, BatchesUntouched
  <1> QED  BY <1>1, <1>2, <1>3

(* A step of the composition keeps the synchronizer's maps.                *)
LEMMA ChainsPartKept ==
    ASSUME ChainsPart, [LockedNext]_lockedVars
    PROVE  ChainsPart'
  <1>1. CASE structure = "chains" /\ LockedNext
    <2>1. ChainNext /\ structure' = structure /\ ChainIInv
      BY <1>1 DEF LockedNext, AtSwapper, AtCache, AtBatches, AtChains, ChainsPart
    <2> QED  BY <1>1, <2>1, ChainKept DEF ChainsPart
  <1>2. CASE structure = "chains" /\ UNCHANGED lockedVars
    <2>1. UNCHANGED <<pc, structure, byTime, byId, eventCount, adding, doubled>> /\ ChainIInv
      BY <1>2 DEF lockedVars, chainVars, ChainsPart
    <2>2. ChainTypeOK'
      BY <2>1 DEF ChainIInv, ChainTypeOK
    <2>3. At("count")' = At("count") /\ Times(byTime)' = Times(byTime)
      BY <2>1 DEF At, Times
    <2>4. EventsBounded'
      BY <2>1, <2>3 DEF ChainIInv, EventsBounded
    <2>5. \A t \in Threads : IdOf(t)' = IdOf(t)
      BY <2>1 DEF IdOf
    <2>6. ~ doubled => IdsExact'
      BY <2>1, <2>5 DEF ChainIInv, IdsExact
    <2> QED  BY <1>2, <2>1, <2>2, <2>4, <2>6 DEF ChainsPart, ChainIInv
  <1>3. CASE structure # "chains"
    <2>1. structure' = structure /\ byTime' = byTime /\ byId' = byId
      BY <1>3 DEF LockedNext, AtSwapper, AtCache, AtBatches, AtChains, lockedVars, chainVars
    <2> QED  BY <1>3, <2>1 DEF ChainsPart, ChainsUntouched
  <1> QED  BY <1>1, <1>2, <1>3

(* At the start every structure is as it was made.                         *)
LEMMA LockedStart ==
    ASSUME LockedInit
    PROVE  SwapperPart /\ CachePart /\ BatchesPart /\ ChainsPart
  <1>1. GuardsOK /\ \A t \in Threads : pc[t] = "idle"
    <2>1. NoGuards \in [Threads -> SUBSET (Locks \X {"read", "write"})]
      BY DEF NoGuards
    <2>2. \A t \in Threads : held[t] = {}
      BY DEF LockedInit, NoGuards
    <2> QED  BY <2>1, <2>2 DEF LockedInit, GuardsOK, Idle
  <1>2. SwapperPart
    <2>1. /\ active = NoModel /\ previous = NoModel /\ newest = 0
          /\ mine = [t \in Threads |-> NoModel] /\ base = [t \in Threads |-> NoModel]
      BY DEF LockedInit, SwapperInit
    <2>2. SwapTypeOK
      BY <2>1 DEF SwapTypeOK, MaybeModel
    <2>3. SwapLocks /\ SwapPlans /\ SwapServes
      BY <1>1, <2>1 DEF SwapLocks, SwapPlans, SwapServes
    <2> QED  BY <1>1, <2>1, <2>2, <2>3 DEF SwapperPart, SwapIInv, SwapperUntouched
  <1>3. CachePart
    <2>1. /\ slots = [i \in Slots |-> {}] /\ index = [k \in Keys |-> 0] /\ lru = <<>>
          /\ request = [t \in Threads |-> NoRequest] /\ recency = <<>> /\ emptied = {}
      BY DEF LockedInit, CacheInit
    <2>2. NoRequest \in Requests
      BY CacheAssumption DEF NoRequest, Requests
    <2>3. CacheTypeOK
      BY <2>1, <2>2 DEF CacheTypeOK
    <2>4. CacheLocks /\ CachePlans
      BY <1>1 DEF CacheLocks, CachePlans, Adding
    <2>5. CacheExact
      <3>1. \A i \in Slots, k \in Keys : index[k] # i
        BY <2>1, CacheAssumption DEF Slots
      <3>2. \A i \in Slots, k \in Keys : ~ Filled(i, k) /\ ~ Leaving(i, k)
        BY <1>1, <2>1 DEF Filled, Leaving
      <3> QED  BY <2>1, <3>1, <3>2 DEF CacheExact
    <2>6. CacheOrder
      <3>1. IsInjective(lru) /\ Len(lru) = 0 /\ 1 .. 0 = {}
        BY <2>1 DEF IsInjective
      <3> QED  BY <1>1, <2>1, <3>1 DEF CacheOrder
    <2> QED  BY <1>1, <2>1, <2>3, <2>4, <2>5, <2>6 DEF CachePart, CacheIInv, CacheUntouched
  <1>4. BatchesPart
    <2>1. /\ queues = [q \in Priority |-> <<>>] /\ target = (CHOOSE n \in Targets : TRUE)
          /\ received = 0 /\ lostCount = 0 /\ batches = 0
          /\ submission = [t \in Threads |-> "normal"]
          /\ entered = 0 /\ batched = <<>> /\ removed = {}
      BY DEF LockedInit, BatchInit
    <2>2. BatchTypeOK
      BY <2>1, BatchAssumption DEF BatchTypeOK, Priority
    <2>3. InBatches = <<>> /\ ToSet(<<>>) = {} /\ IsInjective(<<>>) /\ 1 .. 0 = {}
      BY <2>1, EmptyFlat DEF InBatches, ToSet, IsInjective
    <2>4. Placed
      <3>1. \A q \in Priority : queues[q] = <<>>
        BY <2>1
      <3> QED  BY <2>1, <2>3, <3>1 DEF Placed
    <2>5. Late = {} /\ Dropping = {} /\ pc[Scheduler] # "countBatch"
      BY <1>1, BatchAssumption DEF Late, Dropping
    <2>6. QueueBounds
      <3>1. \A q \in Priority : Len(queues[q]) = 0 /\ QueueSize(q) \in Nat
        BY <2>1, BatchAssumption DEF QueueSize
      <3> QED  BY <2>5, <3>1 DEF QueueBounds
    <2>7. BatchCounts
      <3>1. Cardinality({}) = 0
        BY FS_EmptySet
      <3> QED  BY <2>1, <2>5, <3>1 DEF BatchCounts
    <2> QED  BY <1>1, <2>1, <2>2, <2>4, <2>6, <2>7 DEF BatchesPart, BatchIInv, BatchesUntouched
  <1>5. ChainsPart
    <2>1. byTime = {} /\ byId = {} /\ eventCount = 0 /\ adding = [t \in Threads |-> NoAddition]
      BY DEF LockedInit, ChainInit
    <2>2. NoAddition = [event |-> NoAddition.event, status |-> NoAddition.status]
      BY DEF NoAddition
    <2>3. ChainTypeOK
      <3>1. IsFiniteSet({})
        BY FS_EmptySet
      <3> QED  BY <1>1, <2>1, <2>2, <3>1 DEF ChainTypeOK, GuardsOK
    <2>4. IdsExact
      BY <1>1, <2>1 DEF IdsExact
    <2>5. EventsBounded
      <3>1. At("count") = {}
        BY <1>1 DEF At
      <3>2. Cardinality({}) = 0
        BY FS_EmptySet
      <3>3. Cardinality(byTime) = 0 /\ Cardinality(At("count")) = 0
        BY <2>1, <3>1, <3>2
      <3>4. ~ (eventCount > MaxEventsKept)
        BY <2>1, SynchronizerAssumption
      <3> QED  BY <2>1, <3>3, <3>4 DEF EventsBounded
    <2> QED  BY <2>1, <2>3, <2>4, <2>5 DEF ChainsPart, ChainIInv, ChainsUntouched
  <1> QED  BY <1>2, <1>3, <1>4, <1>5

(* ModelHotSwapper: whatever loads, swaps and rollbacks interleave, from   *)
(* the first load on whoever gets the read lock finds a model, the newest  *)
(* one unless installations raced.                                         *)
THEOREM NewestModelServes == LockedSpec => []NewestServes
  <1>1. LockedInit => SwapperPart
    BY LockedStart
  <1>2. SwapperPart /\ [LockedNext]_lockedVars => SwapperPart'
    BY SwapperPartKept
  <1>3. SwapperPart => NewestServes
    BY SwapperServes DEF SwapperPart, SwapperUntouched, NewestServes
  <1> QED  BY <1>1, <1>2, <1>3, PTL DEF LockedSpec

(* UiStateCache: insertions, updates and hits of any threads keep the      *)
(* queue of slots in the order of use, so an insertion evicts the key that *)
(* was not used for the longest time until an entry is removed.            *)
THEOREM EvictsTheOldest == LockedSpec => EvictsLeastRecent
  <1>1. LockedInit => CachePart
    BY LockedStart
  <1>2. CachePart /\ [LockedNext]_lockedVars => CachePart'
    BY CachePartKept
  <1>3. CachePart /\ [LockedNext]_lockedVars =>
          [ emptied' = {} =>
              \A k \in Keys : index[k] # 0 /\ index'[k] = 0 => k = Head(recency) ]_cacheVars
    <2> SUFFICES ASSUME CachePart, [LockedNext]_lockedVars, cacheVars' # cacheVars, emptied' = {},
                        NEW k \in Keys, index[k] # 0, index'[k] = 0
                 PROVE  k = Head(recency)
      OBVIOUS
    <2>1. structure = "cache" /\ CacheNext
      BY DEF LockedNext, AtSwapper, AtCache, AtBatches, AtChains, lockedVars, cacheVars
    <2> QED  BY <2>1, EvictsFirst DEF CachePart
  <1> QED  BY <1>1, <1>2, <1>3, PTL DEF LockedSpec, EvictsLeastRecent

(* The data behind the locks: the cache's index and slots agree, no event  *)
(* of the scheduler is lost or batched twice, and the synchronizer's maps  *)
(* have the same events, no more than allowed, for any threads, sizes and  *)
(* calls.                                                                  *)
THEOREM LockedDataAgrees == LockedSpec => []DataAgrees
  <1> DEFINE Inv == CachePart /\ BatchesPart /\ ChainsPart
  <1>1. LockedInit => Inv
    BY LockedStart
  <1>2. Inv /\ [LockedNext]_lockedVars => Inv'
    BY CachePartKept, BatchesPartKept, ChainsPartKept
  <1>3. Inv => DataAgrees
    <2>1. CachePart => IndexIsExact
      <3>1. CASE structure = "cache"
        BY <3>1, CacheAgrees DEF CachePart
      <3>2. CASE structure # "cache"
        BY <3>2, CacheAssumption DEF CachePart, CacheUntouched, IndexIsExact, Slots
      <3> QED  BY <3>1, <3>2
    <2>2. BatchesPart => EventsConserved
      <3>1. CASE structure = "batches"
        BY <3>1, BatchAgrees DEF BatchesPart
      <3>2. ASSUME BatchesUntouched
            PROVE  EventsConserved
        <4>1. /\ queues["urgent"] = <<>> /\ queues["normal"] = <<>>
              /\ \A q \in Priority : Len(queues[q]) = 0 /\ QueueSize(q) \in Nat
          BY <3>2, BatchAssumption DEF BatchesUntouched, Priority, QueueSize
        <4>2. InBatches \o (queues["urgent"] \o queues["normal"]) = <<>>
          <5>1. InBatches = <<>>
            BY <3>2, EmptyFlat DEF InBatches, BatchesUntouched
          <5>2. <<>> \in Seq(Nat) /\ <<>> \o <<>> = <<>>
            BY ConcatEmptySeq
          <5> QED  BY <4>1, <5>1, <5>2
        <4>3. ToSet(<<>>) = {} /\ IsInjective(<<>>) /\ 1 .. 0 = {} /\ Cardinality({}) = 0
          BY FS_EmptySet DEF ToSet, IsInjective
        <4>4. Len(batched) = 0
          BY <3>2 DEF BatchesUntouched
        <4> DEFINE places == InBatches \o (queues["urgent"] \o queues["normal"])
        <4>5. IsInjective(places) /\ ToSet(places) = {}
          BY <4>2, <4>3
        <4>6. removed = {} /\ entered = 0 /\ received = 0 /\ lostCount = 0 /\ batches = 0
          BY <3>2 DEF BatchesUntouched
        <4>7. received = entered /\ lostCount <= Cardinality(removed) /\ batches = Len(batched)
          BY <4>3, <4>4, <4>6
        <4>8. \A q \in Priority : Len(queues[q]) <= QueueSize(q)
          BY <4>1
        <4>9. ToSet(places) \cup removed = 1 .. entered /\ ToSet(places) \cap removed = {}
          BY <4>3, <4>5, <4>6
        <4> QED  BY <4>5, <4>7, <4>8, <4>9 DEF EventsConserved
      <3> QED  BY <3>1, <3>2 DEF BatchesPart
    <2>3. ChainsPart => MapsAgree
      <3>1. CASE structure = "chains"
        BY <3>1, ChainsAgree DEF ChainsPart
      <3>2. ASSUME ChainsUntouched
            PROVE  MapsAgree
        <4>1. Cardinality({}) = 0
          BY FS_EmptySet
        <4> QED  BY <3>2, <4>1, SynchronizerAssumption DEF MapsAgree, ChainsUntouched, Times
      <3> QED  BY <3>1, <3>2 DEF ChainsPart
    <2> QED  BY <2>1, <2>2, <2>3 DEF DataAgrees
  <1> QED  BY <1>1, <1>2, <1>3, PTL DEF LockedSpec
=============================================================================
