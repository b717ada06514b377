--------------------------- MODULE DataPathProofs ---------------------------
(***************************************************************************)
(* What is proved of the data path, for every size of it.  The tick ring's *)
(* two threads never meet in a slot, pop never reads an empty one, no tick *)
(* is lost without being counted, and the ring implements the bounded FIFO *)
(* of TickQueue.  The feed's local book is the exchange's as of            *)
(* last_update_id.  The engine accounts for every event.  The tree of      *)
(* orders and the book of the backtest agree with the orders in them.      *)
(***************************************************************************)
EXTENDS DataPath, TLAPS, SequenceTheorems, FiniteSetTheorems, WellFoundedInduction

(* The slots between head and tail, going round the end of the buffer.     *)
Occupied(i) ==
    IF head <= tail THEN head <= i /\ i < tail
                    ELSE head <= i \/ i < tail

(* What each thread knows of the other's index while it is inside its      *)
(* call: the consumer may only have made room, the producer only ticks.    *)
IndexInv ==
    /\ ppc \in {"write", "publish"} => NextIndex(tail) # head
    /\ cpc \in {"take", "advance"} => head # tail

(* Every published slot holds a tick until the consumer takes it.          *)
SlotInv ==
    /\ \A i \in Slots :
          Occupied(i) /\ ~ (i = head /\ cpc = "advance") => slots[i] # NoTick
    /\ ppc = "publish" => slots[tail] = seq

(* A thread that counts or is about to call push has a tick in hand.       *)
CallInv ==
    /\ ppc # "idle" => seq > 0
    /\ cpc \in {"idle", "take"} => held = NoTick

IInv == TypeOK /\ IndexInv /\ SlotInv /\ CallInv /\ PopYieldsTick /\ Conservation

-----------------------------------------------------------------------------
(* The index arithmetic, without the modulus.                              *)
LEMMA NextIndexLemma ==
    \A i \in Slots :
        /\ NextIndex(i) = IF i + 1 = Capacity THEN 0 ELSE i + 1
        /\ NextIndex(i) \in Slots
  <1> SUFFICES ASSUME NEW i \in Slots
               PROVE  /\ NextIndex(i) = IF i + 1 = Capacity THEN 0 ELSE i + 1
                      /\ NextIndex(i) \in Slots
      OBVIOUS
  <1>0. Capacity \in Nat /\ Capacity > 0 /\ i \in Nat /\ i + 1 <= Capacity
      BY CapacityAssumption DEF Slots
  <1>1. CASE i + 1 = Capacity
      <2>1. (i + 1) % Capacity = 0
          BY <1>0, <1>1
      <2> QED
          BY <2>1, <1>0, <1>1 DEF NextIndex, Slots
  <1>2. CASE i + 1 # Capacity
      <2>1. (i + 1) % Capacity = i + 1
          BY <1>0, <1>2
      <2> QED
          BY <2>1, <1>0, <1>2 DEF NextIndex, Slots
  <1> QED
      BY <1>1, <1>2

-----------------------------------------------------------------------------
(* The ring starts in the invariant.                                       *)
LEMMA InitInvariant == Init => IInv
  BY CapacityAssumption, MaxTicksAssumption, NoTickAssumption
  DEF Init, IInv, TypeOK, IndexInv, SlotInv, CallInv, PopYieldsTick,
      Conservation, Occupied, Slots, Size, Decided, Popped

(* Each action keeps the invariant.  What an action must be careful of is  *)
(* the index it moves: PushPublish hands a slot to the consumer and        *)
(* PopAdvance one to the producer.                                         *)
LEMMA StepInvariant == IInv /\ [Next]_vars => IInv'
  <1> SUFFICES ASSUME IInv, [Next]_vars
               PROVE  IInv'
      OBVIOUS
  <1> USE CapacityAssumption, MaxTicksAssumption, NoTickAssumption
      DEF IInv, TypeOK, IndexInv, SlotInv, CallInv, PopYieldsTick,
          Conservation, Occupied, Slots, Size, Decided, Popped
  <1>0. /\ \A i \in Slots :
              /\ NextIndex(i) = IF i + 1 = Capacity THEN 0 ELSE i + 1
              /\ NextIndex(i) \in Slots
        /\ Capacity \in Nat /\ Capacity > 0
      BY NextIndexLemma
  <1>1. CASE PushBegin
      BY <1>1 DEF PushBegin, cvars
  <1>2. CASE PushCheck
      BY <1>2 DEF PushCheck, cvars
  <1>3. CASE PushOverflow
      BY <1>3 DEF PushOverflow, cvars
  <1>4. CASE PushWrite
      BY <1>4 DEF PushWrite, cvars
  <1>5. CASE PushPublish
      <2>1. /\ head' = head /\ slots' = slots /\ overflow' = overflow
            /\ seq' = seq /\ cpc' = cpc /\ held' = held /\ out' = out
            /\ processed' = processed /\ ppc = "publish" /\ ppc' = "idle"
          BY <1>5 DEF PushPublish, cvars
      <2>2. /\ tail' = IF tail + 1 = Capacity THEN 0 ELSE tail + 1
            /\ tail' \in Slots /\ tail' # head
          BY <1>0, <1>5 DEF PushPublish
      <2>3. TypeOK' /\ IndexInv' /\ CallInv' /\ PopYieldsTick'
          BY <2>1, <2>2
      <2>4. ASSUME NEW i \in Slots, Occupied(i)'
            PROVE  Occupied(i) \/ i = tail
          BY <2>1, <2>2, <2>4
      <2>5. SlotInv'
          BY <2>1, <2>4
      <2>6. Size' = Size + 1
          BY <2>1, <2>2
      <2>7. Decided' = Decided + 1 /\ Popped' = Popped
          BY <2>1
      <2>8. Decided \in Int /\ Popped \in Int /\ Size \in Int /\ overflow \in Int
          OBVIOUS
      <2>9. Decided = Popped + Size + overflow
          OBVIOUS
      <2>10. Conservation'
          <3> HIDE DEF Decided, Popped, Size
          <3> QED
              BY <2>1, <2>6, <2>7, <2>8, <2>9
      <2> QED
          BY <2>3, <2>5, <2>10
  <1>6. CASE PopCheck
      BY <1>6 DEF PopCheck, pvars
  <1>7. CASE PopTake
      BY <1>7 DEF PopTake, pvars
  <1>8. CASE PopAdvance
      <2>1. /\ tail' = tail /\ slots' = slots /\ overflow' = overflow
            /\ seq' = seq /\ ppc' = ppc /\ held' = held
            /\ processed' = processed /\ cpc = "advance" /\ cpc' = "count"
          BY <1>8 DEF PopAdvance, pvars
      <2>2. /\ head' = IF head + 1 = Capacity THEN 0 ELSE head + 1
            /\ head' \in Slots /\ head # tail
          BY <1>0, <1>8 DEF PopAdvance
      <2>3. TypeOK' /\ CallInv' /\ PopYieldsTick'
          BY <2>1, <2>2, <1>8 DEF PopAdvance
      <2>4. NextIndex(tail) # head'
          BY <1>0, <2>2
      <2>5. IndexInv'
          BY <2>1, <2>4
      <2>6. ASSUME NEW i \in Slots, Occupied(i)'
            PROVE  Occupied(i) /\ i # head
          BY <2>1, <2>2, <2>6
      <2>7. SlotInv'
          BY <2>1, <2>6
      <2>8. Size' = Size - 1
          BY <2>1, <2>2
      <2>9. Decided' = Decided /\ Popped' = Popped + 1
          BY <2>1
      <2>10. Conservation'
          BY <2>1, <2>8, <2>9
      <2> QED
          BY <2>3, <2>5, <2>7, <2>10
  <1>9. CASE PopCount
      BY <1>9 DEF PopCount, pvars
  <1>10. CASE UNCHANGED vars
      BY <1>10 DEF vars, pvars, cvars
  <1> QED
      BY <1>1, <1>2, <1>3, <1>4, <1>5, <1>6, <1>7, <1>8, <1>9, <1>10
      DEF Next, Producer, Consumer

(* The ring's invariant.                                                   *)
LEMMA Invariant == Spec => []IInv
  BY InitInvariant, StepInvariant, PTL DEF Spec

-----------------------------------------------------------------------------
(* Both indices stay inside the buffer, every counter is a number and each *)
(* thread is at a step of its call: TickRingBuffer is type correct.        *)
THEOREM TypeCorrect == Spec => []TypeOK
  BY Invariant, PTL DEF IInv

(* push and pop never access the same slot at the same time, whatever the  *)
(* capacity and however the network and the strategy thread interleave.    *)
THEOREM SlotRaceFreedom == Spec => []NoSlotRace
  <1>1. IInv => NoSlotRace
      BY DEF IInv, IndexInv, NoSlotRace
  <1> QED
      BY <1>1, Invariant, PTL

(* A pop that saw a non-empty ring returns a tick.                         *)
THEOREM PopNeverReadsEmpty == Spec => []PopYieldsTick
  BY Invariant, PTL DEF IInv

(* Every tick push has dealt with was popped, waits in the ring or was     *)
(* counted by overflow_count.                                              *)
THEOREM NoTickVanishes == Spec => []Conservation
  BY Invariant, PTL DEF IInv

-----------------------------------------------------------------------------
(* The ring implements the bounded FIFO.  A tick enters it with the store  *)
(* of tail, leaves it with the store of head, and is refused at the test   *)
(* for a full buffer; every other step of the two threads is a stutter.    *)

(* The ring's contents are a sequence of ticks.                            *)
LEMMA ContentsType ==
    ASSUME TypeOK
    PROVE  /\ Size \in Nat
           /\ Contents \in Seq(Nat \cup {NoTick})
           /\ Len(Contents) = Size
           /\ DOMAIN Contents = 1 .. Size
           /\ \A k \in 1 .. Size :
                 Contents[k] = IF k = 1 /\ cpc = "advance"
                               THEN held ELSE slots[Slot(k - 1)]
           /\ \A k \in 0 .. (Size - 1) : Slot(k) \in Slots
  <1> USE CapacityAssumption DEF TypeOK, Slots
  <1>1. Size \in Nat
      BY DEF Size
  <1>2. \A k \in 0 .. (Size - 1) : Slot(k) \in Slots
      BY DEF Size, Slot
  <1>3. \A k \in 1 .. Size :
           (IF k = 1 /\ cpc = "advance" THEN held ELSE slots[Slot(k - 1)])
               \in Nat \cup {NoTick}
      BY <1>1, <1>2
  <1>4. Contents \in Seq(Nat \cup {NoTick}) /\ Len(Contents) = Size
      BY <1>1, <1>3 DEF Contents
  <1> QED
      BY <1>1, <1>2, <1>4 DEF Contents

(* The sequence depends on these five variables only.                      *)
LEMMA ContentsStable ==
    ASSUME UNCHANGED <<slots, head, tail, held>>,
           (cpc = "advance") <=> (cpc' = "advance")
    PROVE  Contents' = Contents
  BY DEF Contents, Size, Slot

(* Writing the free slot at tail does not change what is queued.           *)
LEMMA WriteKeepsContents ==
    ASSUME TypeOK, PushWrite
    PROVE  Contents' = Contents
  <1> USE CapacityAssumption DEF TypeOK, Slots
  <1>1. /\ UNCHANGED <<head, tail, held, cpc>>
        /\ slots' = [slots EXCEPT ![tail] = seq]
      BY DEF PushWrite, cvars
  <1>2. Size' = Size /\ Size \in Nat
      BY <1>1 DEF Size
  <1>3. ASSUME NEW k \in 1 .. Size
        PROVE  /\ Slot(k - 1)' = Slot(k - 1)
               /\ Slot(k - 1) \in Slots
               /\ Slot(k - 1) # tail
      BY <1>1 DEF Slot, Size
  <1>4. ASSUME NEW k \in 1 .. Size
        PROVE  slots'[Slot(k - 1)'] = slots[Slot(k - 1)]
      BY <1>1, <1>3
  <1> QED
      BY <1>1, <1>2, <1>4 DEF Contents

(* take() moves the oldest tick to pop's local variable.                   *)
LEMMA TakeKeepsContents ==
    ASSUME TypeOK, PopTake
    PROVE  Contents' = Contents
  <1> USE CapacityAssumption DEF TypeOK, Slots
  <1>1. /\ UNCHANGED <<head, tail>>
        /\ cpc = "take" /\ cpc' = "advance"
        /\ held' = slots[head]
        /\ slots' = [slots EXCEPT ![head] = NoTick]
      BY DEF PopTake, pvars
  <1>2. Size' = Size /\ Size \in Nat
      BY <1>1 DEF Size
  <1>3. ASSUME NEW k \in 1 .. Size
        PROVE  /\ Slot(k - 1)' = Slot(k - 1)
               /\ Slot(k - 1) \in Slots
               /\ k # 1 => Slot(k - 1) # head
               /\ k = 1 => Slot(k - 1) = head
      BY <1>1 DEF Slot, Size
  <1>4. ASSUME NEW k \in 1 .. Size
        PROVE  (IF k = 1 THEN held' ELSE slots'[Slot(k - 1)'])
                   = slots[Slot(k - 1)]
      BY <1>1, <1>3
  <1> QED
      BY <1>1, <1>2, <1>4 DEF Contents

(* Publishing the slot at tail appends the tick that was written there.    *)
LEMMA PublishAppends ==
    ASSUME IInv, PushPublish
    PROVE  Contents' = Append(Contents, slots[tail])
  <1> USE CapacityAssumption DEF IInv, TypeOK, Slots
  <1>1. /\ UNCHANGED <<slots, head, held, cpc>>
        /\ tail' = IF tail + 1 = Capacity THEN 0 ELSE tail + 1
        /\ tail' # head
      BY NextIndexLemma DEF PushPublish, cvars, IndexInv
  <1>2. Size' = Size + 1 /\ Size \in Nat
      BY <1>1 DEF Size
  <1>3. /\ \A k \in Nat : Slot(k)' = Slot(k)
        /\ Slot(Size) = tail
        /\ cpc = "advance" => Size > 0
      BY <1>1 DEF Slot, Size, IndexInv
  <1>4. /\ Contents \in Seq(Nat \cup {NoTick})
        /\ Len(Contents) = Size
        /\ \A k \in 1 .. Size :
              Contents[k] = IF k = 1 /\ cpc = "advance"
                            THEN held ELSE slots[Slot(k - 1)]
      BY ContentsType
  <1>5. Contents' = [k \in 1 .. (Size + 1) |->
                        IF k = 1 /\ cpc = "advance"
                        THEN held ELSE slots[Slot(k - 1)]]
      BY <1>1, <1>2, <1>3 DEF Contents
  <1>6. Append(Contents, slots[tail]) =
            [k \in 1 .. (Size + 1) |->
                IF k = Size + 1 THEN slots[tail] ELSE Contents[k]]
      BY <1>2, <1>4
  <1> QED
      BY <1>2, <1>3, <1>4, <1>5, <1>6

(* Advancing head removes the oldest tick, the one pop holds.              *)
LEMMA AdvanceRemovesHead ==
    ASSUME IInv, PopAdvance
    PROVE  /\ Contents # <<>>
           /\ Contents' = Tail(Contents)
           /\ out' = Head(Contents)
  <1> USE CapacityAssumption DEF IInv, TypeOK, Slots
  <1>1. /\ UNCHANGED <<slots, tail, held>>
        /\ head' = IF head + 1 = Capacity THEN 0 ELSE head + 1
        /\ head # tail
        /\ cpc = "advance" /\ cpc' = "count"
        /\ out' = held
      BY NextIndexLemma DEF PopAdvance, pvars, IndexInv, PopYieldsTick
  <1>2. Size' = Size - 1 /\ Size \in Nat /\ Size > 0
      BY <1>1 DEF Size
  <1>3. \A k \in 0 .. (Size - 2) : Slot(k)' = Slot(k + 1)
      BY <1>1 DEF Slot, Size
  <1>4. /\ Contents \in Seq(Nat \cup {NoTick})
        /\ Len(Contents) = Size
        /\ \A k \in 1 .. Size :
              Contents[k] = IF k = 1 /\ cpc = "advance"
                            THEN held ELSE slots[Slot(k - 1)]
      BY ContentsType
  <1>5. Contents' = [k \in 1 .. (Size - 1) |-> slots[Slot(k - 1)']]
      BY <1>1, <1>2 DEF Contents
  <1>6. Tail(Contents) = [k \in 1 .. (Size - 1) |-> Contents[k + 1]]
      <2>1. /\ Contents # <<>>
            /\ Tail(Contents) \in Seq(Nat \cup {NoTick})
            /\ Len(Tail(Contents)) = Size - 1
            /\ \A k \in 1 .. (Size - 1) : Tail(Contents)[k] = Contents[k + 1]
          BY <1>2, <1>4
      <2>2. \A S : \A s \in Seq(S) : s = [k \in 1 .. Len(s) |-> s[k]]
          OBVIOUS
      <2> QED
          BY <1>2, <2>1, <2>2
  <1>7. \A k \in 1 .. (Size - 1) : slots[Slot(k - 1)'] = Contents[k + 1]
      BY <1>2, <1>3, <1>4
  <1> QED
      BY <1>1, <1>2, <1>4, <1>5, <1>6, <1>7

(* Every step of the ring is a step of the FIFO or none.                   *)
LEMMA StepRefines ==
    ASSUME IInv, [Next]_vars
    PROVE  [Queue!Next]_(Queue!qvars)
  <1> USE DEF IInv, TypeOK, Slots
  <1>0. /\ Len(Contents) = Size
        /\ Capacity \in Nat /\ Capacity > 0 /\ MaxTicks \in Nat
      BY ContentsType, CapacityAssumption, MaxTicksAssumption
  <1>1. CASE PushBegin
      BY <1>1, ContentsStable DEF PushBegin, cvars, Queue!qvars
  <1>2. CASE PushCheck
      <2>1. Contents' = Contents
          BY <1>2, ContentsStable DEF PushCheck, cvars
      <2>2. CASE NextIndex(tail) = head
          <3>1. Size = Capacity - 1
              <4>1. head \in 0 .. (Capacity - 1) /\ tail \in 0 .. (Capacity - 1)
                  BY DEF IInv, TypeOK, Slots
              <4>2. head = IF tail + 1 = Capacity THEN 0 ELSE tail + 1
                  BY <2>2, <4>1, NextIndexLemma DEF Slots
              <4> QED
                  BY <1>0, <4>1, <4>2 DEF Size
          <3> QED
              BY <1>0, <1>2, <2>1, <2>2, <3>1
              DEF PushCheck, cvars, CallInv, Queue!Next, Queue!Refuse
      <2>3. CASE NextIndex(tail) # head
          BY <1>2, <2>1, <2>3 DEF PushCheck, cvars, Queue!qvars
      <2> QED
          BY <2>2, <2>3
  <1>3. CASE PushOverflow
      BY <1>3, ContentsStable DEF PushOverflow, cvars, Queue!qvars
  <1>4. CASE PushWrite
      BY <1>4, WriteKeepsContents DEF PushWrite, cvars, Queue!qvars
  <1>5. CASE PushPublish
      <2>1. /\ (IF tail + 1 = Capacity THEN 0 ELSE tail + 1) # head
            /\ head \in 0 .. (Capacity - 1) /\ tail \in 0 .. (Capacity - 1)
          BY <1>5, NextIndexLemma DEF PushPublish, IndexInv
      <2>2. Size < Capacity - 1
          BY <1>0, <2>1 DEF Size
      <2>3. Contents' = Append(Contents, seq)
          BY <1>5, PublishAppends DEF SlotInv, PushPublish
      <2> QED
          BY <1>0, <1>5, <2>2, <2>3
          DEF PushPublish, cvars, CallInv, Queue!Next, Queue!Accept
  <1>6. CASE PopCheck
      BY <1>6, ContentsStable DEF PopCheck, pvars, Queue!qvars
  <1>7. CASE PopTake
      BY <1>7, TakeKeepsContents DEF PopTake, pvars, Queue!qvars
  <1>8. CASE PopAdvance
      BY <1>8, AdvanceRemovesHead
      DEF PopAdvance, pvars, Queue!Next, Queue!Deliver
  <1>9. CASE PopCount
      <2>1. Contents' = Contents
          BY <1>9 DEF PopCount, pvars, Contents, Size, Slot
      <2> QED
          BY <1>9, <2>1 DEF PopCount, pvars, Queue!qvars
  <1>10. CASE UNCHANGED vars
      BY <1>10, ContentsStable DEF vars, pvars, cvars, Queue!qvars
  <1> QED
      BY <1>1, <1>2, <1>3, <1>4, <1>5, <1>6, <1>7, <1>8, <1>9, <1>10
      DEF Next, Producer, Consumer

(* Whatever the capacity, the lock-free ring is a bounded FIFO: the ticks  *)
(* come out in the order they went in, each once, and one is refused only  *)
(* when Capacity - 1 of them wait.                                         *)
THEOREM RingImplementsQueue == Spec => ImplementsQueue
  <1>1. Init => Queue!Init
      <2> SUFFICES ASSUME Init PROVE Queue!Init
          OBVIOUS
      <2>1. Size = 0
          BY DEF Init, Size
      <2>2. Contents = <<>>
          BY <2>1 DEF Contents
      <2>3. seq - (IF ppc \in {"check", "write", "publish"} THEN 1 ELSE 0) = 0
          <3>1. seq = 0 /\ ~ (ppc \in {"check", "write", "publish"})
              BY DEF Init
          <3> DEFINE pending == IF ppc \in {"check", "write", "publish"} THEN 1 ELSE 0
          <3>2. pending = 0
              BY <3>1
          <3> HIDE DEF pending
          <3>3. seq - pending = 0
              BY <3>1, <3>2
          <3> QED
              BY <3>3 DEF pending
      <2>4. out = 0 /\ overflow + (IF ppc = "overflow" THEN 1 ELSE 0) = 0
          BY DEF Init
      <2> QED
          BY <2>2, <2>3, <2>4 DEF Queue!Init
  <1>2. IInv /\ [Next]_vars => [Queue!Next]_(Queue!qvars)
      BY StepRefines
  <1> QED
      BY <1>1, <1>2, Invariant, PTL DEF Spec, ImplementsQueue, Queue!Spec

-----------------------------------------------------------------------------
(* The local order book.  What the feed's messages rest on: the exchange's *)
(* versions only grow, whatever is on its way names versions that exist,   *)
(* and a level that no update of a range changes has the same quantity at  *)
(* both its ends.                                                          *)
Levels == [LevelPrices -> 0 .. 1]
Versions == FirstId .. Version

FeedTypes ==
    /\ books \in Seq(Levels) /\ Len(books) >= 1
    /\ wire \in Seq([first : Int, last : Int])
    /\ \A i \in 1 .. Len(wire) : wire[i].last <= Version
    /\ sent \in Int
    /\ snapshot \in Int /\ (snapshot >= 0 => snapshot \in Versions)
    /\ local \in Levels
    /\ lastId \in Int /\ (received => lastId \in Versions)

QuietLevelsKeep ==
    \A p \in LevelPrices, a, b \in Versions :
        a <= b /\ (\A id \in (a + 1) .. b : BookAt(id)[p] = BookAt(id - 1)[p])
            => BookAt(a)[p] = BookAt(b)[p]

FeedInv == FeedTypes /\ QuietLevelsKeep /\ BookIsExact

(* Every version has its book.                                             *)
LEMMA BooksOfVersions ==
    ASSUME FeedTypes
    PROVE  /\ Version \in Int /\ FirstId <= Version /\ Version \in Versions
           /\ \A id \in Versions : id - FirstId + 1 \in 1 .. Len(books) /\ BookAt(id) \in Levels
<1>1. FirstId \in Int /\ Len(books) \in Nat /\ Len(books) >= 1
  BY FeedAssumption, LenProperties DEF FeedTypes
<1>2. Version \in Int /\ FirstId <= Version /\ Version \in Versions
  BY <1>1 DEF Version, Versions
<1>3. ASSUME NEW id \in Versions
      PROVE  id - FirstId + 1 \in 1 .. Len(books) /\ BookAt(id) \in Levels
  <2>1. id - FirstId + 1 \in 1 .. Len(books)
    BY <1>1, <1>3 DEF Versions, Version
  <2>2. books[id - FirstId + 1] \in Levels
    BY <2>1, ElementOfSeq DEF FeedTypes
  <2> QED BY <2>1, <2>2 DEF BookAt
<1> QED BY <1>2, <1>3

(* The depth limit drops levels, it never changes one.                     *)
LEMMA BestDropsOnly ==
    ASSUME NEW b \in Levels
    PROVE  /\ Best(b) \in Levels
           /\ \A p \in LevelPrices : Best(b)[p] \in {0, b[p]}
<1>1. Best(b) = [p \in LevelPrices |->
          IF Cardinality({q \in LevelPrices : q > p /\ b[q] > 0}) < Depth THEN b[p] ELSE 0]
  BY DEF Best
<1>2. \A p \in LevelPrices : Best(b)[p] \in {0, b[p]}
  BY <1>1
<1>3. \A p \in LevelPrices : b[p] \in 0 .. 1
  BY DEF Levels
<1>4. \A p \in LevelPrices : Best(b)[p] \in 0 .. 1
  BY <1>2, <1>3
<1> QED BY <1>1, <1>2, <1>4 DEF Levels

(* A new book is put behind the others, which stay what they are.          *)
LEMMA OlderBooksStay ==
    ASSUME FeedTypes, BookChanges
    PROVE  /\ books' \in Seq(Levels) /\ Len(books') >= 1
           /\ Version' = Version + 1
           /\ \A id \in Versions : BookAt(id)' = BookAt(id)
<1>1. PICK p \in LevelPrices : books' = Append(books, [BookAt(Version) EXCEPT ![p] = 1 - @])
  BY DEF BookChanges
<1> DEFINE new == [BookAt(Version) EXCEPT ![p] = 1 - @]
<1>2. BookAt(Version) \in Levels
  BY BooksOfVersions
<1>3. new \in Levels
  BY <1>2 DEF Levels
<1>4. books' = Append(books, new)
  BY <1>1
<1> HIDE DEF new
<1>5. /\ books' \in Seq(Levels) /\ Len(books') = Len(books) + 1
      /\ \A i \in 1 .. Len(books) : books'[i] = books[i]
  BY <1>3, <1>4, AppendProperties DEF FeedTypes
<1>6. Len(books) \in Nat /\ Len(books') >= 1
  BY <1>5, LenProperties DEF FeedTypes
<1>7. Version' = Version + 1
  BY <1>5, <1>6, FeedAssumption DEF Version
<1>8. ASSUME NEW id \in Versions PROVE BookAt(id)' = BookAt(id)
  <2>1. id - FirstId + 1 \in 1 .. Len(books)
    BY BooksOfVersions
  <2>2. books'[id - FirstId + 1] = books[id - FirstId + 1]
    BY <1>5, <2>1
  <2> QED BY <2>2 DEF BookAt
<1> QED BY <1>5, <1>6, <1>7, <1>8
(* No step but an update of the exchange touches its books.                *)
LEMMA BooksStay ==
    ASSUME UNCHANGED books
    PROVE  /\ Version' = Version /\ Versions' = Versions
           /\ \A id : BookAt(id)' = BookAt(id)
<1> QED BY DEF Version, Versions, BookAt

(* A level that lay still over every earlier range does so over a range    *)
(* that ends with the new update.                                          *)
LEMMA QuietLevelsStep ==
    ASSUME FeedTypes, QuietLevelsKeep, BookChanges
    PROVE  QuietLevelsKeep'
<1>1. /\ Version \in Int /\ FirstId \in Int /\ FirstId <= Version
      /\ Version' = Version + 1
      /\ \A id \in Versions : BookAt(id)' = BookAt(id)
  BY BooksOfVersions, OlderBooksStay, FeedAssumption
<1> SUFFICES ASSUME NEW p \in LevelPrices, NEW a \in Versions', NEW b \in Versions',
                    a <= b,
                    \A id \in (a + 1) .. b : BookAt(id)'[p] = BookAt(id - 1)'[p]
             PROVE  BookAt(a)'[p] = BookAt(b)'[p]
  BY DEF QuietLevelsKeep
<1>2. a \in Int /\ b \in Int /\ FirstId <= a /\ b <= Version + 1
  BY <1>1 DEF Versions
<1>3. CASE a = b
  BY <1>3
<1>4. CASE a < b /\ b <= Version
  <2>1. a \in Versions /\ b \in Versions
    BY <1>1, <1>2, <1>4 DEF Versions
  <2>2. ASSUME NEW id \in (a + 1) .. b PROVE BookAt(id)[p] = BookAt(id - 1)[p]
    <3>1. id \in Versions /\ id - 1 \in Versions
      BY <1>1, <1>2, <1>4 DEF Versions
    <3>2. BookAt(id)' = BookAt(id) /\ BookAt(id - 1)' = BookAt(id - 1)
      BY <1>1, <3>1
    <3> QED BY <3>2
  <2>3. BookAt(a)[p] = BookAt(b)[p]
    BY <1>4, <2>1, <2>2 DEF QuietLevelsKeep
  <2> QED BY <1>1, <2>1, <2>3
<1>5. CASE a < b /\ b = Version + 1
  <2>1. PICK v \in Int : v = Version /\ b = v + 1
    BY <1>1, <1>5
  <2>2. a \in Versions /\ v \in Versions /\ a <= v
    BY <1>1, <1>2, <1>5, <2>1 DEF Versions
  <2>3. ASSUME NEW id \in (a + 1) .. v PROVE BookAt(id)[p] = BookAt(id - 1)[p]
    <3>1. id \in Versions /\ id - 1 \in Versions /\ id \in (a + 1) .. b
      BY <1>1, <1>2, <1>5, <2>1 DEF Versions
    <3>2. BookAt(id)' = BookAt(id) /\ BookAt(id - 1)' = BookAt(id - 1)
      BY <1>1, <3>1
    <3> QED BY <3>1, <3>2
  <2>4. BookAt(a)[p] = BookAt(v)[p]
    BY <2>2, <2>3 DEF QuietLevelsKeep
  <2>5. b \in (a + 1) .. b /\ b - 1 = v
    BY <1>1, <1>2, <1>5, <2>1
  <2>6. BookAt(b)'[p] = BookAt(v)'[p]
    BY <2>5
  <2>7. BookAt(v)' = BookAt(v) /\ BookAt(a)' = BookAt(a)
    BY <1>1, <2>2
  <2> QED BY <2>4, <2>6, <2>7
<1>6. a = b \/ (a < b /\ b <= Version) \/ (a < b /\ b = Version + 1)
  <2>1. Version \in Int /\ a <= b
    BY <1>1
  <2> QED BY <1>2, <2>1
<1> QED BY <1>3, <1>4, <1>5, <1>6

(* A message that passes the sequence test leaves each level at zero or at *)
(* what the exchange had after the message's last update: the levels it    *)
(* does not carry have not moved since last_update_id.                     *)
LEMMA UpdateIsExact ==
    ASSUME FeedInv, NEW m \in [first : Int, last : Int], m.last <= Version, ValidSequence(m)
    PROVE  /\ m.last \in Versions
           /\ Updated(m) \in Levels
           /\ \A p \in LevelPrices : Updated(m)[p] \in {0, BookAt(m.last)[p]}
           /\ ~cut => Updated(m) = BookAt(m.last)
<1>1. /\ lastId \in Versions /\ lastId \in Int /\ FirstId \in Int /\ Version \in Int
      /\ m.first <= lastId + 1 /\ lastId < m.last
      /\ m.first \in Int /\ m.last \in Int
  BY BooksOfVersions, FeedAssumption DEF ValidSequence, IsGap, FeedInv, FeedTypes
<1>2. m.last \in Versions
  BY <1>1 DEF Versions
<1>3. /\ BookAt(m.last) \in Levels /\ BookAt(lastId) \in Levels /\ local \in Levels
      /\ \A p \in LevelPrices : local[p] \in {0, BookAt(lastId)[p]}
      /\ ~cut => local = BookAt(lastId)
  BY <1>1, <1>2, BooksOfVersions DEF FeedInv, FeedTypes, BookIsExact, ValidSequence
<1>4. ASSUME NEW p \in LevelPrices, p \notin Carried(m)
      PROVE  BookAt(lastId)[p] = BookAt(m.last)[p]
  <2>1. ASSUME NEW id \in (lastId + 1) .. m.last PROVE BookAt(id)[p] = BookAt(id - 1)[p]
    <3>1. id \in m.first .. m.last
      BY <1>1
    <3> QED BY <1>4, <3>1 DEF Carried
  <2>2. lastId <= m.last
    BY <1>1
  <2> QED BY <1>1, <1>2, <2>1, <2>2 DEF FeedInv, QuietLevelsKeep
<1>5. Updated(m) = [p \in LevelPrices |->
          IF p \in Carried(m) THEN BookAt(m.last)[p] ELSE local[p]]
  BY DEF Updated
<1>6. Updated(m) \in Levels
  <2>1. \A p \in LevelPrices : BookAt(m.last)[p] \in 0 .. 1 /\ local[p] \in 0 .. 1
    BY <1>3 DEF Levels
  <2> QED BY <1>5, <2>1 DEF Levels
<1>7. ASSUME NEW p \in LevelPrices PROVE Updated(m)[p] \in {0, BookAt(m.last)[p]}
  <2>1. CASE p \in Carried(m)
    BY <1>5, <2>1
  <2>2. CASE p \notin Carried(m)
    BY <1>3, <1>4, <1>5, <2>2
  <2> QED BY <2>1, <2>2
<1>8. ASSUME ~cut PROVE Updated(m) = BookAt(m.last)
  <2>1. ASSUME NEW p \in LevelPrices PROVE Updated(m)[p] = BookAt(m.last)[p]
    <3>1. CASE p \in Carried(m)
      BY <1>5, <3>1
    <3>2. CASE p \notin Carried(m)
      BY <1>3, <1>4, <1>5, <1>8, <3>2
    <3> QED BY <3>1, <3>2
  <2> QED BY <1>3, <1>6, <2>1 DEF Levels
<1> QED BY <1>2, <1>6, <1>7, <1>8

(* The feed starts in its invariant.                                       *)
LEMMA FeedInitInvariant == FeedInit => FeedInv
<1> SUFFICES ASSUME FeedInit PROVE FeedInv
  OBVIOUS
<1>1. EmptyBook \in Levels
  BY DEF EmptyBook, Levels
<1>2. books \in Seq(Levels) /\ Len(books) = 1
  BY <1>1 DEF FeedInit
<1>3. FirstId \in Int /\ Version = FirstId /\ Versions = {FirstId}
  BY <1>2, FeedAssumption DEF Version, Versions
<1>4. FeedTypes
  BY <1>1, <1>2, <1>3 DEF FeedInit, FeedTypes
<1>5. QuietLevelsKeep
  BY <1>3 DEF QuietLevelsKeep
<1>6. BookIsExact
  BY DEF FeedInit, BookIsExact
<1> QED BY <1>4, <1>5, <1>6 DEF FeedInv

(* The steps of the network and of the client: they lose and delay, and    *)
(* touch neither the exchange's books nor the local one.                   *)
LEMMA BooksUntouched ==
    ASSUME FeedInv, UNCHANGED <<books, local, lastId, received, cut>>,
           wire' \in Seq([first : Int, last : Int]),
           \A i \in 1 .. Len(wire') : wire'[i].last <= Version,
           sent' \in Int,
           snapshot' \in Int, snapshot' >= 0 => snapshot' \in Versions
    PROVE  FeedInv'
<1>1. /\ Version' = Version /\ Versions' = Versions
      /\ \A id : BookAt(id)' = BookAt(id)
  BY BooksStay
<1>2. FeedTypes'
  BY <1>1 DEF FeedInv, FeedTypes
<1>3. QuietLevelsKeep'
  BY <1>1 DEF FeedInv, QuietLevelsKeep
<1>4. BookIsExact'
  BY <1>1 DEF FeedInv, BookIsExact
<1> QED BY <1>2, <1>3, <1>4 DEF FeedInv

(* A message leaves the wire.                                              *)
LEMMA MessageTaken ==
    ASSUME FeedTypes, Receive
    PROVE  /\ Head(wire) \in [first : Int, last : Int] /\ Head(wire).last <= Version
           /\ wire' \in Seq([first : Int, last : Int])
           /\ \A i \in 1 .. Len(wire') : wire'[i].last <= Version
<1>1. wire \in Seq([first : Int, last : Int]) /\ wire # << >> /\ wire' = Tail(wire)
  BY DEF Receive, FeedTypes
<1>2. PICK n \in Nat : n = Len(wire)
  BY <1>1, LenProperties
<1>3. n >= 1
  BY <1>1, <1>2, EmptySeq
<1>4. /\ wire' \in Seq([first : Int, last : Int]) /\ Len(wire') = n - 1
      /\ \A i \in 1 .. (n - 1) : wire'[i] = wire[i + 1]
      /\ Head(wire) = wire[1] /\ Head(wire) \in [first : Int, last : Int]
  <2> DEFINE Message == [first : Int, last : Int]
  <2>1. wire \in Seq(Message) /\ wire # << >>
    BY <1>1
  <2> HIDE DEF Message
  <2>2. /\ Head(wire) \in Message /\ Tail(wire) \in Seq(Message)
        /\ Len(Tail(wire)) = Len(wire) - 1
        /\ \A i \in 1 .. Len(Tail(wire)) : Tail(wire)[i] = wire[i + 1]
    BY <2>1, HeadTailProperties
  <2>3. Head(wire) = wire[1]
    BY <2>1
  <2> QED BY <1>1, <1>2, <2>2, <2>3 DEF Message
<1>5. \A i \in 1 .. n : wire[i].last <= Version
  BY <1>2 DEF FeedTypes
<1>6. Head(wire).last <= Version
  BY <1>3, <1>4, <1>5
<1>7. \A i \in 1 .. (n - 1) : wire'[i].last <= Version
  <2>1. ASSUME NEW i \in 1 .. (n - 1) PROVE wire[i + 1].last <= Version
    <3>1. i + 1 \in 1 .. n
      BY <1>3
    <3> QED BY <1>5, <3>1
  <2> QED BY <1>4, <2>1
<1> QED BY <1>4, <1>6, <1>7
(* Every step of the network and of the client keeps it.                   *)
LEMMA FeedStepInvariant == FeedInv /\ FeedNext => FeedInv'
<1> SUFFICES ASSUME FeedInv, FeedNext PROVE FeedInv'
  OBVIOUS
<1> USE DEF exchangeVars, bookVars, clientVars
<1>1. /\ wire \in Seq([first : Int, last : Int])
      /\ \A i \in 1 .. Len(wire) : wire[i].last <= Version
      /\ sent \in Int /\ snapshot \in Int /\ (snapshot >= 0 => snapshot \in Versions)
      /\ Version \in Int /\ Version \in Versions /\ FirstId \in Int
  BY BooksOfVersions, FeedAssumption DEF FeedInv, FeedTypes
<1>2. CASE BookChanges
  <2>1. /\ books' \in Seq(Levels) /\ Len(books') >= 1
        /\ Version' = Version + 1
        /\ \A id \in Versions : BookAt(id)' = BookAt(id)
    BY <1>2, OlderBooksStay DEF FeedInv
  <2>2. \A id \in Versions : id \in Versions'
    BY <1>1, <2>1 DEF Versions
  <2>3. UNCHANGED <<sent, wire, snapshot, local, lastId, received, cut>>
    BY <1>2 DEF BookChanges
  <2>4. \A i \in 1 .. Len(wire') : wire'[i].last <= Version'
    <3>1. ASSUME NEW i \in 1 .. Len(wire) PROVE wire[i].last <= Version'
      <4>1. wire[i] \in [first : Int, last : Int]
        BY <1>1, ElementOfSeq
      <4>2. wire[i].last \in Int
        BY <4>1
      <4> QED BY <1>1, <2>1, <4>2
    <3> QED BY <2>3, <3>1
  <2>5. FeedTypes'
    BY <2>1, <2>2, <2>3, <2>4 DEF FeedInv, FeedTypes
  <2>6. QuietLevelsKeep'
    BY <1>2, QuietLevelsStep DEF FeedInv
  <2>7. BookIsExact'
    BY <2>1, <2>3 DEF FeedInv, FeedTypes, BookIsExact
  <2> QED BY <2>5, <2>6, <2>7 DEF FeedInv
<1>3. CASE Publish
  <2> DEFINE m == [first |-> sent + 1, last |-> Version]
  <2>1. m \in [first : Int, last : Int] /\ m.last <= Version
    BY <1>1
  <2>2. wire' = Append(wire, m) /\ sent' = Version
    BY <1>3 DEF Publish
  <2> HIDE DEF m
  <2>3. /\ wire' \in Seq([first : Int, last : Int]) /\ Len(wire') = Len(wire) + 1
        /\ \A i \in 1 .. Len(wire) : wire'[i] = wire[i]
        /\ wire'[Len(wire) + 1] = m
    BY <1>1, <2>1, <2>2, AppendProperties
  <2>4. \A i \in 1 .. Len(wire') : wire'[i].last <= Version
    <3>1. PICK n \in Nat : n = Len(wire)
      BY <1>1, LenProperties
    <3>2. ASSUME NEW i \in 1 .. (n + 1) PROVE wire'[i].last <= Version
      <4>1. CASE i \in 1 .. n
        BY <1>1, <2>3, <3>1, <4>1
      <4>2. CASE i = n + 1
        BY <2>1, <2>3, <3>1, <4>2
      <4> QED BY <4>1, <4>2
    <3> QED BY <2>3, <3>1, <3>2
  <2>5. UNCHANGED <<books, snapshot, local, lastId, received, cut>>
    BY <1>3 DEF Publish
  <2> QED BY <1>1, <2>2, <2>3, <2>4, <2>5, BooksUntouched
<1>4. CASE TakeSnapshot
  <2>1. UNCHANGED <<books, sent, wire, local, lastId, received, cut>> /\ snapshot' = Version
    BY <1>4 DEF TakeSnapshot
  <2> QED BY <1>1, <2>1, BooksUntouched
<1>5. CASE ApplySnapshot
  <2>1. /\ snapshot \in Versions /\ UNCHANGED <<books, sent, wire>>
        /\ local' = Best(BookAt(snapshot)) /\ lastId' = snapshot /\ snapshot' = -1
        /\ cut' = (Best(BookAt(snapshot)) # BookAt(snapshot))
    BY <1>1, <1>5 DEF ApplySnapshot
  <2>2. BookAt(snapshot) \in Levels
    BY <2>1, BooksOfVersions DEF FeedInv
  <2>3. Best(BookAt(snapshot)) \in Levels
        /\ \A p \in LevelPrices : Best(BookAt(snapshot))[p] \in {0, BookAt(snapshot)[p]}
    BY <2>2, BestDropsOnly
  <2>4. /\ Version' = Version /\ Versions' = Versions
        /\ \A id : BookAt(id)' = BookAt(id)
    BY <2>1, BooksStay
  <2>5. FeedTypes'
    BY <1>1, <2>1, <2>3, <2>4 DEF FeedInv, FeedTypes
  <2>6. QuietLevelsKeep'
    BY <2>4 DEF FeedInv, QuietLevelsKeep
  <2>7. BookAt(lastId)' = BookAt(snapshot)
    BY <2>1 DEF BookAt
  <2>8. BookIsExact'
    BY <2>1, <2>3, <2>7 DEF BookIsExact
  <2> QED BY <2>5, <2>6, <2>8 DEF FeedInv
<1>6. CASE ApplyUpdate
  <2> DEFINE m == Head(wire)
  <2>1. /\ Receive /\ ValidSequence(m) /\ UNCHANGED <<books, sent, snapshot, received>>
        /\ local' = Best(Updated(m)) /\ lastId' = m.last
        /\ cut' = (cut \/ Best(Updated(m)) # Updated(m))
    BY <1>6 DEF ApplyUpdate, Receive
  <2>2. /\ m \in [first : Int, last : Int] /\ m.last <= Version
        /\ wire' \in Seq([first : Int, last : Int])
        /\ \A i \in 1 .. Len(wire') : wire'[i].last <= Version
    BY <2>1, MessageTaken DEF FeedInv
  <2> HIDE DEF m
  <2>3. /\ m.last \in Versions
        /\ Updated(m) \in Levels
        /\ \A p \in LevelPrices : Updated(m)[p] \in {0, BookAt(m.last)[p]}
        /\ ~cut => Updated(m) = BookAt(m.last)
    BY <2>1, <2>2, UpdateIsExact
  <2>4. Best(Updated(m)) \in Levels
        /\ \A p \in LevelPrices : Best(Updated(m))[p] \in {0, Updated(m)[p]}
    BY <2>3, BestDropsOnly
  <2>5. /\ Version' = Version /\ Versions' = Versions
        /\ \A id : BookAt(id)' = BookAt(id)
    BY <2>1, BooksStay
  <2>6. FeedTypes'
    <3>1. m.last \in Int
      BY <2>2
    <3> QED BY <1>1, <2>1, <2>2, <2>3, <2>4, <2>5, <3>1 DEF FeedInv, FeedTypes
  <2>7. QuietLevelsKeep'
    BY <2>5 DEF FeedInv, QuietLevelsKeep
  <2>8. BookAt(lastId)' = BookAt(m.last)
    BY <2>1 DEF BookAt
  <2>9. BookIsExact'
    BY <2>1, <2>3, <2>4, <2>8 DEF BookIsExact
  <2> QED BY <2>6, <2>7, <2>9 DEF FeedInv
<1>7. CASE RefuseUpdate
  <2>1. Receive /\ UNCHANGED <<books, sent, snapshot, local, lastId, received, cut>>
    BY <1>7 DEF RefuseUpdate, Receive
  <2>2. /\ wire' \in Seq([first : Int, last : Int])
        /\ \A i \in 1 .. Len(wire') : wire'[i].last <= Version
    BY <2>1, MessageTaken DEF FeedInv
  <2> QED BY <1>1, <2>1, <2>2, BooksUntouched
<1>8. CASE Connect
  <2>1. UNCHANGED <<books, wire, snapshot, local, lastId, received, cut>> /\ sent' = Version
    BY <1>8 DEF Connect
  <2> QED BY <1>1, <2>1, BooksUntouched
<1>9. CASE LeaveStream \/ StreamDies
  <2>1. UNCHANGED <<books, sent, snapshot, local, lastId, received, cut>> /\ wire' = << >>
    BY <1>9 DEF LeaveStream, StreamDies
  <2>2. /\ wire' \in Seq([first : Int, last : Int])
        /\ \A i \in 1 .. Len(wire') : wire'[i].last <= Version
    BY <2>1
  <2> QED BY <1>1, <2>1, <2>2, BooksUntouched
<1>10. CASE ConnectFails \/ RestartTimer \/ FeedTick
  <2>1. UNCHANGED <<exchangeVars, bookVars>>
    BY <1>10 DEF ConnectFails, RestartTimer, FeedTick
  <2> QED BY <1>1, <2>1, BooksUntouched
<1> QED BY <1>2, <1>3, <1>4, <1>5, <1>6, <1>7, <1>8, <1>9, <1>10
        DEF FeedNext, StreamEnds, LeaveQuietStream
-----------------------------------------------------------------------------
(* The engine's counters.                                                  *)
EngineTypes ==
    /\ queue \in Seq(Nat \ {0}) /\ offered \in Nat /\ lost \in Nat
    /\ priority \in Seq(Nat) /\ standard \in Nat
    /\ taken \in Nat /\ ordered \in Nat /\ sending \in Nat /\ refused \in Nat
    /\ orderEvents \in Nat /\ standardEvents \in Nat
    /\ eventsProcessed \in Nat

(* strategy_loop sends one order before it takes the next tick.            *)
OneInHand == taken = 0 \/ sending = 0

EngineInv == EngineTypes /\ OneInHand /\ EventsAccounted

(* Quotient and remainder are unique, so a counter that wraps at every     *)
(* step is the count taken modulo its size at the end.                     *)
LEMMA RemainderIsUnique ==
    ASSUME NEW size \in Nat \ {0}, NEW n \in Int, NEW q \in Int, NEW r \in 0 .. (size - 1),
           n = q * size + r
    PROVE  n % size = r
<1> DEFINE d == n \div size
           m == n % size
<1>1. d \in Int /\ m \in Int /\ 0 <= m /\ m < size /\ n = size * d + m
  OBVIOUS
<1> HIDE DEF d, m
<1>2. (q - d) * size = m - r
  BY <1>1
<1>3. CASE q - d >= 1
  <2>1. (q - d) * size >= size
    BY <1>1, <1>3
  <2> QED BY <1>1, <1>2, <2>1
<1>4. CASE q - d <= -1
  <2>1. (q - d) * size <= -size
    BY <1>1, <1>4
  <2> QED BY <1>1, <1>2, <2>1
<1>5. CASE q - d = 0
  BY <1>1, <1>2, <1>5 DEF m
<1> QED BY <1>1, <1>3, <1>4, <1>5

(* A sum that is taken modulo the counter's size at every step is the one  *)
(* taken modulo it at the end.                                             *)
LEMMA WrappingAddition ==
    ASSUME NEW size \in Nat \ {0}, NEW a \in Int, NEW b \in Int
    PROVE  (a + (b % size)) % size = (a + b) % size
<1> DEFINE s == a + (b % size)
           d == b \div size
           m == s % size
           e == s \div size
<1>1. d \in Int /\ b % size \in Int /\ b = size * d + (b % size)
  OBVIOUS
<1>2. s \in Int
  BY <1>1
<1>3. e \in Int /\ m \in 0 .. (size - 1) /\ s = size * e + m
  BY <1>2
<1>4. a + b = s + size * d
  BY <1>1
<1> HIDE DEF s, d, m, e
<1>5. a + b = (e + d) * size + m
  <2>1. (e + d) * size = size * e + size * d
    BY <1>1, <1>3
  <2> QED BY <1>1, <1>2, <1>3, <1>4, <2>1
<1>6. e + d \in Int
  BY <1>1, <1>3
<1>7. (a + b) % size = m
  <2>1. PICK n \in Int, k \in Int : n = a + b /\ k = e + d /\ n = k * size + m
    BY <1>5, <1>6
  <2>2. n % size = m
    BY <1>3, <2>1, RemainderIsUnique
  <2> QED BY <2>1, <2>2
<1> QED BY <1>7 DEF m, s

(* One more event, whoever received it.                                    *)
LEMMA OneMoreEvent ==
    ASSUME NEW n \in Int, eventsProcessed = n % CounterSize, CountEvent
    PROVE  eventsProcessed' = (n + 1) % CounterSize /\ eventsProcessed' \in Nat
<1>1. eventsProcessed' = (1 + (n % CounterSize)) % CounterSize
  BY CounterAssumption DEF CountEvent
<1>2. (1 + (n % CounterSize)) % CounterSize = (1 + n) % CounterSize
  <2> DEFINE one == 1
  <2>1. CounterSize \in Nat \ {0} /\ one \in Int
    BY CounterAssumption
  <2> HIDE DEF one
  <2>2. (one + (n % CounterSize)) % CounterSize = (one + n) % CounterSize
    BY <2>1, WrappingAddition
  <2> QED BY <2>2 DEF one
<1>3. (1 + n) % CounterSize \in Nat /\ 1 + n = n + 1
  BY CounterAssumption
<1> QED BY <1>1, <1>2, <1>3

(* The engine starts with nothing to account for.                          *)
LEMMA EngineInitInvariant == EngineInit => EngineInv
<1> SUFFICES ASSUME EngineInit PROVE EngineInv
  OBVIOUS
<1>1. EngineTypes
  BY DEF EngineInit, EngineTypes, Ticks!Init
<1>2. Len(priority) = 0 /\ Len(queue) = 0
  BY DEF EngineInit, Ticks!Init
<1>3. 0 = 0 % CounterSize
  BY CounterAssumption
<1>4. EventsAccounted
  BY <1>2, <1>3 DEF EngineInit, Ticks!Init, EventsAccounted, BeingCounted
<1> QED BY <1>1, <1>4 DEF EngineInv, EngineInit, OneInHand

(* Every step of its threads keeps the accounts.                           *)
LEMMA EngineStepInvariant == EngineInv /\ EngineNext => EngineInv'
<1> SUFFICES ASSUME EngineInv, EngineNext PROVE EngineInv'
  OBVIOUS
<1> USE DEF tickVars, strategyVars, eventVars
<1>0. /\ EngineTypes /\ OneInHand
      /\ ordered = orderEvents + Len(priority) + refused + (IF sending = 0 THEN 0 ELSE 1)
      /\ eventsProcessed = ((offered - lost - Len(queue)) + orderEvents + standardEvents
                              - BeingCounted) % CounterSize
  BY DEF EngineInv, EventsAccounted
<1>t. /\ queue \in Seq(Nat \ {0}) /\ offered \in Nat /\ lost \in Nat /\ priority \in Seq(Nat)
      /\ standard \in Nat /\ taken \in Nat /\ ordered \in Nat /\ sending \in Nat /\ refused \in Nat
      /\ orderEvents \in Nat /\ standardEvents \in Nat /\ eventsProcessed \in Nat
  BY <1>0 DEF EngineTypes
<1>c. BeingCounted \in Int /\ BeingCounted' \in Int
  BY DEF BeingCounted
<1>l. Len(queue) \in Nat /\ Len(priority) \in Nat
  BY <1>t, LenProperties
<1>1. CASE PushTick
  <2>1. UNCHANGED <<priority, standard, strategyVars, eventVars, eventsProcessed>>
    BY <1>1 DEF PushTick
  <2>2. /\ queue' \in Seq(Nat \ {0}) /\ offered' \in Nat /\ lost' \in Nat
        /\ offered' - lost' - Len(queue') = offered - lost - Len(queue)
    <3>1. CASE Ticks!Accept
      <4>1. offered' = offered + 1 /\ lost' = lost /\ queue' = Append(queue, offered + 1)
        BY <3>1 DEF Ticks!Accept
      <4>2. offered + 1 \in Nat \ {0}
        BY <1>t
      <4>3. queue' \in Seq(Nat \ {0}) /\ Len(queue') = Len(queue) + 1
        BY <1>t, <4>1, <4>2, AppendProperties
      <4> QED BY <1>t, <1>l, <4>1, <4>3
    <3>2. CASE Ticks!Refuse
      BY <1>t, <1>l, <3>2 DEF Ticks!Refuse
    <3> QED BY <1>1, <3>1, <3>2 DEF PushTick
  <2>3. EngineTypes'
    BY <1>t, <2>1, <2>2 DEF EngineTypes
  <2>4. EventsAccounted'
    BY <1>0, <2>1, <2>2 DEF EventsAccounted, BeingCounted
  <2> QED BY <1>0, <2>1, <2>3, <2>4 DEF EngineInv, OneInHand
<1>2. CASE PopTick
  <2>1. /\ queue # << >> /\ queue' = Tail(queue)
        /\ sending = 0 /\ taken = 0 /\ taken' = Head(queue)
        /\ UNCHANGED <<offered, lost, priority, standard, ordered, sending, refused, eventVars,
                       eventsProcessed>>
    BY <1>2 DEF PopTick, Ticks!Deliver
  <2>2. queue' \in Seq(Nat \ {0}) /\ Len(queue') = Len(queue) - 1 /\ taken' \in Nat \ {0}
    BY <1>t, <2>1, HeadTailProperties
  <2>3. BeingCounted' = BeingCounted + 1
    BY <2>1, <2>2 DEF BeingCounted
  <2>4. (offered' - lost' - Len(queue')) + orderEvents' + standardEvents' - BeingCounted'
           = (offered - lost - Len(queue)) + orderEvents + standardEvents - BeingCounted
    BY <1>t, <1>c, <1>l, <2>1, <2>2, <2>3
  <2>5. EngineTypes'
    BY <1>t, <2>1, <2>2 DEF EngineTypes
  <2>6. EventsAccounted'
    BY <1>0, <2>1, <2>4 DEF EventsAccounted
  <2> QED BY <2>1, <2>5, <2>6 DEF EngineInv, OneInHand
<1>7. CASE CountTick
  <2> DEFINE n == (offered - lost - Len(queue)) + orderEvents + standardEvents - BeingCounted
  <2>1. /\ taken # 0 /\ taken' = 0 /\ CountEvent
        /\ UNCHANGED <<tickVars, priority, standard, refused, eventVars>>
        /\ \/ ordered' = ordered + 1 /\ sending' = ordered + 1
           \/ ordered' = ordered /\ sending' = sending
    BY <1>7 DEF CountTick
  <2>9. sending = 0
    BY <1>0, <2>1 DEF OneInHand
  <2>2. BeingCounted' = BeingCounted - 1
    BY <2>1 DEF BeingCounted
  <2>3. n \in Int /\ eventsProcessed = n % CounterSize
    BY <1>0, <1>t, <1>c, <1>l
  <2>5. n + 1 = (offered' - lost' - Len(queue')) + orderEvents' + standardEvents'
                  - BeingCounted'
    BY <1>t, <1>c, <1>l, <2>1, <2>2 DEF n
  <2> HIDE DEF n
  <2>4. eventsProcessed' = (n + 1) % CounterSize /\ eventsProcessed' \in Nat
    BY <2>1, <2>3, OneMoreEvent
  <2>6. ordered' \in Nat /\ sending' \in Nat
        /\ ordered' = orderEvents' + Len(priority') + refused'
                        + (IF sending' = 0 THEN 0 ELSE 1)
    BY <1>0, <1>t, <1>l, <2>1, <2>9
  <2>7. EngineTypes'
    BY <1>t, <2>1, <2>4, <2>6 DEF EngineTypes
  <2>8. EventsAccounted'
    BY <2>4, <2>5, <2>6 DEF EventsAccounted
  <2> QED BY <2>1, <2>7, <2>8 DEF EngineInv, OneInHand
<1>3. CASE SendOrder
  <2>1. /\ sending # 0 /\ sending' = 0
        /\ UNCHANGED <<tickVars, standard, taken, ordered, eventVars, eventsProcessed>>
        /\ \/ priority' = Append(priority, sending) /\ refused' = refused
           \/ priority' = priority /\ refused' = refused + 1
    BY <1>3 DEF SendOrder
  <2>2. priority' \in Seq(Nat) /\ refused' \in Nat
        /\ Len(priority') + refused' = Len(priority) + refused + 1 /\ Len(priority') \in Nat
    <3>1. /\ Append(priority, sending) \in Seq(Nat)
          /\ Len(Append(priority, sending)) = Len(priority) + 1
      BY <1>t, AppendProperties
    <3>2. CASE priority' = Append(priority, sending) /\ refused' = refused
      <4>1. Len(priority') = Len(priority) + 1
        BY <3>1, <3>2
      <4> QED BY <1>t, <1>l, <3>1, <3>2, <4>1
    <3>3. CASE priority' = priority /\ refused' = refused + 1
      <4>1. Len(priority') = Len(priority)
        BY <3>3
      <4> QED BY <1>t, <1>l, <3>3, <4>1
    <3> QED BY <2>1, <3>2, <3>3
  <2>3. EngineTypes'
    BY <1>t, <2>1, <2>2 DEF EngineTypes
  <2>4. EventsAccounted'
    <3>1. ordered = orderEvents + Len(priority) + refused + 1
      BY <1>0, <2>1
    <3>2. PICK p \in Nat, r \in Nat : p = Len(priority') /\ r = refused'
      BY <2>2
    <3>3. p + r = Len(priority) + refused + 1
      BY <2>2, <3>2
    <3>4. ordered = orderEvents + p + r
      BY <1>t, <1>l, <3>1, <3>3
    <3>5. ordered' = orderEvents' + Len(priority') + refused'
      BY <2>1, <3>2, <3>4
    <3>6. ordered' = orderEvents' + Len(priority') + refused'
                        + (IF sending' = 0 THEN 0 ELSE 1)
      <4>1. orderEvents' + Len(priority') + refused' \in Int /\ sending' = 0
        BY <1>t, <2>1, <2>2
      <4> QED BY <3>5, <4>1
    <3> QED BY <1>0, <2>1, <3>6 DEF EventsAccounted, BeingCounted
  <2> QED BY <2>1, <2>3, <2>4 DEF EngineInv, OneInHand
<1>4. CASE RecvPriority
  <2>1. /\ priority # << >> /\ priority' = Tail(priority) /\ orderEvents' = orderEvents + 1
        /\ epc = "priority" /\ epc' = "countOrder"
        /\ UNCHANGED <<tickVars, standard, strategyVars, standardEvents, eventsProcessed>>
    BY <1>4 DEF RecvPriority
  <2>2. priority' \in Seq(Nat) /\ Len(priority') = Len(priority) - 1
    BY <1>t, <2>1, HeadTailProperties
  <2>3. BeingCounted' = BeingCounted + 1
    BY <2>1 DEF BeingCounted
  <2>4. (offered' - lost' - Len(queue')) + orderEvents' + standardEvents' - BeingCounted'
           = (offered - lost - Len(queue)) + orderEvents + standardEvents - BeingCounted
    BY <1>t, <1>c, <1>l, <2>1, <2>3
  <2>5. ordered' = orderEvents' + Len(priority') + refused' + (IF sending' = 0 THEN 0 ELSE 1)
    BY <1>0, <1>t, <1>l, <2>1, <2>2
  <2>6. EngineTypes'
    BY <1>t, <2>1, <2>2 DEF EngineTypes
  <2>7. EventsAccounted'
    BY <1>0, <2>1, <2>4, <2>5 DEF EventsAccounted
  <2> QED BY <1>0, <2>1, <2>6, <2>7 DEF EngineInv, OneInHand
<1>5. CASE RecvStandard
  <2> DEFINE a == (offered - lost - Len(queue)) + orderEvents - BeingCounted
  <2>1. /\ standardEvents' = (standardEvents + 1) % CounterSize
        /\ standard' = standard - 1 /\ standard > 0
        /\ epc = "standard" /\ epc' = "countStandard"
        /\ UNCHANGED <<tickVars, priority, strategyVars, orderEvents, eventsProcessed>>
    BY <1>5 DEF RecvStandard
  <2>2. BeingCounted' = BeingCounted + 1
    BY <2>1 DEF BeingCounted
  <2>3. /\ a \in Int /\ eventsProcessed = (a + standardEvents) % CounterSize
        /\ (offered' - lost' - Len(queue')) + orderEvents' + standardEvents' - BeingCounted'
             = (a - 1) + standardEvents'
    <3>1. a + standardEvents
            = (offered - lost - Len(queue)) + orderEvents + standardEvents - BeingCounted
      BY <1>t, <1>c, <1>l
    <3>2. standardEvents' \in Int
      BY <1>t, <2>1, CounterAssumption
    <3> QED BY <1>0, <1>t, <1>c, <1>l, <2>1, <2>2, <3>1, <3>2
  <2> HIDE DEF a
  <2>4. ((a - 1) + ((standardEvents + 1) % CounterSize)) % CounterSize
            = ((a - 1) + (standardEvents + 1)) % CounterSize
    <3>1. PICK b \in Int, c \in Int : b = a - 1 /\ c = standardEvents + 1
      BY <1>t, <2>3
    <3>2. (b + (c % CounterSize)) % CounterSize = (b + c) % CounterSize
      BY <3>1, CounterAssumption, WrappingAddition
    <3> QED BY <3>1, <3>2
  <2>5. (a - 1) + (standardEvents + 1) = a + standardEvents
    BY <1>t, <2>3
  <2>6. eventsProcessed' = ((a - 1) + standardEvents') % CounterSize
    BY <2>1, <2>3, <2>4, <2>5
  <2>7. EventsAccounted'
    BY <1>0, <2>1, <2>3, <2>6 DEF EventsAccounted
  <2>8. standardEvents' \in Nat /\ standard' \in Nat
    BY <1>t, <2>1, CounterAssumption
  <2>9. EngineTypes'
    BY <1>t, <2>1, <2>8 DEF EngineTypes
  <2> QED BY <1>0, <2>1, <2>7, <2>9 DEF EngineInv, OneInHand
<1>8. CASE CountOrder \/ CountStandard
  <2> DEFINE n == (offered - lost - Len(queue)) + orderEvents + standardEvents - BeingCounted
  <2>1. /\ epc \in {"countOrder", "countStandard"} /\ epc' \in {"priority", "standard"}
        /\ UNCHANGED <<tickVars, priority, standard, strategyVars, orderEvents, standardEvents>>
        /\ CountEvent
    BY <1>8 DEF CountOrder, CountStandard
  <2>2. BeingCounted' = BeingCounted - 1
    BY <2>1 DEF BeingCounted
  <2>3. n \in Int /\ eventsProcessed = n % CounterSize
    BY <1>0, <1>t, <1>c, <1>l
  <2>4. n + 1 = (offered' - lost' - Len(queue')) + orderEvents' + standardEvents'
                  - BeingCounted'
    BY <1>t, <1>c, <1>l, <2>1, <2>2
  <2> HIDE DEF n
  <2>5. eventsProcessed' = (n + 1) % CounterSize /\ eventsProcessed' \in Nat
    BY <2>1, <2>3, OneMoreEvent
  <2>6. EngineTypes'
    BY <1>t, <2>1, <2>5 DEF EngineTypes
  <2>7. EventsAccounted'
    BY <1>0, <2>1, <2>4, <2>5 DEF EventsAccounted
  <2> QED BY <1>0, <2>1, <2>6, <2>7 DEF EngineInv, OneInHand
<1>6. CASE PriorityDrained \/ StandardDrained \/ SendStandard \/ Stop
  <2>1. /\ UNCHANGED <<tickVars, priority, strategyVars, orderEvents, standardEvents,
                       eventsProcessed>>
        /\ standard' \in {standard, standard + 1}
    BY <1>6 DEF PriorityDrained, StandardDrained, SendStandard, Stop
  <2>2. BeingCounted' = BeingCounted
    BY <1>6 DEF PriorityDrained, StandardDrained, SendStandard, Stop, BeingCounted
  <2>3. EngineTypes'
    BY <1>t, <2>1 DEF EngineTypes
  <2>4. EventsAccounted'
    BY <1>0, <2>1, <2>2 DEF EventsAccounted
  <2> QED BY <1>0, <2>1, <2>3, <2>4 DEF EngineInv, OneInHand
<1> QED BY <1>1, <1>2, <1>3, <1>4, <1>5, <1>6, <1>7, <1>8
        DEF EngineNext, NetworkThread, StrategyThread, EventThread
-----------------------------------------------------------------------------
(* The backtest's book.  A set of numbers that is not empty has a least    *)
(* one, and a greatest one if it has a bound: what takes induction below   *)
(* takes it from here, as the least number for which a claim fails.        *)
LEMMA LeastNumber ==
    ASSUME NEW T \in SUBSET Nat, T # {}
    PROVE  \E m \in T : \A y \in T : m <= y
<1> DEFINE R == {ss \in Nat \X Nat : ss[1] < ss[2]}
<1>1. IsWellFoundedOn(R, Nat)
  BY NatLessThanWellFounded DEF OpToRel
<1>2. PICK m \in T : \A y \in T : ~(<<y, m>> \in R)
  <2> HIDE DEF R
  <2> QED BY <1>1, WFMin
<1>3. ASSUME NEW y \in T PROVE m <= y
  <2>1. <<y, m>> \in Nat \X Nat
    OBVIOUS
  <2>2. ~(y < m)
    BY <1>2, <2>1
  <2> QED BY <2>2
<1> QED BY <1>3

(* The greatest number of a set with a bound.                              *)
LEMMA GreatestNumber ==
    ASSUME NEW T \in SUBSET Nat, T # {}, NEW bound \in Nat, \A y \in T : y <= bound
    PROVE  Max(T) \in T /\ \A y \in T : y <= Max(T)
<1> DEFINE Above == {n \in Nat : \A y \in T : y <= n}
<1>1. PICK m \in Above : \A n \in Above : m <= n
  <2>1. bound \in Above
    OBVIOUS
  <2> HIDE DEF Above
  <2>2. Above \in SUBSET Nat
    BY DEF Above
  <2> QED BY <2>1, <2>2, LeastNumber
<1>2. m \in Nat /\ \A y \in T : y <= m
  OBVIOUS
<1>3. m \in T
  <2> SUFFICES ASSUME m \notin T PROVE FALSE
    OBVIOUS
  <2>1. \A y \in T : y < m
    BY <1>2
  <2>a. PICK z \in T : z \in Nat /\ z < m
    BY <2>1
  <2>2. m - 1 \in Nat /\ \A y \in T : y <= m - 1
    <3>1. m - 1 \in Nat
      BY <1>2, <2>a
    <3>2. ASSUME NEW y \in T PROVE y <= m - 1
      <4>1. y \in Nat /\ y < m
        BY <2>1
      <4> QED BY <1>2, <4>1
    <3> QED BY <3>1, <3>2
  <2>3. m - 1 \in Above
    BY <2>2
  <2>4. m <= m - 1
    BY <1>1, <2>3
  <2> QED BY <1>2, <2>4
<1>4. \E x \in T : \A y \in T : x >= y
  BY <1>2, <1>3
<1>5. Max(T) \in T /\ \A y \in T : Max(T) >= y
  BY <1>4 DEF Max
<1> QED BY <1>5

(* Min of a set of numbers.                                                *)
LEMMA LeastOfNumbers ==
    ASSUME NEW T \in SUBSET Nat, T # {}
    PROVE  Min(T) \in T /\ \A y \in T : Min(T) <= y
<1>1. \E x \in T : \A y \in T : x <= y
  BY LeastNumber
<1> QED BY <1>1 DEF Min

-----------------------------------------------------------------------------
(* The sum of the quantities in a queue, as a number of pieces: an order   *)
(* of quantity q at position i is the pieces <<i, 1>> to <<i, q>>.         *)
QueuedOrder == [id : Nat, quantity : Nat]
Pieces(s, positions) ==
    {u \in positions \X (Nat \ {0}) : u[2] <= s[u[1]].quantity}

(* The pieces of one position are as many as its quantity.                 *)
LEMMA PositionPieces ==
    ASSUME NEW s \in Seq(QueuedOrder), NEW A \in SUBSET (1 .. Len(s)), NEW x \in A,
           IsFiniteSet(Pieces(s, A \ {x}))
    PROVE  /\ IsFiniteSet(Pieces(s, A))
           /\ Cardinality(Pieces(s, A)) = Cardinality(Pieces(s, A \ {x})) + s[x].quantity
<1>1. PICK q \in Nat : q = s[x].quantity
  <2>1. s[x] \in QueuedOrder
    BY ElementOfSeq
  <2> QED BY <2>1 DEF QueuedOrder
<1> DEFINE old == Pieces(s, A \ {x})
           new == {x} \X (1 .. q)
<1>2. Pieces(s, A) = old \cup new
  BY <1>1 DEF Pieces
<1>3. old \cap new = {}
  BY DEF Pieces
<1>4. IsFiniteSet(new) /\ Cardinality(new) = q
  <2>1. IsFiniteSet({x}) /\ Cardinality({x}) = 1
    BY FS_Singleton
  <2>2. IsFiniteSet(1 .. q) /\ Cardinality(1 .. q) = q
    <3>1. 1 \in Int /\ q \in Int /\ (IF 1 > q THEN 0 ELSE q - 1 + 1) = q
      OBVIOUS
    <3>2. IsFiniteSet(1 .. q) /\ Cardinality(1 .. q) = IF 1 > q THEN 0 ELSE q - 1 + 1
      BY <3>1, FS_Interval
    <3> QED BY <3>1, <3>2
  <2>3. IsFiniteSet(new) /\ Cardinality(new) = 1 * q
    <3> DEFINE span == 1 .. q
               one == {x}
    <3>1. IsFiniteSet(one) /\ Cardinality(one) = 1 /\ IsFiniteSet(span) /\ Cardinality(span) = q
      BY <2>1, <2>2
    <3>2. new = one \X span
      OBVIOUS
    <3> HIDE DEF span, one, new
    <3>3. IsFiniteSet(one \X span) /\ Cardinality(one \X span) = Cardinality(one) * Cardinality(span)
      BY <3>1, FS_Product
    <3> QED BY <3>1, <3>2, <3>3
  <2> QED BY <2>3
<1>5. IsFiniteSet(old) /\ Cardinality(old) \in Nat
  BY FS_CardinalityType
<1> HIDE DEF old, new
<1>6. /\ IsFiniteSet(old \cup new)
      /\ Cardinality(old \cup new) = Cardinality(old) + Cardinality(new) - Cardinality(old \cap new)
  BY <1>4, <1>5, FS_Union
<1>7. Cardinality(old \cap new) = 0
  BY <1>3, FS_EmptySet
<1>8. Cardinality(old \cup new) = Cardinality(old) + q
  BY <1>4, <1>5, <1>6, <1>7
<1> QED BY <1>1, <1>2, <1>6, <1>8 DEF old

(* A queue has finitely many pieces.                                       *)
LEMMA PiecesAreFinite ==
    ASSUME NEW s \in Seq(QueuedOrder), NEW A \in SUBSET (1 .. Len(s))
    PROVE  IsFiniteSet(Pieces(s, A)) /\ Cardinality(Pieces(s, A)) \in Nat
<1>1. PICK n \in Nat : n = Len(s)
  BY LenProperties
<1> DEFINE Bad == {k \in 0 .. n : ~IsFiniteSet(Pieces(s, 1 .. k))}
<1>2. Bad = {}
  <2> SUFFICES ASSUME Bad # {} PROVE FALSE
    OBVIOUS
  <2>1. Bad \in SUBSET Nat
    OBVIOUS
  <2> HIDE DEF Bad
  <2>2. PICK k \in Bad : \A y \in Bad : k <= y
    BY <2>1, LeastNumber
  <2>3. k \in 0 .. n /\ ~IsFiniteSet(Pieces(s, 1 .. k))
    BY DEF Bad
  <2>4. k # 0
    <3>1. Pieces(s, 1 .. 0) = {}
      BY DEF Pieces
    <3> QED BY <2>3, <3>1, FS_EmptySet
  <2>5. k - 1 \in 0 .. n /\ ~(k <= k - 1)
    BY <2>3, <2>4
  <2>6. k - 1 \notin Bad
    BY <2>2, <2>5
  <2>7. IsFiniteSet(Pieces(s, 1 .. (k - 1)))
    BY <2>5, <2>6 DEF Bad
  <2>8. (1 .. k) \ {k} = 1 .. (k - 1) /\ k \in 1 .. k /\ 1 .. k \subseteq 1 .. Len(s)
    BY <1>1, <2>3, <2>4
  <2>9. IsFiniteSet(Pieces(s, 1 .. k))
    <3> DEFINE A0 == 1 .. k
    <3>1. A0 \in SUBSET (1 .. Len(s)) /\ k \in A0 /\ A0 \ {k} = 1 .. (k - 1)
      BY <2>8
    <3> HIDE DEF A0
    <3>2. IsFiniteSet(Pieces(s, A0 \ {k}))
      BY <2>7, <3>1
    <3>3. IsFiniteSet(Pieces(s, A0))
      BY <3>1, <3>2, PositionPieces
    <3> QED BY <3>3 DEF A0
  <2> QED BY <2>3, <2>9
<1>3. IsFiniteSet(Pieces(s, 1 .. Len(s)))
  <2>1. n \in 0 .. n /\ n \notin Bad
    BY <1>2
  <2> QED BY <1>1, <2>1
<1>4. Pieces(s, A) \in SUBSET Pieces(s, 1 .. Len(s))
  BY DEF Pieces
<1>5. IsFiniteSet(Pieces(s, A))
  BY <1>3, <1>4, FS_Subset
<1> QED BY <1>5, FS_CardinalityType
(* The fold of the model counts the pieces.                                *)
FoldEquation(s, iter) ==
    iter = [a \in SUBSET DOMAIN s |->
               IF a = {} THEN 0
               ELSE s[CHOOSE x \in a : TRUE].quantity + iter[a \ {CHOOSE x \in a : TRUE}]]

(* The fold the model takes a queue's quantity by, unfolded.               *)
LEMMA QuantityIsFold ==
    ASSUME NEW s
    PROVE  Quantity(s) = (CHOOSE iter : FoldEquation(s, iter))[DOMAIN s]
BY DEF Quantity, FoldSeq, FoldFunction, FoldFunctionOnSet, MapThenFoldSet, FoldEquation

(* The numbers of pieces satisfy the fold's equation.                      *)
LEMMA PiecesFold ==
    ASSUME NEW s \in Seq(QueuedOrder)
    PROVE  FoldEquation(s, [a \in SUBSET DOMAIN s |-> Cardinality(Pieces(s, a))])
<1>1. DOMAIN s = 1 .. Len(s)
  BY LenProperties
<1> DEFINE G == [a \in SUBSET DOMAIN s |-> Cardinality(Pieces(s, a))]
<1>2. ASSUME NEW a \in SUBSET DOMAIN s
      PROVE  G[a] = IF a = {} THEN 0
                    ELSE s[CHOOSE x \in a : TRUE].quantity + G[a \ {CHOOSE x \in a : TRUE}]
  <2>1. CASE a = {}
    <3>1. Pieces(s, a) = {}
      BY <2>1 DEF Pieces
    <3> QED BY <2>1, <3>1, FS_EmptySet
  <2>2. CASE a # {}
    <3>1. PICK c \in a : c = CHOOSE x \in a : TRUE
      BY <2>2
    <3>2. a \in SUBSET (1 .. Len(s)) /\ a \ {c} \in SUBSET (1 .. Len(s))
      BY <1>1
    <3>3. IsFiniteSet(Pieces(s, a \ {c})) /\ Cardinality(Pieces(s, a \ {c})) \in Nat
      BY <3>2, PiecesAreFinite
    <3>4. Cardinality(Pieces(s, a)) = Cardinality(Pieces(s, a \ {c})) + s[c].quantity
      BY <3>2, <3>3, PositionPieces
    <3>5. s[c].quantity \in Nat
      <4>1. c \in 1 .. Len(s)
        BY <3>2
      <4>2. s[c] \in QueuedOrder
        BY <4>1, ElementOfSeq
      <4> QED BY <4>2 DEF QueuedOrder
    <3>6. G[a] = Cardinality(Pieces(s, a)) /\ G[a \ {c}] = Cardinality(Pieces(s, a \ {c}))
      OBVIOUS
    <3> HIDE DEF G
    <3>7. G[a] = s[c].quantity + G[a \ {c}]
      BY <3>3, <3>4, <3>5, <3>6
    <3> QED BY <2>2, <3>1, <3>7
  <2> QED BY <2>1, <2>2
<1>3. G = [a \in SUBSET DOMAIN s |-> G[a]]
  OBVIOUS
<1> HIDE DEF G
<1>4. FoldEquation(s, G)
  BY <1>2, <1>3 DEF FoldEquation
<1> QED BY <1>4 DEF G

(* So the quantity of a queue is its number of pieces: a fold's equation   *)
(* has no two solutions, as the smallest set of positions they differ on   *)
(* would need a smaller one.                                               *)
LEMMA QuantityIsPieces ==
    ASSUME NEW s \in Seq(QueuedOrder)
    PROVE  /\ Quantity(s) = Cardinality(Pieces(s, 1 .. Len(s)))
           /\ Quantity(s) \in Nat
<1> DEFINE D == DOMAIN s
           G == [a \in SUBSET D |-> Cardinality(Pieces(s, a))]
           I == CHOOSE iter : FoldEquation(s, iter)
<1>1. D = 1 .. Len(s) /\ Len(s) \in Nat
  BY LenProperties
<1>2. FoldEquation(s, G)
  BY PiecesFold
<1>3. FoldEquation(s, I)
  BY <1>2
<1>4. ASSUME NEW a \in SUBSET D
      PROVE  /\ I[a] = IF a = {} THEN 0
                       ELSE s[CHOOSE x \in a : TRUE].quantity + I[a \ {CHOOSE x \in a : TRUE}]
             /\ G[a] = IF a = {} THEN 0
                       ELSE s[CHOOSE x \in a : TRUE].quantity + G[a \ {CHOOSE x \in a : TRUE}]
  <2> HIDE DEF I, G
  <2> QED BY <1>2, <1>3 DEF FoldEquation
<1>5. IsFiniteSet(D)
  BY <1>1, FS_Interval
<1> DEFINE Bad == {n \in Nat : \E a \in SUBSET D : Cardinality(a) = n /\ I[a] # G[a]}
<1>6. Bad = {}
  <2> SUFFICES ASSUME Bad # {} PROVE FALSE
    OBVIOUS
  <2>1. Bad \in SUBSET Nat
    OBVIOUS
  <2>2. PICK n \in Bad : \A y \in Bad : n <= y
    <3> HIDE DEF Bad
    <3> QED BY <2>1, LeastNumber
  <2>3. PICK a \in SUBSET D : Cardinality(a) = n /\ I[a] # G[a]
    <3> HIDE DEF I, G
    <3> QED OBVIOUS
  <2>4. a # {}
    <3> HIDE DEF I, G
    <3> QED BY <1>4, <2>3
  <2>5. PICK c \in a : c = CHOOSE x \in a : TRUE
    BY <2>4
  <2>6. IsFiniteSet(a)
    BY <1>5, FS_Subset
  <2>7. n \in Nat /\ Cardinality(a \ {c}) = n - 1 /\ n - 1 \in Nat /\ ~(n <= n - 1)
    <3>1. Cardinality(a \ {c}) = n - 1
      BY <2>3, <2>6, FS_RemoveElement
    <3>2. Cardinality(a \ {c}) \in Nat
      BY <2>6, FS_RemoveElement, FS_CardinalityType
    <3>3. n \in Nat
      BY <2>1
    <3> QED BY <3>1, <3>2, <3>3
  <2>8. n - 1 \notin Bad
    <3> HIDE DEF Bad
    <3> QED BY <2>2, <2>7
  <2>9. I[a \ {c}] = G[a \ {c}]
    <3> HIDE DEF I, G
    <3> QED BY <2>7, <2>8
  <2> HIDE DEF I, G
  <2>10. I[a] = s[CHOOSE x \in a : TRUE].quantity + I[a \ {CHOOSE x \in a : TRUE}]
    BY <1>4, <2>4
  <2>11. G[a] = s[CHOOSE x \in a : TRUE].quantity + G[a \ {CHOOSE x \in a : TRUE}]
    BY <1>4, <2>4
  <2> QED BY <2>3, <2>5, <2>9, <2>10, <2>11
<1>7. I[D] = G[D]
  <2> HIDE DEF I, G
  <2>1. Cardinality(D) \in Nat
    BY <1>5, FS_CardinalityType
  <2> QED BY <1>6, <2>1
<1>8. Quantity(s) = I[D]
  BY QuantityIsFold
<1>9. Quantity(s) = Cardinality(Pieces(s, 1 .. Len(s)))
  BY <1>1, <1>7, <1>8
<1>10. 1 .. Len(s) \in SUBSET (1 .. Len(s))
  OBVIOUS
<1> QED BY <1>9, <1>10, PiecesAreFinite
(* The queue's operations, as sums.                                        *)
LEMMA SamePieces ==
    ASSUME NEW s \in Seq(QueuedOrder), NEW t \in Seq(QueuedOrder),
           NEW m \in Nat, m + Len(t) <= Len(s),
           \A i \in 1 .. Len(t) : s[m + i].quantity = t[i].quantity
    PROVE  Cardinality(Pieces(s, (m + 1) .. (m + Len(t)))) = Quantity(t)
<1>1. PICK n \in Nat : n = Len(t)
  BY LenProperties
<1> DEFINE P == Pieces(t, 1 .. n)
           R == Pieces(s, (m + 1) .. (m + n))
           f == [u \in P |-> <<m + u[1], u[2]>>]
<1>2. ASSUME NEW u \in P
      PROVE  /\ u[1] \in 1 .. n /\ u[2] \in Nat \ {0} /\ u = <<u[1], u[2]>>
             /\ f[u] = <<m + u[1], u[2]>>
             /\ <<m + u[1], u[2]>> \in R
  <2>1. u[1] \in 1 .. n /\ u[2] \in Nat \ {0} /\ u[2] <= t[u[1]].quantity /\ u = <<u[1], u[2]>>
    BY DEF Pieces
  <2>2. m + u[1] \in (m + 1) .. (m + n) /\ s[m + u[1]].quantity = t[u[1]].quantity
    BY <1>1, <2>1
  <2>3. <<m + u[1], u[2]>> \in R
    BY <2>1, <2>2 DEF Pieces
  <2> QED BY <2>1, <2>3
<1>3. \A u, v \in P : f[u] = f[v] => u = v
  <2> SUFFICES ASSUME NEW u \in P, NEW v \in P, f[u] = f[v] PROVE u = v
    OBVIOUS
  <2>1. <<m + u[1], u[2]>> = <<m + v[1], v[2]>>
    BY <1>2
  <2>2. m + u[1] = m + v[1] /\ u[2] = v[2]
    BY <2>1
  <2>3. u[1] \in Int /\ v[1] \in Int
    BY <1>2
  <2>4. u[1] = v[1]
    BY <2>2, <2>3
  <2> QED BY <1>2, <2>2, <2>4
<1>4. ASSUME NEW w \in R PROVE \E u \in P : f[u] = w
  <2>1. w[1] \in (m + 1) .. (m + n) /\ w[2] \in Nat \ {0} /\ w[2] <= s[w[1]].quantity
        /\ w = <<w[1], w[2]>>
    BY DEF Pieces
  <2>2. PICK i \in 1 .. n : w[1] = m + i
    <3>1. w[1] - m \in 1 .. n /\ w[1] = m + (w[1] - m)
      BY <2>1
    <3> QED BY <3>1
  <2>3. s[m + i].quantity = t[i].quantity
    BY <1>1
  <2>4. w[2] <= t[i].quantity
    BY <2>1, <2>2, <2>3
  <2>5. <<i, w[2]>> \in P
    BY <2>1, <2>4 DEF Pieces
  <2>6. f[<<i, w[2]>>] = w
    <3>1. f[<<i, w[2]>>] = <<m + i, w[2]>>
      BY <2>5
    <3> QED BY <2>1, <2>2, <3>1
  <2> QED BY <2>5, <2>6
<1>5. f \in [P -> R]
  BY <1>2
<1> HIDE DEF f, P, R
<1>6. ExistsBijection(P, R)
  <2>1. f \in Injection(P, R)
    BY <1>3, <1>5 DEF Injection, IsInjective
  <2>2. f \in Surjection(P, R)
    BY <1>4, <1>5 DEF Surjection
  <2> QED BY <2>1, <2>2 DEF ExistsBijection, Bijection
<1>7. IsFiniteSet(P) /\ Cardinality(P) = Quantity(t)
  <2>1. 1 .. n \in SUBSET (1 .. Len(t))
    BY <1>1
  <2> QED BY <1>1, <2>1, PiecesAreFinite, QuantityIsPieces DEF P
<1>8. Cardinality(R) = Cardinality(P)
  BY <1>6, <1>7, FS_Bijection
<1> QED BY <1>1, <1>7, <1>8 DEF R

(* The quantity of two queues, one after the other.                        *)
LEMMA QuantityOfConcat ==
    ASSUME NEW s \in Seq(QueuedOrder), NEW t \in Seq(QueuedOrder)
    PROVE  Quantity(s \o t) = Quantity(s) + Quantity(t)
<1>1. PICK m \in Nat, n \in Nat : m = Len(s) /\ n = Len(t)
  BY LenProperties
<1>2. PICK c \in Seq(QueuedOrder) : c = s \o t
  BY ConcatProperties
<1>3. /\ Len(c) = m + n
      /\ \A i \in 1 .. m : c[i] = s[i]
      /\ \A i \in 1 .. n : c[m + i] = t[i]
  <2>1. \A i \in 1 .. (m + n) : c[i] = IF i <= m THEN s[i] ELSE t[i - m]
    BY <1>1, <1>2, ConcatProperties
  <2>2. \A i \in 1 .. m : c[i] = s[i]
    BY <2>1
  <2>3. ASSUME NEW i \in 1 .. n PROVE c[m + i] = t[i]
    <3>1. m + i \in 1 .. (m + n) /\ ~(m + i <= m) /\ m + i - m = i
      OBVIOUS
    <3> QED BY <2>1, <3>1
  <2> QED BY <1>1, <1>2, <2>2, <2>3, ConcatProperties
<1>4. Cardinality(Pieces(c, (0 + 1) .. (0 + m))) = Quantity(s)
  <2>1. 0 + m <= Len(c) /\ \A i \in 1 .. m : c[0 + i].quantity = s[i].quantity
    BY <1>3
  <2> QED BY <1>1, <2>1, SamePieces
<1>5. Cardinality(Pieces(c, (m + 1) .. (m + n))) = Quantity(t)
  <2>1. m + n <= Len(c) /\ \A i \in 1 .. n : c[m + i].quantity = t[i].quantity
    BY <1>3
  <2> QED BY <1>1, <2>1, SamePieces
<1> DEFINE A == (0 + 1) .. (0 + m)
           B == (m + 1) .. (m + n)
<1>6. A \in SUBSET (1 .. Len(c)) /\ B \in SUBSET (1 .. Len(c))
      /\ A \cup B = 1 .. Len(c) /\ A \cap B = {}
  BY <1>3
<1> HIDE DEF A, B
<1>7. /\ IsFiniteSet(Pieces(c, A)) /\ IsFiniteSet(Pieces(c, B))
      /\ Cardinality(Pieces(c, A)) \in Nat /\ Cardinality(Pieces(c, B)) \in Nat
  BY <1>6, PiecesAreFinite
<1>8. Pieces(c, 1 .. Len(c)) = Pieces(c, A) \cup Pieces(c, B)
  BY <1>6 DEF Pieces
<1>9. Pieces(c, A) \cap Pieces(c, B) = {}
  BY <1>6 DEF Pieces
<1>10. Cardinality(Pieces(c, A) \cap Pieces(c, B)) = 0
  BY <1>9, FS_EmptySet
<1>11. Cardinality(Pieces(c, A) \cup Pieces(c, B))
           = Cardinality(Pieces(c, A)) + Cardinality(Pieces(c, B))
                 - Cardinality(Pieces(c, A) \cap Pieces(c, B))
  BY <1>7, FS_Union
<1>12. Cardinality(Pieces(c, 1 .. Len(c))) = Cardinality(Pieces(c, A)) + Cardinality(Pieces(c, B))
  <2>1. Cardinality(Pieces(c, 1 .. Len(c))) = Cardinality(Pieces(c, A) \cup Pieces(c, B))
    BY <1>8
  <2>2. Cardinality(Pieces(c, A) \cup Pieces(c, B))
            = Cardinality(Pieces(c, A)) + Cardinality(Pieces(c, B)) - 0
    BY <1>10, <1>11
  <2> QED BY <1>7, <2>1, <2>2
<1> QED BY <1>2, <1>4, <1>5, <1>12, QuantityIsPieces DEF A, B

(* An empty queue.                                                         *)
LEMMA QuantityOfNone == << >> \in Seq(QueuedOrder) /\ Quantity(<< >>) = 0
<1>1. << >> \in Seq(QueuedOrder) /\ Len(<< >>) = 0
  BY EmptySeq
<1>2. Pieces(<< >>, 1 .. Len(<< >>)) = {}
  BY <1>1 DEF Pieces
<1> QED BY <1>1, <1>2, QuantityIsPieces, FS_EmptySet

(* A queue of one.                                                         *)
LEMMA QuantityOfOne ==
    ASSUME NEW o \in QueuedOrder
    PROVE  <<o>> \in Seq(QueuedOrder) /\ Quantity(<<o>>) = o.quantity
<1>0. <<o>> \in Seq(QueuedOrder)
  <2>1. Append(<< >>, o) \in Seq(QueuedOrder)
    BY EmptySeq, AppendProperties
  <2>2. Append(<< >>, o) = <<o>>
    OBVIOUS
  <2> QED BY <2>1, <2>2
<1>1. PICK s \in Seq(QueuedOrder) : s = <<o>>
  BY <1>0
<1>2. Len(s) = 1 /\ s[1] = o
  BY <1>1
<1>3. Pieces(s, {1} \ {1}) = {}
  BY DEF Pieces
<1>4. IsFiniteSet(Pieces(s, {1} \ {1})) /\ Cardinality(Pieces(s, {1} \ {1})) = 0
  BY <1>3, FS_EmptySet
<1>5. {1} \in SUBSET (1 .. Len(s)) /\ {1} = 1 .. Len(s)
  BY <1>2
<1>6. Cardinality(Pieces(s, {1})) = 0 + s[1].quantity
  <2> DEFINE A == {1}
  <2>1. A \in SUBSET (1 .. Len(s)) /\ 1 \in A /\ IsFiniteSet(Pieces(s, A \ {1}))
        /\ Cardinality(Pieces(s, A \ {1})) = 0
    BY <1>4, <1>5
  <2> HIDE DEF A
  <2>2. Cardinality(Pieces(s, A)) = 0 + s[1].quantity
    BY <2>1, PositionPieces
  <2> QED BY <2>2 DEF A
<1>7. o.quantity \in Nat
  BY DEF QueuedOrder
<1>8. Quantity(s) = o.quantity
  BY <1>2, <1>5, <1>6, <1>7, QuantityIsPieces
<1> QED BY <1>1, <1>8

(* A queue splits anywhere, and with it its sum.                           *)
LEMMA QuantitySplits ==
    ASSUME NEW s \in Seq(QueuedOrder), NEW k \in 0 .. Len(s)
    PROVE  /\ SubSeq(s, 1, k) \in Seq(QueuedOrder) /\ Len(SubSeq(s, 1, k)) = k
           /\ SubSeq(s, k + 1, Len(s)) \in Seq(QueuedOrder)
           /\ Len(SubSeq(s, k + 1, Len(s))) = Len(s) - k
           /\ \A i \in 1 .. (Len(s) - k) : SubSeq(s, k + 1, Len(s))[i] = s[k + i]
           /\ s = SubSeq(s, 1, k) \o SubSeq(s, k + 1, Len(s))
           /\ Quantity(s) = Quantity(SubSeq(s, 1, k)) + Quantity(SubSeq(s, k + 1, Len(s)))
<1>1. PICK n \in Nat : n = Len(s)
  BY LenProperties
<1>2. k \in Nat /\ k <= n
  BY <1>1
<1>3. \A i \in 1 .. n : s[i] \in QueuedOrder
  BY <1>1, ElementOfSeq
<1>4. /\ SubSeq(s, 1, k) \in Seq(QueuedOrder) /\ Len(SubSeq(s, 1, k)) = k
      /\ \A i \in 1 .. k : SubSeq(s, 1, k)[i] = s[i]
  <2>1. \A i \in 1 .. k : s[i] \in QueuedOrder
    BY <1>2, <1>3
  <2>2. /\ SubSeq(s, 1, k) \in Seq(QueuedOrder)
        /\ Len(SubSeq(s, 1, k)) = IF 1 <= k THEN k - 1 + 1 ELSE 0
        /\ \A i \in 1 .. (k - 1 + 1) : SubSeq(s, 1, k)[i] = s[1 + i - 1]
    BY <1>2, <2>1, SubSeqProperties
  <2> QED BY <1>2, <2>2
<1>5. /\ SubSeq(s, k + 1, n) \in Seq(QueuedOrder) /\ Len(SubSeq(s, k + 1, n)) = n - k
      /\ \A i \in 1 .. (n - k) : SubSeq(s, k + 1, n)[i] = s[k + i]
  <2>1. \A i \in (k + 1) .. n : s[i] \in QueuedOrder
    BY <1>2, <1>3
  <2>2. /\ SubSeq(s, k + 1, n) \in Seq(QueuedOrder)
        /\ Len(SubSeq(s, k + 1, n)) = IF k + 1 <= n THEN n - (k + 1) + 1 ELSE 0
        /\ \A i \in 1 .. (n - (k + 1) + 1) : SubSeq(s, k + 1, n)[i] = s[(k + 1) + i - 1]
    BY <1>2, <2>1, SubSeqProperties
  <2>3. /\ (IF k + 1 <= n THEN n - (k + 1) + 1 ELSE 0) = n - k
        /\ n - (k + 1) + 1 = n - k
        /\ \A i \in 1 .. (n - k) : (k + 1) + i - 1 = k + i
    BY <1>2
  <2>4. Len(SubSeq(s, k + 1, n)) = n - k
    BY <2>2, <2>3
  <2>5. \A i \in 1 .. (n - k) : SubSeq(s, k + 1, n)[i] = s[k + i]
    BY <2>2, <2>3
  <2> QED BY <2>2, <2>4, <2>5
<1>6. PICK a \in Seq(QueuedOrder), b \in Seq(QueuedOrder) :
        a = SubSeq(s, 1, k) /\ b = SubSeq(s, k + 1, n)
  BY <1>4, <1>5
<1>7. a \o b \in Seq(QueuedOrder) /\ Len(a \o b) = n
      /\ \A i \in 1 .. n : (a \o b)[i] = s[i]
  <2>1. /\ a \o b \in Seq(QueuedOrder) /\ Len(a \o b) = Len(a) + Len(b)
        /\ \A i \in 1 .. (Len(a) + Len(b)) :
              (a \o b)[i] = IF i <= Len(a) THEN a[i] ELSE b[i - Len(a)]
    BY ConcatProperties
  <2>2. Len(a) = k /\ Len(b) = n - k /\ Len(a) + Len(b) = n
    BY <1>2, <1>4, <1>5, <1>6
  <2>3. ASSUME NEW i \in 1 .. n PROVE (a \o b)[i] = s[i]
    <3>1. CASE i <= k
      BY <1>4, <1>6, <2>1, <2>2, <3>1
    <3>2. CASE i > k
      <4>1. i - k \in 1 .. (n - k) /\ k + (i - k) = i
        BY <1>2, <3>2
      <4>2. b[i - k] = s[i]
        BY <1>5, <1>6, <4>1
      <4> QED BY <1>2, <2>1, <2>2, <3>2, <4>2
    <3>3. i <= k \/ i > k
      BY <1>2
    <3> QED BY <3>1, <3>2, <3>3
  <2> QED BY <2>1, <2>2, <2>3
<1>8. s = a \o b
  <2>1. Len(s) = Len(a \o b) /\ \A i \in 1 .. Len(s) : s[i] = (a \o b)[i]
    BY <1>1, <1>7
  <2> QED BY <1>7, <2>1, SeqEqual
<1>9. Quantity(a \o b) = Quantity(a) + Quantity(b)
  BY QuantityOfConcat
<1> QED BY <1>1, <1>4, <1>5, <1>6, <1>8, <1>9
(* A queue with one more.                                                  *)
LEMMA QuantityOfAppend ==
    ASSUME NEW s \in Seq(QueuedOrder), NEW o \in QueuedOrder
    PROVE  /\ Append(s, o) \in Seq(QueuedOrder) /\ Len(Append(s, o)) = Len(s) + 1
           /\ Quantity(Append(s, o)) = Quantity(s) + o.quantity
<1>1. Append(s, o) \in Seq(QueuedOrder) /\ Len(Append(s, o)) = Len(s) + 1
  BY AppendProperties
<1>2. Append(s, o) = s \o <<o>>
  BY AppendIsConcat
<1>3. <<o>> \in Seq(QueuedOrder) /\ Quantity(<<o>>) = o.quantity
  BY QuantityOfOne
<1>4. Quantity(s \o <<o>>) = Quantity(s) + Quantity(<<o>>)
  BY <1>3, QuantityOfConcat
<1> QED BY <1>1, <1>2, <1>3, <1>4

(* A prefix that takes in one more order holds its quantity more.          *)
LEMMA PrefixGrows ==
    ASSUME NEW s \in Seq(QueuedOrder), NEW i \in 1 .. Len(s)
    PROVE  /\ s[i] \in QueuedOrder /\ s[i].quantity \in Nat
           /\ Quantity(SubSeq(s, 1, i)) = Quantity(SubSeq(s, 1, i - 1)) + s[i].quantity
<1>1. s[i] \in QueuedOrder
  BY ElementOfSeq
<1>2. PICK n \in Nat : n = Len(s)
  BY LenProperties
<1>3. i \in 0 .. Len(s) /\ i - 1 \in 0 .. Len(s) /\ i \in Nat \ {0} /\ i - 1 \in Nat /\ i <= n
  BY <1>2
<1>4. PICK a \in Seq(QueuedOrder), b \in Seq(QueuedOrder) :
        a = SubSeq(s, 1, i) /\ b = SubSeq(s, 1, i - 1) /\ Len(a) = i /\ Len(b) = i - 1
  <2>1. SubSeq(s, 1, i) \in Seq(QueuedOrder) /\ Len(SubSeq(s, 1, i)) = i
    BY <1>3, QuantitySplits
  <2>2. SubSeq(s, 1, i - 1) \in Seq(QueuedOrder) /\ Len(SubSeq(s, 1, i - 1)) = i - 1
    BY <1>3, QuantitySplits
  <2> QED BY <2>1, <2>2
<1>5. /\ \A j \in 1 .. i : a[j] = s[j]
      /\ \A j \in 1 .. (i - 1) : b[j] = s[j]
  <2>1. \A j \in 1 .. i : s[j] \in QueuedOrder
    <3>1. \A j \in 1 .. i : j \in 1 .. Len(s)
      BY <1>2, <1>3
    <3> QED BY <3>1, ElementOfSeq
  <2>2. \A j \in 1 .. (i - 1) : s[j] \in QueuedOrder
    BY <1>3, <2>1
  <2>3. \A j \in 1 .. (i - 1 + 1) : SubSeq(s, 1, i)[j] = s[1 + j - 1]
    BY <1>3, <2>1, SubSeqProperties
  <2>4. \A j \in 1 .. (i - 1 - 1 + 1) : SubSeq(s, 1, i - 1)[j] = s[1 + j - 1]
    BY <1>3, <2>2, SubSeqProperties
  <2>5. \A j \in 1 .. i : 1 + j - 1 = j
    BY <1>3
  <2>6. i - 1 + 1 = i /\ i - 1 - 1 + 1 = i - 1
    BY <1>3
  <2> QED BY <1>3, <1>4, <2>3, <2>4, <2>5, <2>6
<1>6. a = Append(b, s[i])
  <2>1. /\ Append(b, s[i]) \in Seq(QueuedOrder) /\ Len(Append(b, s[i])) = i
        /\ \A j \in 1 .. (i - 1) : Append(b, s[i])[j] = b[j]
        /\ Append(b, s[i])[i] = s[i]
    <3>1. /\ Append(b, s[i]) \in Seq(QueuedOrder) /\ Len(Append(b, s[i])) = Len(b) + 1
          /\ \A j \in 1 .. Len(b) : Append(b, s[i])[j] = b[j]
          /\ Append(b, s[i])[Len(b) + 1] = s[i]
      BY <1>1, AppendProperties
    <3>2. Len(b) = i - 1 /\ Len(b) + 1 = i
      BY <1>3, <1>4
    <3> QED BY <3>1, <3>2
  <2>2. ASSUME NEW j \in 1 .. i PROVE a[j] = Append(b, s[i])[j]
    <3>1. CASE j = i
      BY <1>3, <1>5, <2>1, <3>1
    <3>2. CASE j \in 1 .. (i - 1)
      BY <1>5, <2>1, <3>2
    <3>3. j = i \/ j \in 1 .. (i - 1)
      BY <1>3
    <3> QED BY <3>1, <3>2, <3>3
  <2>3. Len(a) = Len(Append(b, s[i])) /\ \A j \in 1 .. Len(a) : a[j] = Append(b, s[i])[j]
    BY <1>4, <2>1, <2>2
  <2> QED BY <2>1, <2>3, SeqEqual
<1>7. Quantity(Append(b, s[i])) = Quantity(b) + s[i].quantity
  BY <1>1, QuantityOfAppend
<1> QED BY <1>1, <1>4, <1>6, <1>7 DEF QueuedOrder

(* Taking part of the first order takes that much of the sum.              *)
LEMMA QuantityShaved ==
    ASSUME NEW s \in Seq(QueuedOrder), s # << >>,
           NEW part \in Nat, part <= s[1].quantity
    PROVE  /\ [s EXCEPT ![1].quantity = @ - part] \in Seq(QueuedOrder)
           /\ Len([s EXCEPT ![1].quantity = @ - part]) = Len(s)
           /\ Quantity([s EXCEPT ![1].quantity = @ - part]) = Quantity(s) - part
<1> DEFINE t0 == [s EXCEPT ![1].quantity = @ - part]
<1>1. PICK n \in Nat : n = Len(s) /\ n >= 1
  BY LenProperties, EmptySeq
<1>2. PICK o \in QueuedOrder : o = s[1] /\ o.quantity \in Nat
  <2>1. 1 \in 1 .. Len(s)
    BY <1>1
  <2> QED BY <2>1, PrefixGrows
<1>3. PICK r \in QueuedOrder : r = [o EXCEPT !.quantity = @ - part] /\ r.quantity = o.quantity - part
  <2>1. o.id \in Nat /\ o.quantity - part \in Nat
    BY <1>2 DEF QueuedOrder
  <2>2. [o EXCEPT !.quantity = @ - part] = [id |-> o.id, quantity |-> o.quantity - part]
    BY DEF QueuedOrder
  <2> QED BY <2>1, <2>2 DEF QueuedOrder
<1>4. DOMAIN s = 1 .. n /\ s \in [1 .. n -> QueuedOrder]
  BY <1>1, LenProperties
<1>5. t0 = [i \in 1 .. n |-> IF i = 1 THEN r ELSE s[i]]
  BY <1>2, <1>3, <1>4
<1>6. PICK t \in Seq(QueuedOrder) : t = t0
  <2>1. t0 \in [1 .. n -> QueuedOrder]
    BY <1>4, <1>5
  <2> HIDE DEF t0
  <2>2. t0 \in Seq(QueuedOrder)
    BY <2>1, SeqDef
  <2> QED BY <2>2
<1>7. Len(t) = n /\ t[1] = r /\ \A i \in 2 .. n : t[i] = s[i]
  <2>1. t \in [1 .. n -> QueuedOrder]
    BY <1>4, <1>5, <1>6
  <2>2. DOMAIN t = 1 .. Len(t) /\ Len(t) \in Nat
    BY LenProperties
  <2>3. 1 .. n = 1 .. Len(t)
    BY <2>1, <2>2
  <2>4. Len(t) = n
    <3>1. PICK m \in Nat : m = Len(t) /\ 1 .. n = 1 .. m
      BY <2>2, <2>3
    <3>2. n \in 1 .. m
      BY <1>1, <3>1
    <3>3. m \in 1 .. m
      BY <3>2
    <3>4. m \in 1 .. n
      BY <3>1, <3>3
    <3>5. n <= m /\ m <= n
      BY <3>2, <3>4
    <3> QED BY <3>1, <3>5
  <2> QED BY <1>1, <1>5, <1>6, <2>4
<1>8. /\ Quantity(s) = Quantity(SubSeq(s, 1, 1)) + Quantity(SubSeq(s, 2, n))
      /\ SubSeq(s, 2, n) \in Seq(QueuedOrder) /\ Len(SubSeq(s, 2, n)) = n - 1
      /\ \A i \in 1 .. (n - 1) : SubSeq(s, 2, n)[i] = s[1 + i]
  <2>1. PICK k \in 0 .. Len(s) : k = 1 /\ k + 1 = 2
    BY <1>1
  <2>2. /\ SubSeq(s, k + 1, Len(s)) \in Seq(QueuedOrder)
        /\ Len(SubSeq(s, k + 1, Len(s))) = Len(s) - k
        /\ \A i \in 1 .. (Len(s) - k) : SubSeq(s, k + 1, Len(s))[i] = s[k + i]
        /\ Quantity(s) = Quantity(SubSeq(s, 1, k)) + Quantity(SubSeq(s, k + 1, Len(s)))
    BY QuantitySplits
  <2>3. k = 1 /\ k + 1 = 2 /\ Len(s) = n
    BY <1>1, <2>1
  <2>4. SubSeq(s, k + 1, Len(s)) = SubSeq(s, 2, n) /\ SubSeq(s, 1, k) = SubSeq(s, 1, 1)
    BY <2>3
  <2> DEFINE rest == SubSeq(s, 2, n)
  <2>5. /\ rest \in Seq(QueuedOrder) /\ Len(rest) = n - 1
        /\ \A i \in 1 .. (n - 1) : rest[i] = s[k + i]
    BY <2>2, <2>3, <2>4
  <2>6. Quantity(s) = Quantity(SubSeq(s, 1, 1)) + Quantity(rest)
    BY <2>2, <2>4
  <2> HIDE DEF rest
  <2>7. \A i \in 1 .. (n - 1) : rest[i] = s[1 + i]
    BY <2>3, <2>5
  <2> QED BY <2>5, <2>6, <2>7 DEF rest
<1>9. /\ Quantity(t) = Quantity(SubSeq(t, 1, 1)) + Quantity(SubSeq(t, 2, n))
      /\ SubSeq(t, 2, n) \in Seq(QueuedOrder) /\ Len(SubSeq(t, 2, n)) = n - 1
      /\ \A i \in 1 .. (n - 1) : SubSeq(t, 2, n)[i] = t[1 + i]
  <2>1. PICK k \in 0 .. Len(t) : k = 1 /\ k + 1 = 2
    BY <1>1, <1>7
  <2>2. /\ SubSeq(t, k + 1, Len(t)) \in Seq(QueuedOrder)
        /\ Len(SubSeq(t, k + 1, Len(t))) = Len(t) - k
        /\ \A i \in 1 .. (Len(t) - k) : SubSeq(t, k + 1, Len(t))[i] = t[k + i]
        /\ Quantity(t) = Quantity(SubSeq(t, 1, k)) + Quantity(SubSeq(t, k + 1, Len(t)))
    BY QuantitySplits
  <2>3. k = 1 /\ k + 1 = 2 /\ Len(t) = n
    BY <1>1, <2>1, <1>7
  <2>4. SubSeq(t, k + 1, Len(t)) = SubSeq(t, 2, n) /\ SubSeq(t, 1, k) = SubSeq(t, 1, 1)
    BY <2>3
  <2> DEFINE rest == SubSeq(t, 2, n)
  <2>5. /\ rest \in Seq(QueuedOrder) /\ Len(rest) = n - 1
        /\ \A i \in 1 .. (n - 1) : rest[i] = t[k + i]
    BY <2>2, <2>3, <2>4
  <2>6. Quantity(t) = Quantity(SubSeq(t, 1, 1)) + Quantity(rest)
    BY <2>2, <2>4
  <2> HIDE DEF rest
  <2>7. \A i \in 1 .. (n - 1) : rest[i] = t[1 + i]
    BY <2>3, <2>5
  <2> QED BY <2>5, <2>6, <2>7 DEF rest
<1>10. SubSeq(s, 2, n) = SubSeq(t, 2, n)
  <2>1. \A i \in 1 .. (n - 1) : t[1 + i] = s[1 + i]
    BY <1>1, <1>7
  <2> QED BY <1>8, <1>9, <2>1, SeqEqual
<1>11. Quantity(SubSeq(s, 1, 1)) = o.quantity /\ Quantity(SubSeq(t, 1, 1)) = r.quantity
  <2>1. /\ Quantity(SubSeq(s, 1, 1)) = Quantity(SubSeq(s, 1, 0)) + o.quantity
        /\ Quantity(SubSeq(t, 1, 1)) = Quantity(SubSeq(t, 1, 0)) + r.quantity
    <3>1. 1 \in 1 .. Len(s) /\ 1 \in 1 .. Len(t) /\ 1 - 1 = 0
      BY <1>1, <1>7
    <3>2. Quantity(SubSeq(s, 1, 1)) = Quantity(SubSeq(s, 1, 1 - 1)) + s[1].quantity
      BY <3>1, PrefixGrows
    <3>3. Quantity(SubSeq(t, 1, 1)) = Quantity(SubSeq(t, 1, 1 - 1)) + t[1].quantity
      BY <3>1, PrefixGrows
    <3> QED BY <1>2, <1>7, <3>1, <3>2, <3>3
  <2>2. SubSeq(s, 1, 0) = << >>
    BY SubSeqEmpty
  <2>3. SubSeq(t, 1, 0) = << >>
    BY SubSeqEmpty
  <2>4. Quantity(SubSeq(s, 1, 1)) = 0 + o.quantity /\ Quantity(SubSeq(t, 1, 1)) = 0 + r.quantity
    BY <2>1, <2>2, <2>3, QuantityOfNone
  <2>5. o.quantity \in Nat /\ r.quantity \in Nat
    BY <1>2 DEF QueuedOrder
  <2> QED BY <2>4, <2>5
<1>12. Quantity(SubSeq(s, 2, n)) \in Nat
  BY <1>8, QuantityIsPieces
<1>13. Quantity(t) = Quantity(s) - part
  <2>1. PICK x \in Nat : x = Quantity(SubSeq(s, 2, n))
    BY <1>12
  <2>2. Quantity(s) = o.quantity + x /\ Quantity(t) = r.quantity + x
    BY <1>8, <1>9, <1>10, <1>11, <2>1
  <2> QED BY <1>2, <1>3, <2>2
<1> QED BY <1>1, <1>6, <1>7, <1>13

(* An order that leaves takes its quantity with it.                        *)
LEMMA QuantityWithout ==
    ASSUME NEW s \in Seq(QueuedOrder), NEW i \in 1 .. Len(s)
    PROVE  /\ RemoveAt(s, i) \in Seq(QueuedOrder) /\ Len(RemoveAt(s, i)) = Len(s) - 1
           /\ s[i].quantity \in Nat
           /\ Quantity(RemoveAt(s, i)) = Quantity(s) - s[i].quantity
<1>1. PICK n \in Nat : n = Len(s)
  BY LenProperties
<1>2. i \in 0 .. Len(s) /\ i - 1 \in 0 .. Len(s) /\ i \in Nat /\ i <= n
  BY <1>1
<1>3. PICK a \in Seq(QueuedOrder), b \in Seq(QueuedOrder) :
        /\ a = SubSeq(s, 1, i - 1) /\ b = SubSeq(s, i + 1, Len(s))
        /\ Len(a) = i - 1 /\ Len(b) = n - i
  BY <1>1, <1>2, QuantitySplits
<1>4. Quantity(s) = Quantity(SubSeq(s, 1, i)) + Quantity(b)
  BY <1>2, <1>3, QuantitySplits
<1>5. Quantity(SubSeq(s, 1, i)) = Quantity(a) + s[i].quantity /\ s[i].quantity \in Nat
  BY <1>3, PrefixGrows
<1>6. a \o b \in Seq(QueuedOrder) /\ Len(a \o b) = Len(a) + Len(b)
      /\ Quantity(a \o b) = Quantity(a) + Quantity(b)
  BY ConcatProperties, QuantityOfConcat
<1>7. RemoveAt(s, i) = a \o b
  BY <1>3 DEF RemoveAt
<1>8. Quantity(a) \in Nat /\ Quantity(b) \in Nat
  BY QuantityIsPieces
<1>9. Len(a \o b) = n - 1
  <2>1. Len(a \o b) = (i - 1) + (n - i)
    BY <1>3, <1>6
  <2> QED BY <1>2, <2>1
<1>10. Quantity(a \o b) = Quantity(s) - s[i].quantity
  BY <1>4, <1>5, <1>6, <1>8
<1> QED BY <1>1, <1>5, <1>6, <1>7, <1>9, <1>10
-----------------------------------------------------------------------------
(* A level the book keeps holds orders, at most as much as it says is the  *)
(* case: its volume is never above the sum of its orders.                  *)
LevelTypes == [volume : Int, count : Nat, orders : Seq(QueuedOrder)]
LevelBooks == UNION {[prices -> LevelTypes] : prices \in SUBSET Nat}

LevelSound(level) ==
    /\ level.volume > 0 /\ level.volume <= Quantity(level.orders)
    /\ level.count = Len(level.orders) /\ level.orders # << >>

MatchingInv ==
    /\ levels \in [BookSides -> LevelBooks]
    /\ submitted \in Nat /\ shaved \in BOOLEAN /\ misplaced \in BOOLEAN
    /\ \E bound \in Nat : \A side \in BookSides : \A p \in DOMAIN levels[side] : p <= bound
    /\ \A side \in BookSides : \A p \in DOMAIN levels[side] : LevelSound(levels[side][p])
    /\ BookAgrees

(* What MatchingInv says of one level.                                     *)
LEMMA LevelFacts ==
    ASSUME MatchingInv, NEW side \in BookSides, NEW p \in DOMAIN levels[side]
    PROVE  /\ p \in Nat /\ levels[side] \in LevelBooks
           /\ levels[side][p] \in LevelTypes
           /\ levels[side][p].volume \in Int /\ levels[side][p].count \in Nat
           /\ levels[side][p].orders \in Seq(QueuedOrder)
           /\ LevelSound(levels[side][p])
           /\ side = "buy" \/ ~shaved => levels[side][p].volume = Quantity(levels[side][p].orders)
<1>1. levels[side] \in LevelBooks
  BY DEF MatchingInv
<1>2. PICK prices \in SUBSET Nat : levels[side] \in [prices -> LevelTypes]
  BY <1>1 DEF LevelBooks
<1>3. p \in Nat /\ levels[side][p] \in LevelTypes
  BY <1>2
<1>4. levels[side][p].volume \in Int /\ levels[side][p].count \in Nat
      /\ levels[side][p].orders \in Seq(QueuedOrder)
  BY <1>3 DEF LevelTypes
<1>5. LevelSound(levels[side][p])
  BY DEF MatchingInv
<1>6. side = "buy" \/ ~shaved => levels[side][p].volume = Quantity(levels[side][p].orders)
  BY DEF MatchingInv, BookAgrees, LevelsAreExact, BookSides
<1> QED BY <1>1, <1>3, <1>4, <1>5, <1>6

(* Setting a level leaves the others, and drops it if its volume is gone.  *)
LEMMA LevelSet ==
    ASSUME NEW book \in LevelBooks, NEW price \in Nat, NEW level \in LevelTypes
    PROVE  /\ WithLevel(book, price, level) \in LevelBooks
           /\ \A p \in DOMAIN WithLevel(book, price, level) :
                 \/ /\ p # price /\ p \in DOMAIN book
                    /\ WithLevel(book, price, level)[p] = book[p]
                 \/ /\ p = price /\ level.volume > 0
                    /\ WithLevel(book, price, level)[p] = level
<1>1. PICK prices \in SUBSET Nat : book \in [prices -> LevelTypes]
  BY DEF LevelBooks
<1>2. DOMAIN book = prices /\ level.volume \in Int
  BY <1>1 DEF LevelTypes
<1>3. CASE level.volume <= 0
  <2>1. WithLevel(book, price, level) = [p \in prices \ {price} |-> book[p]]
    BY <1>2, <1>3 DEF WithLevel, Restrict
  <2>2. [p \in prices \ {price} |-> book[p]] \in [prices \ {price} -> LevelTypes]
    BY <1>1
  <2>3. prices \ {price} \in SUBSET Nat
    BY <1>1
  <2>4. WithLevel(book, price, level) \in LevelBooks
    BY <2>1, <2>2, <2>3 DEF LevelBooks
  <2> QED BY <1>2, <2>1, <2>4
<1>4. CASE ~(level.volume <= 0)
  <2>1. WithLevel(book, price, level)
            = [p \in prices \cup {price} |-> IF p = price THEN level ELSE book[p]]
    BY <1>2, <1>4 DEF WithLevel
  <2>2. [p \in prices \cup {price} |-> IF p = price THEN level ELSE book[p]]
            \in [prices \cup {price} -> LevelTypes]
    BY <1>1
  <2>3. prices \cup {price} \in SUBSET Nat
    BY <1>1
  <2>4. WithLevel(book, price, level) \in LevelBooks
    BY <2>1, <2>2, <2>3 DEF LevelBooks
  <2>5. level.volume > 0
    BY <1>2, <1>4
  <2> QED BY <1>2, <2>1, <2>4, <2>5
<1> QED BY <1>3, <1>4

(* The prices of an order on this side stay clear of the other side's.     *)
Clear(side, price) ==
    \A p \in DOMAIN levels[Other(side)] : IF side = "buy" THEN price < p ELSE p < price

(* Every call sets one level and looks the best prices up again.           *)
LEMMA LevelStep ==
    ASSUME MatchingInv, NEW side \in BookSides, NEW price \in Nat, NEW level \in LevelTypes,
           levels' = [levels EXCEPT ![side] = WithLevel(@, price, level)],
           UpdateBestPrices,
           submitted' \in Nat, shaved' \in BOOLEAN, misplaced' \in BOOLEAN,
           level.volume <= Quantity(level.orders), level.count = Len(level.orders),
           shaved => shaved', misplaced => misplaced',
           side = "buy" \/ ~shaved' => level.volume = Quantity(level.orders),
           ~misplaced' => Clear(side, price)
    PROVE  MatchingInv'
<1> DEFINE book == WithLevel(levels[side], price, level)
<1>1. levels \in [BookSides -> LevelBooks]
  BY DEF MatchingInv
<1>2. /\ book \in LevelBooks
      /\ \A p \in DOMAIN book :
            \/ p # price /\ p \in DOMAIN levels[side] /\ book[p] = levels[side][p]
            \/ p = price /\ level.volume > 0 /\ book[p] = level
  <2>1. levels[side] \in LevelBooks
    BY <1>1
  <2> QED BY <2>1, LevelSet
<1>3. levels' = [levels EXCEPT ![side] = book]
  OBVIOUS
<1> HIDE DEF book
<1>4. /\ levels' \in [BookSides -> LevelBooks] /\ levels'[side] = book
      /\ \A s \in BookSides : s # side => levels'[s] = levels[s]
  BY <1>1, <1>2, <1>3
<1>5. PICK bound \in Nat : \A s \in BookSides : \A p \in DOMAIN levels[s] : p <= bound
  BY DEF MatchingInv
<1>6. \E b \in Nat : \A s \in BookSides : \A p \in DOMAIN levels'[s] : p <= b
  <2>1. PICK b \in Nat : bound <= b /\ price <= b
    <3>1. bound + price \in Nat /\ bound <= bound + price /\ price <= bound + price
      OBVIOUS
    <3> QED BY <3>1
  <2>2. ASSUME NEW s \in BookSides, NEW p \in DOMAIN levels'[s] PROVE p <= b
    <3>1. CASE p = price
      BY <2>1, <3>1
    <3>2. CASE p # price
      <4>1. p \in DOMAIN levels[s]
        BY <1>2, <1>4, <2>2, <3>2
      <4>2. p \in Nat /\ p <= bound
        BY <1>5, <4>1, LevelFacts
      <4> QED BY <2>1, <4>2
    <3> QED BY <3>1, <3>2
  <2> QED BY <2>2
<1>7. level.volume > 0 => LevelSound(level)
  <2>1. level.orders = << >> => Quantity(level.orders) = 0
    BY QuantityOfNone
  <2>2. level.volume \in Int
    BY DEF LevelTypes
  <2>3. level.volume > 0 => level.orders # << >>
    BY <2>1, <2>2
  <2> QED BY <2>3 DEF LevelSound
<1>8. ASSUME NEW s \in BookSides, NEW p \in DOMAIN levels'[s]
      PROVE  /\ LevelSound(levels'[s][p])
             /\ s = "buy" \/ ~shaved' => levels'[s][p].volume = Quantity(levels'[s][p].orders)
  <2>1. CASE s = side
    <3>1. CASE p \in DOMAIN levels[side] /\ book[p] = levels[side][p]
      BY <1>4, <2>1, <3>1, LevelFacts
    <3>2. CASE p = price /\ level.volume > 0 /\ book[p] = level
      BY <1>4, <1>7, <2>1, <3>2
    <3> QED BY <1>2, <1>4, <1>8, <2>1, <3>1, <3>2
  <2>2. CASE s # side
    <3>1. p \in DOMAIN levels[s] /\ levels'[s][p] = levels[s][p]
      BY <1>4, <1>8, <2>2
    <3> QED BY <3>1, LevelFacts
  <2> QED BY <2>1, <2>2
<1>9. \A s \in BookSides : bestPrice'[s] = BestOf(s, levels'[s])
  BY DEF UpdateBestPrices
<1>10. CountsAreExact'
  BY <1>8 DEF CountsAreExact, LevelSound
<1>11. LevelsAreExact("buy")' /\ (~shaved' => LevelsAreExact("sell")')
  BY <1>8 DEF LevelsAreExact, BookSides
<1>12. ASSUME ~misplaced', NEW bid \in DOMAIN levels'["buy"], NEW ask \in DOMAIN levels'["sell"]
       PROVE  bid < ask
  <2>1. \A b \in DOMAIN levels["buy"], a \in DOMAIN levels["sell"] : b < a
    BY <1>12 DEF MatchingInv, BookAgrees
  <2>2. Clear(side, price)
    BY <1>12
  <2>3. CASE side = "buy"
    <3>1. levels'["sell"] = levels["sell"] /\ levels'["buy"] = book
      BY <1>4, <2>3 DEF BookSides
    <3>2. CASE bid = price
      BY <2>2, <2>3, <3>1, <3>2 DEF Clear, Other
    <3>3. CASE bid \in DOMAIN levels["buy"]
      BY <2>1, <3>1, <3>3
    <3>4. bid = price \/ bid \in DOMAIN levels["buy"]
      BY <1>2, <2>3, <3>1
    <3> QED BY <3>2, <3>3, <3>4
  <2>4. CASE side = "sell"
    <3>1. levels'["buy"] = levels["buy"] /\ levels'["sell"] = book
      BY <1>4, <2>4 DEF BookSides
    <3>2. CASE ask = price
      BY <2>2, <2>4, <3>1, <3>2 DEF Clear, Other
    <3>3. CASE ask \in DOMAIN levels["sell"]
      BY <2>1, <3>1, <3>3
    <3>4. ask = price \/ ask \in DOMAIN levels["sell"]
      BY <1>2, <2>4, <3>1
    <3> QED BY <3>2, <3>3, <3>4
  <2> QED BY <2>3, <2>4 DEF BookSides
<1>13. BookAgrees'
  BY <1>9, <1>10, <1>11, <1>12 DEF BookAgrees
<1>14. \A s \in BookSides : \A p \in DOMAIN levels'[s] : LevelSound(levels'[s][p])
  BY <1>8
<1> QED BY <1>4, <1>6, <1>13, <1>14 DEF MatchingInv, LevelSound
(* A side that has levels has its best price among them.                   *)
LEMMA BestPriceIsBest ==
    ASSUME MatchingInv, NEW side \in BookSides, DOMAIN levels[side] # {}
    PROVE  /\ bestPrice[side] \in DOMAIN levels[side] /\ bestPrice[side] \in Nat
           /\ \A p \in DOMAIN levels[side] :
                 IF side = "buy" THEN p <= bestPrice[side] ELSE bestPrice[side] <= p
<1> DEFINE T == DOMAIN levels[side]
<1>1. T \in SUBSET Nat
  BY LevelFacts
<1>2. PICK bound \in Nat : \A p \in T : p <= bound
  BY DEF MatchingInv
<1>3. bestPrice[side] = BestOf(side, levels[side])
  BY DEF MatchingInv, BookAgrees
<1>4. bestPrice[side] = IF side = "buy" THEN Max(T) ELSE Min(T)
  BY <1>3 DEF BestOf
<1>5. T # {}
  OBVIOUS
<1> HIDE DEF T
<1>6. CASE side = "buy"
  <2>1. Max(T) \in T /\ \A p \in T : p <= Max(T)
    BY <1>1, <1>2, <1>5, GreatestNumber
  <2>2. bestPrice[side] \in T /\ bestPrice[side] \in Nat /\ \A p \in T : p <= bestPrice[side]
    BY <1>1, <1>4, <1>6, <2>1
  <2> QED BY <1>6, <2>2 DEF T
<1>7. CASE side # "buy"
  <2>1. Min(T) \in T /\ \A p \in T : Min(T) <= p
    BY <1>1, <1>5, LeastOfNumbers
  <2>2. bestPrice[side] \in T /\ bestPrice[side] \in Nat /\ \A p \in T : bestPrice[side] <= p
    BY <1>1, <1>4, <1>7, <2>1
  <2> QED BY <1>7, <2>2 DEF T
<1> QED BY <1>6, <1>7

(* A price the side has is clear of the other side.                        *)
LEMMA OwnPricesAreClear ==
    ASSUME MatchingInv, NEW side \in BookSides, NEW price \in DOMAIN levels[side], ~misplaced
    PROVE  Clear(side, price)
<1>1. \A b \in DOMAIN levels["buy"], a \in DOMAIN levels["sell"] : b < a
  BY DEF MatchingInv, BookAgrees
<1>2. CASE side = "buy"
  BY <1>1, <1>2 DEF Clear, Other
<1>3. CASE side = "sell"
  BY <1>1, <1>3 DEF Clear, Other
<1> QED BY <1>2, <1>3 DEF BookSides

(* A resting order goes behind those of its level.                         *)
LEMMA AddKeeps ==
    ASSUME MatchingInv, NEW side \in BookSides, NEW price \in Nat, NEW q \in Nat \ {0},
           AddLimitOrder(side, price, q), UpdateBestPrices,
           submitted' \in Nat, shaved' = shaved, misplaced' \in BOOLEAN,
           misplaced => misplaced', ~misplaced' => Clear(side, price)
    PROVE  MatchingInv'
<1> DEFINE old == IF price \in DOMAIN levels[side] THEN levels[side][price]
                  ELSE [volume |-> 0, count |-> 0, orders |-> << >>]
           order == [id |-> submitted + 1, quantity |-> q]
           new == [volume |-> old.volume + q, count |-> old.count + 1,
                   orders |-> Append(old.orders, order)]
<1>1. /\ old.volume \in Int /\ old.count \in Nat /\ old.orders \in Seq(QueuedOrder)
      /\ old.volume <= Quantity(old.orders) /\ old.count = Len(old.orders)
      /\ side = "buy" \/ ~shaved => old.volume = Quantity(old.orders)
  <2>1. CASE price \in DOMAIN levels[side]
    <3>1. old = levels[side][price]
      BY <2>1
    <3> HIDE DEF old
    <3> QED BY <2>1, <3>1, LevelFacts DEF LevelSound
  <2>2. CASE price \notin DOMAIN levels[side]
    <3>1. old = [volume |-> 0, count |-> 0, orders |-> << >>]
      BY <2>2
    <3> HIDE DEF old
    <3>2. Len(<< >>) = 0
      BY EmptySeq
    <3> QED BY <3>1, <3>2, QuantityOfNone
  <2> QED BY <2>1, <2>2
<1>2. order \in QueuedOrder /\ order.quantity = q
  <2>1. submitted + 1 \in Nat
    BY DEF MatchingInv
  <2> QED BY <2>1 DEF QueuedOrder
<1>3. levels' = [levels EXCEPT ![side] = WithLevel(@, price, new)]
  BY DEF AddLimitOrder
<1> HIDE DEF old, order
<1>4. /\ Append(old.orders, order) \in Seq(QueuedOrder)
      /\ Len(Append(old.orders, order)) = Len(old.orders) + 1
      /\ Quantity(Append(old.orders, order)) = Quantity(old.orders) + q
  BY <1>1, <1>2, QuantityOfAppend
<1>5. Quantity(old.orders) \in Nat
  BY <1>1, QuantityIsPieces
<1>6. /\ new \in LevelTypes
      /\ new.volume = old.volume + q /\ new.count = old.count + 1
      /\ new.orders = Append(old.orders, order)
  BY <1>1, <1>4 DEF LevelTypes
<1> HIDE DEF new
<1>7. /\ new.volume <= Quantity(new.orders) /\ new.count = Len(new.orders)
      /\ side = "buy" \/ ~shaved' => new.volume = Quantity(new.orders)
  BY <1>1, <1>4, <1>5, <1>6
<1>8. shaved' \in BOOLEAN
  BY DEF MatchingInv
<1> QED BY <1>3, <1>6, <1>7, <1>8, LevelStep

(* Cancelling an order takes it out of its level, and the level out of the *)
(* book if it was alone.                                                   *)
LEMMA CancelKeeps ==
    ASSUME MatchingInv, NEW id \in 1 .. MaxOrders, CancelOrder(id)
    PROVE  MatchingInv'
<1>0. PICK side \in BookSides : \E p \in DOMAIN levels[side] :
        /\ id \in IdsAt(levels[side][p])
        /\ levels' = [levels EXCEPT ![side] = WithLevel(@, p, Without(@[p], id))]
  BY DEF CancelOrder
<1>1. PICK p \in DOMAIN levels[side] :
        /\ id \in IdsAt(levels[side][p])
        /\ levels' = [levels EXCEPT ![side] = WithLevel(@, p, Without(@[p], id))]
  BY <1>0
<1> DEFINE level == levels[side][p]
           i == CHOOSE k \in DOMAIN level.orders : level.orders[k].id = id
           new == Without(level, id)
<1>2. /\ p \in Nat /\ level.volume \in Int /\ level.count \in Nat
      /\ level.orders \in Seq(QueuedOrder) /\ LevelSound(level)
      /\ side = "buy" \/ ~shaved => level.volume = Quantity(level.orders)
  BY LevelFacts
<1>3. DOMAIN level.orders = 1 .. Len(level.orders) /\ Len(level.orders) \in Nat
  BY <1>2, LenProperties
<1>4. i \in 1 .. Len(level.orders)
  <2>1. \E k \in DOMAIN level.orders : level.orders[k].id = id
    BY <1>1 DEF IdsAt
  <2>2. i \in DOMAIN level.orders
    <3> HIDE DEF level
    <3> QED BY <2>1
  <2> QED BY <1>3, <2>2
<1>5. new = [volume |-> level.volume - level.orders[i].quantity, count |-> level.count - 1,
             orders |-> RemoveAt(level.orders, i)]
  BY DEF Without
<1>6. levels' = [levels EXCEPT ![side] = WithLevel(@, p, new)]
  <2>1. levels[side][p] = level
    OBVIOUS
  <2>2. WithLevel(levels[side], p, Without(levels[side][p], id)) = WithLevel(levels[side], p, new)
    OBVIOUS
  <2> HIDE DEF new, level
  <2> QED BY <1>1, <2>2
<1>7. UpdateBestPrices /\ UNCHANGED <<submitted, shaved, misplaced>>
  BY DEF CancelOrder
<1> HIDE DEF level, i, new
<1>8. /\ RemoveAt(level.orders, i) \in Seq(QueuedOrder)
      /\ Len(RemoveAt(level.orders, i)) = Len(level.orders) - 1
      /\ level.orders[i].quantity \in Nat
      /\ Quantity(RemoveAt(level.orders, i)) = Quantity(level.orders) - level.orders[i].quantity
  BY <1>2, <1>4, QuantityWithout
<1>9. Quantity(level.orders) \in Nat
  BY <1>2, QuantityIsPieces
<1>10. level.count - 1 \in Nat /\ level.count = Len(level.orders)
       /\ level.volume <= Quantity(level.orders)
  BY <1>2, <1>3, <1>4 DEF LevelSound
<1>11. /\ new \in LevelTypes
       /\ new.volume = level.volume - level.orders[i].quantity
       /\ new.count = level.count - 1 /\ new.orders = RemoveAt(level.orders, i)
  BY <1>2, <1>5, <1>8, <1>10 DEF LevelTypes
<1>12. /\ new.volume <= Quantity(new.orders) /\ new.count = Len(new.orders)
       /\ side = "buy" \/ ~shaved => new.volume = Quantity(new.orders)
  BY <1>2, <1>8, <1>9, <1>10, <1>11
<1>13. submitted' \in Nat /\ shaved' \in BOOLEAN /\ misplaced' \in BOOLEAN
  BY <1>7 DEF MatchingInv
<1>14. ~misplaced => Clear(side, p)
  BY <1>1, OwnPricesAreClear
<1>15. side = "buy" \/ ~shaved' => new.volume = Quantity(new.orders)
  BY <1>7, <1>12
<1>16. (shaved => shaved') /\ (misplaced => misplaced') /\ (~misplaced' => Clear(side, p))
  BY <1>7, <1>14
<1> QED BY <1>2, <1>6, <1>7, <1>11, <1>12, <1>13, <1>15, <1>16, LevelStep
(* A trade at the best price, which may empty the level.                   *)
LEMMA TradeKeeps ==
    ASSUME MatchingInv, NEW side \in BookSides, NEW raw \in RawPrices, NEW q \in Lots,
           ExecuteMarket(side, raw, q), submitted' \in Nat
    PROVE  MatchingInv'
<1> DEFINE other == Other(side)
           price == bestPrice[other]
           level == levels[other][price]
           fill == Min({q, level.volume})
           n == Len(level.orders)
           Fitting == {k \in 0 .. n : Quantity(SubSeq(level.orders, 1, k)) <= fill}
           whole == Max(Fitting)
           prefix == SubSeq(level.orders, 1, whole)
           part == fill - Quantity(prefix)
           queue0 == SubSeq(level.orders, whole + 1, n)
           left == IF queue0 = << >> THEN << >> ELSE [queue0 EXCEPT ![1].quantity = @ - part]
           twice == IF side = "buy" /\ queue0 # << >> THEN part ELSE 0
           new == [volume |-> level.volume - fill - twice, count |-> level.count - whole,
                   orders |-> left]
<1>1. /\ Crosses(side, raw)
      /\ levels' = [levels EXCEPT ![other] = WithLevel(@, price, new)]
      /\ UpdateBestPrices
      /\ shaved' = (shaved \/ twice > 0)
      /\ misplaced' = misplaced
  BY DEF ExecuteMarket
<1>2. other \in BookSides /\ (other = "buy" => side = "sell")
  BY DEF Other, BookSides
<1>3. DOMAIN levels[other] # {}
  BY <1>1 DEF Crosses
<1> HIDE DEF other
<1>4. price \in DOMAIN levels[other] /\ price \in Nat
  BY <1>2, <1>3, BestPriceIsBest
<1> HIDE DEF price
<1>5. /\ level.volume \in Int /\ level.count \in Nat /\ level.orders \in Seq(QueuedOrder)
      /\ level.volume > 0 /\ level.volume <= Quantity(level.orders)
      /\ level.count = Len(level.orders)
      /\ other = "buy" \/ ~shaved => level.volume = Quantity(level.orders)
  BY <1>2, <1>4, LevelFacts DEF LevelSound
<1> HIDE DEF level
<1>6. fill \in Nat /\ fill <= level.volume
  <2>1. q \in Nat /\ level.volume \in Nat
    BY <1>5, MatchingAssumption
  <2>2. {q, level.volume} \in SUBSET Nat /\ {q, level.volume} # {}
    BY <2>1
  <2>3. fill \in {q, level.volume} /\ \A y \in {q, level.volume} : fill <= y
    BY <2>2, LeastOfNumbers
  <2> QED BY <2>2, <2>3
<1> HIDE DEF fill
<1>7. n \in Nat /\ level.count = n
  BY <1>5, LenProperties
<1>8. Quantity(SubSeq(level.orders, 1, 0)) = 0
  <2>1. SubSeq(level.orders, 1, 0) = << >>
    BY SubSeqEmpty
  <2> QED BY <2>1, QuantityOfNone
<1>9. whole \in Fitting /\ \A k \in Fitting : k <= whole
  <2>1. 0 \in Fitting
    BY <1>6, <1>7, <1>8
  <2>2. Fitting \in SUBSET Nat /\ \A k \in Fitting : k <= n
    BY <1>7
  <2> HIDE DEF Fitting
  <2> QED BY <1>7, <2>1, <2>2, GreatestNumber
<1> HIDE DEF whole
<1>10. whole \in 0 .. n /\ whole \in Nat /\ whole <= n /\ Quantity(prefix) <= fill
  BY <1>7, <1>9
<1>11. /\ prefix \in Seq(QueuedOrder)
       /\ queue0 \in Seq(QueuedOrder) /\ Len(queue0) = n - whole
       /\ \A i \in 1 .. (n - whole) : queue0[i] = level.orders[whole + i]
       /\ Quantity(level.orders) = Quantity(prefix) + Quantity(queue0)
  BY <1>5, <1>10, QuantitySplits
<1>12. whole < n => Quantity(SubSeq(level.orders, 1, whole + 1)) > fill
  <2> SUFFICES ASSUME whole < n PROVE Quantity(SubSeq(level.orders, 1, whole + 1)) > fill
    OBVIOUS
  <2>1. whole + 1 \in 0 .. n /\ ~(whole + 1 <= whole)
    BY <1>7, <1>10
  <2>2. whole + 1 \notin Fitting
    BY <1>9, <2>1
  <2>3. ~(Quantity(SubSeq(level.orders, 1, whole + 1)) <= fill)
    BY <2>1, <2>2
  <2>4. Quantity(SubSeq(level.orders, 1, whole + 1)) \in Nat
    <3>1. SubSeq(level.orders, 1, whole + 1) \in Seq(QueuedOrder)
      BY <1>5, <2>1, QuantitySplits
    <3> QED BY <3>1, QuantityIsPieces
  <2> QED BY <1>6, <2>3, <2>4
<1>13. whole < n => /\ level.orders[whole + 1].quantity \in Nat
                    /\ Quantity(SubSeq(level.orders, 1, whole + 1))
                           = Quantity(prefix) + level.orders[whole + 1].quantity
  <2> SUFFICES ASSUME whole < n
               PROVE  /\ level.orders[whole + 1].quantity \in Nat
                      /\ Quantity(SubSeq(level.orders, 1, whole + 1))
                             = Quantity(prefix) + level.orders[whole + 1].quantity
    OBVIOUS
  <2>1. PICK i \in 1 .. Len(level.orders) : i = whole + 1 /\ i - 1 = whole
    BY <1>7, <1>10
  <2>2. level.orders[i].quantity \in Nat
        /\ Quantity(SubSeq(level.orders, 1, i))
               = Quantity(SubSeq(level.orders, 1, i - 1)) + level.orders[i].quantity
    BY <1>5, PrefixGrows
  <2> QED BY <2>1, <2>2
<1>14. Quantity(prefix) \in Nat /\ Quantity(queue0) \in Nat
  BY <1>11, QuantityIsPieces
<1> HIDE DEF Fitting
<1>15. part \in Nat
  BY <1>6, <1>10, <1>14
<1>16. /\ left \in Seq(QueuedOrder) /\ Len(left) = n - whole
       /\ Quantity(left) = Quantity(level.orders) - fill
       /\ (queue0 = << >> => level.volume - fill = 0)
  <2>1. CASE queue0 = << >>
    <3>1. Quantity(queue0) = 0 /\ Len(queue0) = 0
      BY <2>1, QuantityOfNone, EmptySeq
    <3>2. fill = level.volume /\ Quantity(level.orders) = fill
      BY <1>5, <1>6, <1>10, <1>11, <1>14, <3>1
    <3>3. left = << >>
      BY <2>1
    <3> HIDE DEF left
    <3>4. Quantity(left) = 0 /\ Len(left) = 0 /\ left \in Seq(QueuedOrder)
      BY <3>3, QuantityOfNone, EmptySeq
    <3>5. n - whole = 0
      BY <1>11, <3>1
    <3> QED BY <1>5, <1>6, <3>2, <3>4, <3>5
  <2>2. CASE queue0 # << >>
    <3>1. left = [queue0 EXCEPT ![1].quantity = @ - part]
      BY <2>2
    <3> HIDE DEF left
    <3>2. whole < n
      <4>1. Len(queue0) # 0
        BY <1>11, <2>2, EmptySeq
      <4> QED BY <1>7, <1>10, <1>11, <4>1
    <3>3. queue0[1] = level.orders[whole + 1]
      <4>1. 1 \in 1 .. (n - whole)
        BY <1>7, <1>10, <3>2
      <4> QED BY <1>11, <4>1
    <3>4. part <= queue0[1].quantity
      <4>1. PICK a \in Nat, b \in Nat :
              a = Quantity(prefix) /\ b = level.orders[whole + 1].quantity
        BY <1>13, <1>14, <3>2
      <4>2. a + b > fill
        BY <1>12, <1>13, <3>2, <4>1
      <4>3. fill - a <= b
        BY <1>6, <4>2
      <4> QED BY <3>3, <4>1, <4>3
    <3> HIDE DEF part, queue0
    <3>5. /\ left \in Seq(QueuedOrder) /\ Len(left) = Len(queue0)
          /\ Quantity(left) = Quantity(queue0) - part
      BY <1>11, <1>15, <2>2, <3>1, <3>4, QuantityShaved
    <3>6. Quantity(queue0) - part = Quantity(level.orders) - fill
      <4>1. part = fill - Quantity(prefix)
        BY DEF part
      <4> QED BY <1>6, <1>11, <1>14, <4>1
    <3> QED BY <1>11, <2>2, <3>5, <3>6
  <2> QED BY <2>1, <2>2
<1>17. twice \in Nat /\ (other = "buy" => twice = 0)
  <2>1. other = "buy" => side # "buy"
    BY <1>2
  <2> HIDE DEF part
  <2> QED BY <1>15, <2>1
<1>18. queue0 = << >> => twice = 0
  OBVIOUS
<1> HIDE DEF left, twice, queue0, part, prefix
<1>19. /\ new \in LevelTypes
       /\ new.volume = level.volume - fill - twice
       /\ new.count = n - whole /\ new.orders = left
  <2>1. level.volume - fill - twice \in Int /\ n - whole \in Nat
    BY <1>5, <1>6, <1>7, <1>10, <1>17
  <2> QED BY <1>7, <1>16, <2>1 DEF LevelTypes
<1> HIDE DEF new
<1>20. Quantity(level.orders) \in Nat
  BY <1>5, QuantityIsPieces
<1>21. new.volume <= Quantity(new.orders) /\ new.count = Len(new.orders)
  BY <1>5, <1>6, <1>16, <1>17, <1>19, <1>20
<1>22. other = "buy" \/ ~shaved' => new.volume = Quantity(new.orders)
  <2> SUFFICES ASSUME other = "buy" \/ ~shaved' PROVE new.volume = Quantity(new.orders)
    OBVIOUS
  <2>1. twice = 0
    <3>1. CASE other = "buy"
      BY <1>17, <3>1
    <3>2. CASE ~shaved'
      <4>1. ~(twice > 0)
        BY <1>1, <3>2
      <4> QED BY <1>17, <4>1
    <3> QED BY <3>1, <3>2
  <2>2. level.volume = Quantity(level.orders)
    BY <1>1, <1>5
  <2> QED BY <1>5, <1>6, <1>16, <1>19, <2>1, <2>2
<1>23. shaved' \in BOOLEAN /\ misplaced' \in BOOLEAN /\ (shaved => shaved')
       /\ (misplaced => misplaced')
  BY <1>1 DEF MatchingInv
<1>24. ~misplaced' => Clear(other, price)
  BY <1>1, <1>2, <1>4, OwnPricesAreClear
<1> QED BY <1>1, <1>2, <1>4, <1>19, <1>21, <1>22, <1>23, <1>24, LevelStep

(* A new order trades until it is filled or nothing crosses it, and rests  *)
(* with what is left.                                                      *)
LEMMA NewOrderKeeps ==
    ASSUME MatchingInv, NEW side \in BookSides, NEW raw \in RawPrices, NEW q \in Lots,
           NewOrder(side, raw, q)
    PROVE  MatchingInv'
<1>1. submitted' \in Nat /\ q \in Nat \ {0} /\ raw \in Nat
  BY MatchingAssumption DEF NewOrder, MatchingInv
<1>2. Other(side) \in BookSides
  BY DEF Other, BookSides
<1>3. CASE Rest(side, raw, q)
  <2> DEFINE price == SnapToTick(raw)
  <2>1. price \in Nat
    <3>1. 2 * raw + TickSize \in Nat /\ 2 * TickSize \in Nat \ {0} /\ TickSize \in Nat
      BY <1>1, MatchingAssumption
    <3>2. (2 * raw + TickSize) \div (2 * TickSize) \in Nat
      BY <3>1
    <3> QED BY <3>1, <3>2 DEF SnapToTick
  <2>2. ~Crosses(side, raw) /\ AddLimitOrder(side, price, q) /\ UpdateBestPrices
        /\ shaved' = shaved /\ misplaced' = misplaced
    BY <1>3 DEF Rest
  <2> HIDE DEF price
  <2>3. Clear(side, price)
    <3>1. CASE DOMAIN levels[Other(side)] = {}
      BY <3>1 DEF Clear
    <3>2. CASE DOMAIN levels[Other(side)] # {}
      <4>1. /\ bestPrice[Other(side)] \in Nat
            /\ \A p \in DOMAIN levels[Other(side)] :
                  /\ p \in Nat
                  /\ IF Other(side) = "buy" THEN p <= bestPrice[Other(side)]
                                            ELSE bestPrice[Other(side)] <= p
        BY <1>2, <3>2, BestPriceIsBest, LevelFacts
      <4>2. ~Reaches(side, price, bestPrice[Other(side)])
        BY <2>2, <3>2 DEF Crosses, price
      <4>3. CASE side = "buy"
        <5>1. Other(side) = "sell" /\ price < bestPrice[Other(side)]
          BY <2>1, <4>1, <4>2, <4>3 DEF Reaches, Other
        <5> QED BY <2>1, <4>1, <4>3, <5>1 DEF Clear
      <4>4. CASE side = "sell"
        <5>1. Other(side) = "buy" /\ price > bestPrice[Other(side)]
          BY <2>1, <4>1, <4>2, <4>4 DEF Reaches, Other
        <5> QED BY <2>1, <4>1, <4>4, <5>1 DEF Clear
      <4> QED BY <4>3, <4>4 DEF BookSides
    <3> QED BY <3>1, <3>2
  <2>4. misplaced' \in BOOLEAN
    BY <2>2 DEF MatchingInv
  <2> QED BY <1>1, <2>1, <2>2, <2>3, <2>4, AddKeeps
<1>4. CASE RestMisplaced(side, raw, q)
  <2>1. AddLimitOrder(Other(side), raw, q) /\ UpdateBestPrices
        /\ shaved' = shaved /\ misplaced' = TRUE
    BY <1>4 DEF RestMisplaced
  <2> QED BY <1>1, <1>2, <2>1, AddKeeps
<1>5. CASE ExecuteMarket(side, raw, q)
  BY <1>1, <1>5, TradeKeeps
<1> QED BY <1>3, <1>4, <1>5 DEF NewOrder

(* The backtest starts with an empty book.                                 *)
LEMMA MatchingInitInvariant == MatchingInit => MatchingInv
<1> SUFFICES ASSUME MatchingInit PROVE MatchingInv
  OBVIOUS
<1>1. NoLevels \in LevelBooks /\ DOMAIN NoLevels = {}
  <2>1. NoLevels \in [{} -> LevelTypes] /\ DOMAIN NoLevels = {}
    BY DEF NoLevels
  <2> QED BY <2>1 DEF LevelBooks
<1>2. \A s \in BookSides : levels[s] = NoLevels /\ DOMAIN levels[s] = {}
  BY <1>1 DEF MatchingInit
<1>3. levels \in [BookSides -> LevelBooks]
  BY <1>1 DEF MatchingInit
<1>4. \A s \in BookSides : bestPrice[s] = BestOf(s, levels[s])
  BY <1>2 DEF MatchingInit, BestOf
<1>5. BookAgrees
  BY <1>2, <1>4 DEF BookAgrees, CountsAreExact, LevelsAreExact, BookSides
<1>6. \E bound \in Nat : \A s \in BookSides : \A p \in DOMAIN levels[s] : p <= bound
  BY <1>2
<1>7. submitted \in Nat /\ shaved \in BOOLEAN /\ misplaced \in BOOLEAN
  BY DEF MatchingInit
<1> QED BY <1>2, <1>3, <1>5, <1>6, <1>7 DEF MatchingInv

(* Every call keeps the book exact.                                        *)
LEMMA MatchingStepInvariant == MatchingInv /\ [MatchingNext]_matchVars => MatchingInv'
<1> SUFFICES ASSUME MatchingInv, [MatchingNext]_matchVars PROVE MatchingInv'
  OBVIOUS
<1>1. ASSUME NEW side \in BookSides, NEW raw \in RawPrices, NEW q \in Lots,
             NewOrder(side, raw, q)
      PROVE  MatchingInv'
  BY <1>1, NewOrderKeeps
<1>2. ASSUME NEW id \in 1 .. MaxOrders, CancelOrder(id) PROVE MatchingInv'
  BY <1>2, CancelKeeps
<1>3. CASE UNCHANGED matchVars
  BY <1>3 DEF matchVars, MatchingInv, BookAgrees, CountsAreExact, LevelsAreExact
<1> QED BY <1>1, <1>2, <1>3 DEF MatchingNext

-----------------------------------------------------------------------------
(* The order tree.  While new ids ascend, every node is linked to the      *)
(* right of the last one and no parent has a left child.  fix_insertion    *)
(* then takes the parent itself for the uncle, which is red whenever it    *)
(* gets that far, recolours and never rotates: the tree stays a list.      *)
NodeOrNil == Nodes \cup {Nil}
TreeShapes == [root : NodeOrNil, child : [Sides -> [Nodes -> NodeOrNil]],
               parent : [Nodes -> NodeOrNil], red : [Nodes -> BOOLEAN]]
Walks == [op : {"idle", "insert", "fix", "find"}, node : NodeOrNil, id : 0 .. MaxOrderId, at : NodeOrNil]

Successor(n) == tree.child["right"][n]
Linked == {n \in Nodes : n = tree.root \/ tree.parent[n] # Nil}

TreeTypes ==
    /\ tree \in TreeShapes /\ walk \in Walks
    /\ idOf \in [Nodes -> 0 .. MaxOrderId] /\ quantity \in [Nodes -> Nat]
    /\ allocated \in 0 .. ArenaNodes /\ nodeCount \in 0 .. (CountSize - 1)
    /\ latest \in [OrderIds -> Int] /\ miscounted \in BOOLEAN

IsList ==
    /\ \A n \in Nodes : tree.child["left"][n] = Nil
    /\ \A n \in Nodes : n \notin Linked => Successor(n) = Nil
    /\ tree.root = Nil => Linked = {}
    /\ \A n \in Linked :
          /\ tree.root <= n /\ n <= allocated /\ idOf[n] \in OrderIds
          /\ tree.parent[n] # Nil => tree.parent[n] \in Linked /\ Successor(tree.parent[n]) = n
          /\ Successor(n) = Nil => \A m \in Linked : m <= n
          /\ Successor(n) # Nil => /\ Successor(n) \in Linked /\ n < Successor(n)
                               /\ \A m \in Linked : n < m => Successor(n) <= m
    /\ \A n, m \in Linked : n < m => idOf[n] < idOf[m]

IsLinkedId(id) == \E n \in Linked : idOf[n] = id
Inserting(id) == walk.op = "insert" /\ walk.id = id

WalkSound ==
    /\ walk.op = "idle" => walk = Idle
    /\ walk.op = "insert" =>
          /\ walk.at \in Linked /\ walk.id \in OrderIds /\ idOf[walk.at] <= walk.id
          /\ walk.node \in Nodes /\ walk.node = allocated
          /\ \A n \in Linked : n < walk.node
          /\ idOf[walk.node] = walk.id
          /\ quantity[walk.node] = latest[walk.id] /\ latest[walk.id] > 0
          /\ IsLinkedId(walk.id) \/ \A n \in Linked : idOf[n] < walk.id
    /\ walk.op = "fix" => walk.node \in Linked
    /\ walk.op = "find" => walk.at \in Linked /\ walk.id \in OrderIds

OrdersMatch ==
    /\ \A id \in OrderIds : latest[id] >= 0 <=> IsLinkedId(id) \/ Inserting(id)
    /\ \A n \in Linked : quantity[n] = latest[idOf[n]] \/ Inserting(idOf[n])

(* An insertion is counted when it ends.                                   *)
Uncounted ==
    IF walk.op = "fix" \/ (walk.op = "insert" /\ ~IsLinkedId(walk.id)) THEN 1 ELSE 0
CountMatches == ~miscounted => nodeCount = Cardinality(Live) - Uncounted

TreeList == TreeTypes /\ IsList /\ WalkSound /\ OrdersMatch /\ CountMatches /\ ~panicked
TreeInv == ascending \in BOOLEAN /\ (ascending => TreeList)

(* Live orders are few: each has a node of its own.                        *)
LEMMA LiveOrdersAreFew ==
    ASSUME TreeTypes, \A id \in Live : \E n \in Nodes : idOf[n] = id
    PROVE  IsFiniteSet(Live) /\ Cardinality(Live) \in Nat /\ Cardinality(Live) < CountSize
<1> DEFINE f == [id \in Live |-> CHOOSE n \in Nodes : idOf[n] = id]
<1>1. \A id \in Live : f[id] \in Nodes /\ idOf[f[id]] = id
  OBVIOUS
<1> HIDE DEF f
<1>2. f \in [Live -> Nodes]
  <2>1. f = [id \in Live |-> f[id]]
    BY DEF f
  <2> QED BY <1>1, <2>1
<1>3. f \in Injection(Live, Nodes)
  BY <1>1, <1>2 DEF Injection, IsInjective
<1>4. ArenaNodes \in Nat /\ ArenaNodes < CountSize /\ CountSize \in Nat
  BY TreeAssumption
<1>5. IsFiniteSet(Nodes) /\ Cardinality(Nodes) = ArenaNodes
  <2>1. IsFiniteSet(1 .. ArenaNodes)
        /\ Cardinality(1 .. ArenaNodes) = IF 1 > ArenaNodes THEN 0 ELSE ArenaNodes - 1 + 1
    BY <1>4, FS_Interval
  <2> QED BY <1>4, <2>1 DEF Nodes
<1>6. IsFiniteSet(Live) /\ Cardinality(Live) <= ArenaNodes
  BY <1>3, <1>5, FS_Injection
<1>7. Cardinality(Live) \in Nat
  BY <1>6, FS_CardinalityType
<1> QED BY <1>4, <1>6, <1>7

(* Steps that leave the links and the ids of linked nodes alone.           *)
LEMMA LinksKept ==
    ASSUME tree'.root = tree.root, tree'.child = tree.child, tree'.parent = tree.parent
    PROVE  /\ Linked' = Linked
           /\ \A n \in Nodes : Successor(n)' = Successor(n)
BY DEF Linked, Successor

(* So the list stays one when nothing but colours, quantities or nodes     *)
(* outside it change.                                                      *)
LEMMA ListKept ==
    ASSUME TreeTypes, IsList,
           tree'.root = tree.root, tree'.child = tree.child, tree'.parent = tree.parent,
           allocated' \in Nat, allocated <= allocated',
           \A n \in Linked : idOf'[n] = idOf[n]
    PROVE  IsList'
<1>1. Linked' = Linked /\ \A n \in Nodes : Successor(n)' = Successor(n)
  BY LinksKept
<1>2. \A n \in Linked : n \in Nodes /\ n \in Nat /\ allocated \in Nat
  BY TreeAssumption DEF Linked, Nodes, TreeTypes
<1>3. \A n \in Linked : n <= allocated'
  BY <1>2 DEF IsList
<1>4. \A n \in Linked : tree.parent[n] # Nil => tree.parent[n] \in Nodes
  BY <1>2 DEF IsList
<1>5. (\A n \in Nodes : tree.child["left"][n] = Nil)'
  BY DEF IsList
<1>6. (\A n \in Nodes : n \notin Linked => Successor(n) = Nil)' /\ (tree.root = Nil => Linked = {})'
  BY <1>1 DEF IsList
<1>7. ASSUME NEW n \in Linked
      PROVE  /\ tree'.root <= n /\ n <= allocated' /\ idOf'[n] \in OrderIds
             /\ tree'.parent[n] # Nil => tree'.parent[n] \in Linked' /\ Successor(tree.parent[n])' = n
             /\ Successor(n)' = Nil => \A m \in Linked' : m <= n
             /\ Successor(n)' # Nil => /\ Successor(n)' \in Linked' /\ n < Successor(n)'
                                   /\ \A m \in Linked' : n < m => Successor(n)' <= m
  <2>1. Successor(n)' = Successor(n) /\ Linked' = Linked
    BY <1>1, <1>2
  <2>2. tree'.parent[n] # Nil => tree'.parent[n] \in Linked' /\ Successor(tree.parent[n])' = n
    <3> SUFFICES ASSUME tree.parent[n] # Nil
                 PROVE  tree.parent[n] \in Linked /\ Successor(tree.parent[n])' = n
      BY <1>1
    <3>1. PICK p \in Nodes : p = tree.parent[n] /\ p \in Linked /\ Successor(p) = n
      BY <1>2 DEF IsList
    <3>2. tree'.parent[n] = p
      BY <3>1
    <3>3. Successor(p)' = n
      BY <1>1, <3>1
    <3>4. Successor(tree.parent[n])' = tree'.child["right"][tree'.parent[n]]
      BY DEF Successor
    <3>5. Successor(p)' = tree'.child["right"][p]
      BY DEF Successor
    <3> QED BY <3>1, <3>2, <3>3, <3>4, <3>5
  <2>3. tree'.root <= n /\ idOf'[n] \in OrderIds
    BY DEF IsList
  <2> QED BY <1>3, <2>1, <2>2, <2>3 DEF IsList
<1>8. (\A n, m \in Linked : n < m => idOf[n] < idOf[m])'
  BY <1>1 DEF IsList
<1> QED BY <1>1, <1>5, <1>6, <1>7, <1>8 DEF IsList

(* What every proof below knows of the model's values.                     *)
LEMMA TreeNumbers ==
    ASSUME TreeTypes
    PROVE  /\ Nodes \in SUBSET (Nat \ {0}) /\ Nil = 0
           /\ Linked \in SUBSET Nodes /\ OrderIds \in SUBSET Nat
           /\ allocated \in Nat /\ nodeCount \in Nat
           /\ \A n \in Nodes : /\ Successor(n) \in NodeOrNil /\ tree.parent[n] \in NodeOrNil
                               /\ idOf[n] \in Nat /\ quantity[n] \in Nat
           /\ tree.root \in NodeOrNil /\ walk.node \in NodeOrNil /\ walk.at \in NodeOrNil
           /\ \A id \in OrderIds : latest[id] \in Int
           /\ Live \in SUBSET OrderIds
<1>1. Nodes \in SUBSET (Nat \ {0}) /\ Nil = 0 /\ OrderIds \in SUBSET Nat
  BY TreeAssumption DEF Nodes, OrderIds, Nil
<1>2. Linked \in SUBSET Nodes /\ Live \in SUBSET OrderIds
  BY DEF Linked, Live
<1>3. allocated \in Nat /\ nodeCount \in Nat
  BY TreeAssumption DEF TreeTypes
<1>4. \A n \in Nodes : Successor(n) \in NodeOrNil /\ tree.parent[n] \in NodeOrNil
  BY DEF TreeTypes, TreeShapes, Successor, Sides
<1>5. \A n \in Nodes : idOf[n] \in Nat /\ quantity[n] \in Nat
  BY TreeAssumption DEF TreeTypes
<1>6. tree.root \in NodeOrNil /\ walk.node \in NodeOrNil /\ walk.at \in NodeOrNil
  BY DEF TreeTypes, TreeShapes, Walks
<1>7. \A id \in OrderIds : latest[id] \in Int
  BY DEF TreeTypes
<1> QED BY <1>1, <1>2, <1>3, <1>4, <1>5, <1>6, <1>7

(* The calls that change nothing but the walk.                             *)
LEMMA OnlyWalkMoves ==
    ASSUME TreeList, walk' \in Walks,
           UNCHANGED <<tree, idOf, quantity, allocated, nodeCount, panicked, latest, miscounted>>,
           \/ walk.op \notin {"insert", "fix"} /\ walk'.op \notin {"insert", "fix"}
           \/ walk'.op = walk.op /\ walk'.id = walk.id,
           WalkSound'
    PROVE  TreeList'
<1>1. TreeTypes'
  BY DEF TreeList, TreeTypes
<1>2. Linked' = Linked /\ Live' = Live
  BY DEF Linked, Live
<1>3. IsList'
  BY DEF TreeList, IsList, Linked, Successor
<1>4. \A id : IsLinkedId(id)' <=> IsLinkedId(id)
  BY <1>2 DEF IsLinkedId
<1>5. \A id : Inserting(id)' <=> Inserting(id)
  BY DEF Inserting
<1>6. OrdersMatch'
  BY <1>2, <1>4, <1>5 DEF TreeList, OrdersMatch
<1>7. Uncounted' = Uncounted
  <2>1. CASE walk.op \notin {"insert", "fix"} /\ walk'.op \notin {"insert", "fix"}
    BY <2>1 DEF Uncounted
  <2>2. CASE walk'.op = walk.op /\ walk'.id = walk.id
    <3>1. IsLinkedId(walk.id)' <=> IsLinkedId(walk.id)
      BY <1>2, <2>2 DEF IsLinkedId
    <3> QED BY <2>2, <3>1 DEF Uncounted
  <2> QED BY <2>1, <2>2
<1>8. CountMatches'
  BY <1>2, <1>7 DEF TreeList, CountMatches
<1> QED BY <1>1, <1>3, <1>6, <1>8 DEF TreeList

(* cancel starts to search.                                                *)
LEMMA CancelKeepsList ==
    ASSUME TreeList, NEW id \in OrderIds, Cancel(id)
    PROVE  TreeList'
<1>1. /\ walk = Idle /\ tree.root # Nil
      /\ walk' = [Idle EXCEPT !.op = "find", !.id = id, !.at = tree.root]
      /\ UNCHANGED <<tree, idOf, quantity, allocated, nodeCount, panicked, latest, miscounted>>
  BY DEF Cancel
<1>2. walk' = [op |-> "find", node |-> Nil, id |-> id, at |-> tree.root]
  BY <1>1 DEF Idle
<1>3. tree.root \in Linked
  BY <1>1, TreeNumbers DEF TreeList, Linked, NodeOrNil
<1>4. id \in 0 .. MaxOrderId
  BY TreeAssumption DEF OrderIds
<1>5. walk' \in Walks
  BY <1>2, <1>3, <1>4, TreeNumbers DEF TreeList, Walks, NodeOrNil
<1>6. WalkSound'
  <2>1. Linked' = Linked
    BY <1>1 DEF Linked
  <2> QED BY <1>2, <1>3, <2>1 DEF WalkSound
<1>7. walk.op = "idle" /\ walk'.op = "find"
  BY <1>1, <1>2 DEF Idle
<1> QED BY <1>1, <1>5, <1>6, <1>7, OnlyWalkMoves

(* It ends without a node.                                                 *)
LEMMA NotFoundKeepsList ==
    ASSUME TreeList, NotFound
    PROVE  TreeList'
<1>1. /\ walk.op = "find" /\ walk' = Idle
      /\ UNCHANGED <<tree, idOf, quantity, allocated, nodeCount, panicked, latest, miscounted>>
  BY DEF NotFound
<1>2. walk' \in Walks /\ walk'.op = "idle"
  BY <1>1, TreeAssumption DEF Idle, Walks, NodeOrNil, Nil
<1>3. WalkSound'
  BY <1>1, <1>2 DEF WalkSound
<1> QED BY <1>1, <1>2, <1>3, OnlyWalkMoves

(* Both searches go down the list, and insert's never past the place of    *)
(* its id.                                                                 *)
LEMMA DescendKeepsList ==
    ASSUME TreeList, Descend
    PROVE  TreeList'
<1> DEFINE next == tree.child[SideTo(walk.id, walk.at)][walk.at]
<1>1. /\ walk.op \in {"insert", "find"} /\ walk.id # idOf[walk.at] /\ next # Nil
      /\ walk' = [walk EXCEPT !.at = next]
      /\ UNCHANGED <<tree, idOf, quantity, allocated, nodeCount, panicked, latest, miscounted>>
  BY DEF Descend
<1>2. walk.at \in Linked /\ walk.at \in Nodes
  BY <1>1, TreeNumbers DEF TreeList, WalkSound
<1>3. next = Successor(walk.at)
  <2>1. tree.child["left"][walk.at] = Nil
    BY <1>2 DEF TreeList, IsList
  <2> QED BY <1>1, <2>1 DEF SideTo, Successor
<1> HIDE DEF next
<1>4. next \in Linked /\ next \in Nodes /\ walk.at < next
      /\ \A m \in Linked : walk.at < m => next <= m
  BY <1>1, <1>2, <1>3, TreeNumbers DEF TreeList, IsList
<1>5. /\ walk'.op = walk.op /\ walk'.id = walk.id /\ walk'.node = walk.node /\ walk'.at = next
      /\ walk' \in Walks
  BY <1>1, <1>4 DEF TreeList, TreeTypes, Walks, NodeOrNil
<1>6. Linked' = Linked
  BY <1>1 DEF Linked
<1>7. WalkSound'
  <2>1. CASE walk.op = "insert"
    <3>1. IsLinkedId(walk.id) \/ \A n \in Linked : idOf[n] < walk.id
      BY <2>1 DEF TreeList, WalkSound
    <3>2. idOf[next] <= walk.id
      <4>1. CASE \A n \in Linked : idOf[n] < walk.id
        BY <1>4, <4>1, TreeNumbers DEF TreeList, TreeTypes, Walks
      <4>2. CASE IsLinkedId(walk.id)
        <5>1. PICK t \in Linked : idOf[t] = walk.id
          BY <4>2 DEF IsLinkedId
        <5>2. idOf[walk.at] < idOf[t]
          BY <1>1, <1>2, <2>1, <5>1, TreeNumbers DEF TreeList, WalkSound
        <5>3. walk.at < t
          <6>1. ~(t < walk.at) /\ t # walk.at
            BY <1>2, <5>1, <5>2, TreeNumbers DEF TreeList, IsList
          <6> QED BY <1>2, <6>1, TreeNumbers DEF TreeList
        <5>4. next <= t
          BY <1>4, <5>3
        <5>5. next = t \/ idOf[next] < idOf[t]
          BY <1>4, <5>4, TreeNumbers DEF TreeList, IsList
        <5> QED BY <1>4, <5>1, <5>5, TreeNumbers DEF TreeList
      <4> QED BY <3>1, <4>1, <4>2
    <3>3. (IsLinkedId(walk.id) \/ \A n \in Linked : idOf[n] < walk.id)'
      BY <1>1, <1>5, <1>6, <3>1 DEF IsLinkedId
    <3> QED BY <1>1, <1>4, <1>5, <1>6, <2>1, <3>2, <3>3 DEF TreeList, WalkSound
  <2>2. CASE walk.op = "find"
    BY <1>4, <1>5, <1>6, <2>2 DEF TreeList, WalkSound
  <2> QED BY <1>1, <2>1, <2>2
<1> QED BY <1>1, <1>5, <1>7, OnlyWalkMoves
(* An insertion into the empty tree, and one that starts its way down.     *)
LEMMA InsertFacts ==
    ASSUME TreeList, NEW id \in OrderIds, NEW q \in Sizes, Insert(id, q), ascending'
    PROVE  /\ walk = Idle /\ walk.op = "idle" /\ q \in Nat /\ q > 0
           /\ allocated + 1 \in Nodes /\ allocated + 1 \notin Linked
           /\ \A m \in Linked : m < allocated + 1
           /\ latest[id] >= 0 \/ \A i \in OrderIds : latest[i] >= 0 => i <= id
           /\ \A i \in OrderIds : latest[i] >= 0 <=> IsLinkedId(i)
           /\ \A m \in Linked : /\ idOf[m] \in OrderIds /\ IsLinkedId(idOf[m])
                                /\ latest[idOf[m]] >= 0 /\ quantity[m] = latest[idOf[m]]
<1>1. walk = Idle /\ walk.op = "idle" /\ q \in Nat /\ q > 0 /\ allocated + 1 \in Nodes
  BY TreeAssumption DEF Insert, Idle
<1>2. \A m \in Linked : m <= allocated /\ m \in Nat /\ allocated \in Nat
  BY TreeNumbers DEF TreeList, IsList
<1>3. \A m \in Linked : m < allocated + 1
  BY <1>2
<1>4. allocated + 1 \notin Linked
  BY <1>2
<1>5. latest[id] >= 0 \/ \A i \in OrderIds : latest[i] >= 0 => i <= id
  BY DEF Insert, Ascends
<1>6. \A i : ~Inserting(i)
  BY <1>1 DEF Inserting
<1>7. \A i \in OrderIds : latest[i] >= 0 <=> IsLinkedId(i)
  BY <1>6 DEF TreeList, OrdersMatch
<1>8. \A m \in Linked : idOf[m] \in OrderIds /\ IsLinkedId(idOf[m]) /\ quantity[m] = latest[idOf[m]]
  BY <1>6 DEF TreeList, OrdersMatch, IsList, IsLinkedId
<1> QED BY <1>1, <1>3, <1>4, <1>5, <1>7, <1>8

(* insert's types.                                                         *)
LEMMA InsertTypes ==
    ASSUME TreeList, NEW id \in OrderIds, NEW q \in Sizes, Insert(id, q)
    PROVE  TreeTypes'
<1>1. allocated + 1 \in Nodes /\ q \in Nat /\ q \in Int /\ id \in 0 .. MaxOrderId
  BY TreeAssumption DEF Insert, OrderIds
<1>2. allocated' \in 0 .. ArenaNodes
  BY <1>1, TreeAssumption DEF Insert, Nodes
<1>3. /\ idOf' = [idOf EXCEPT ![allocated + 1] = id]
      /\ quantity' = [quantity EXCEPT ![allocated + 1] = q]
      /\ latest' = [latest EXCEPT ![id] = q]
  BY DEF Insert
<1>4. /\ idOf' \in [Nodes -> 0 .. MaxOrderId] /\ quantity' \in [Nodes -> Nat]
      /\ latest' \in [OrderIds -> Int]
  BY <1>1, <1>3 DEF TreeList, TreeTypes
<1>5. miscounted' \in BOOLEAN
  BY DEF Insert, TreeList, TreeTypes
<1>6. tree' \in TreeShapes /\ walk' \in Walks /\ nodeCount' \in 0 .. (CountSize - 1)
  <2>1. CASE tree.root = Nil
    <3>1. tree' = [tree EXCEPT !.root = allocated + 1, !.red[allocated + 1] = FALSE]
      BY <2>1 DEF Insert
    <3>2. tree' \in TreeShapes
      BY <1>1, <3>1 DEF TreeList, TreeTypes, TreeShapes, NodeOrNil
    <3>3. nodeCount' = (nodeCount + 1) % CountSize /\ walk' = walk
      BY <2>1 DEF Insert
    <3>4. nodeCount \in Nat /\ CountSize \in Nat \ {0}
      BY TreeNumbers, TreeAssumption DEF TreeList
    <3> QED BY <3>2, <3>3, <3>4 DEF TreeList, TreeTypes
  <2>2. CASE tree.root # Nil
    <3>1. /\ walk' = [op |-> "insert", node |-> allocated + 1, id |-> id, at |-> tree.root]
          /\ UNCHANGED <<tree, nodeCount>>
      BY <2>2 DEF Insert
    <3>2. tree.root \in NodeOrNil
      BY TreeNumbers DEF TreeList
    <3> QED BY <1>1, <3>1, <3>2 DEF TreeList, TreeTypes, Walks, NodeOrNil
  <2> QED BY <2>1, <2>2
<1> QED BY <1>2, <1>4, <1>5, <1>6 DEF TreeTypes

(* The first order becomes the root.                                       *)
LEMMA FirstInsertKeepsList ==
    ASSUME TreeList, NEW id \in OrderIds, NEW q \in Sizes, Insert(id, q), ascending',
           tree.root = Nil
    PROVE  TreeList'
<1>1. PICK n \in Nodes : n = allocated + 1
  BY InsertFacts
<1>2. /\ tree' = [tree EXCEPT !.root = n, !.red[n] = FALSE] /\ allocated' = n
      /\ idOf' = [idOf EXCEPT ![n] = id] /\ quantity' = [quantity EXCEPT ![n] = q]
      /\ nodeCount' = (nodeCount + 1) % CountSize /\ walk' = walk /\ panicked' = panicked
      /\ latest' = [latest EXCEPT ![id] = q] /\ miscounted' = (miscounted \/ latest[id] = 0)
  BY <1>1 DEF Insert
<1>3. Linked = {} /\ \A m \in Nodes : tree.parent[m] = Nil /\ Successor(m) = Nil
                                      /\ tree.child["left"][m] = Nil
  BY DEF TreeList, IsList, Linked
<1>4. tree'.root = n /\ tree'.parent = tree.parent /\ tree'.child = tree.child
  BY <1>2 DEF TreeList, TreeTypes, TreeShapes
<1>5. Linked' = {n}
  BY <1>3, <1>4 DEF Linked
<1>6. idOf'[n] = id /\ quantity'[n] = q /\ latest'[id] = q
  BY <1>1, <1>2 DEF TreeList, TreeTypes
<1>7. IsList'
  <2>1. \A m \in Nodes : Successor(m)' = Nil /\ tree'.child["left"][m] = Nil /\ tree'.parent[m] = Nil
    BY <1>3, <1>4 DEF Successor
  <2>2. n \in Nat /\ n # Nil
    BY TreeNumbers DEF TreeList
  <2> QED BY <1>2, <1>4, <1>5, <1>6, <2>1, <2>2 DEF IsList
<1>8. walk.op = "idle" /\ WalkSound'
  BY <1>2, InsertFacts DEF WalkSound, Idle
<1>9. \A i : IsLinkedId(i)' <=> i = id
  BY <1>5, <1>6 DEF IsLinkedId
<1>10. \A i \in OrderIds : latest[i] < 0 /\ latest[i] \in Int
  <2>1. \A i : ~IsLinkedId(i)
    BY <1>3 DEF IsLinkedId
  <2> QED BY <2>1, InsertFacts, TreeNumbers DEF TreeList
<1>11. \A i \in OrderIds : i # id => latest'[i] = latest[i]
  BY <1>2 DEF TreeList, TreeTypes
<1>12. q \in Nat /\ q > 0
  BY InsertFacts
<1>13. \A i : ~Inserting(i)'
  BY <1>2, <1>8 DEF Inserting
<1>14. OrdersMatch'
  <2>1. \A i \in OrderIds : latest'[i] >= 0 <=> i = id
    BY <1>6, <1>10, <1>11, <1>12
  <2> QED BY <1>5, <1>6, <1>9, <1>13, <2>1 DEF OrdersMatch
<1>15. CountMatches'
  <2>1. Live = {} /\ Live' = {id}
    BY <1>6, <1>10, <1>11, <1>12 DEF Live
  <2>2. Uncounted = 0 /\ Uncounted' = 0
    BY <1>2, <1>8 DEF Uncounted
  <2>3. Cardinality({}) = 0 /\ Cardinality({id}) = 1
    BY FS_EmptySet, FS_Singleton
  <2>4. ~miscounted' => nodeCount = 0
    <3>1. ~miscounted' => ~miscounted
      BY <1>2
    <3>2. ~miscounted => nodeCount = Cardinality(Live) - Uncounted
      BY DEF TreeList, CountMatches
    <3>3. Cardinality(Live) - Uncounted = 0 - 0
      BY <2>1, <2>2, <2>3
    <3> QED BY <3>1, <3>2, <3>3
  <2>5. CountSize \in Nat /\ 1 < CountSize
    BY <1>1, TreeAssumption DEF Nodes
  <2>6. 1 % CountSize = 1
    BY <2>5
  <2> QED BY <1>2, <2>1, <2>2, <2>3, <2>4, <2>6 DEF CountMatches
<1> QED BY <1>2, <1>7, <1>8, <1>14, <1>15, InsertTypes DEF TreeList

(* Every other starts at the root: its id is either in the list or above   *)
(* all that are.                                                           *)
LEMMA LaterInsertKeepsList ==
    ASSUME TreeList, NEW id \in OrderIds, NEW q \in Sizes, Insert(id, q), ascending',
           tree.root # Nil
    PROVE  TreeList'
<1>1. PICK n \in Nodes : n = allocated + 1
  BY InsertFacts
<1>2. /\ tree' = tree /\ allocated' = n
      /\ idOf' = [idOf EXCEPT ![n] = id] /\ quantity' = [quantity EXCEPT ![n] = q]
      /\ walk' = [op |-> "insert", node |-> n, id |-> id, at |-> tree.root]
      /\ nodeCount' = nodeCount /\ panicked' = panicked
      /\ latest' = [latest EXCEPT ![id] = q] /\ miscounted' = (miscounted \/ latest[id] = 0)
  BY <1>1 DEF Insert
<1>3. Linked' = Linked /\ tree.root \in Linked /\ n \notin Linked
  <2>1. tree.root \in Nodes
    BY TreeNumbers DEF TreeList, NodeOrNil
  <2> QED BY <1>1, <1>2, <2>1, InsertFacts DEF Linked
<1>4. \A m \in Linked : idOf'[m] = idOf[m] /\ quantity'[m] = quantity[m]
  BY <1>2, <1>3, TreeNumbers DEF TreeList, TreeTypes
<1>5. IsList'
  <2>1. allocated' \in Nat /\ allocated <= allocated'
    BY <1>1, <1>2, TreeNumbers DEF TreeList
  <2> QED BY <1>2, <1>4, <2>1, ListKept DEF TreeList
<1>6. \A i : IsLinkedId(i)' <=> IsLinkedId(i)
  BY <1>3, <1>4 DEF IsLinkedId
<1>7. latest'[id] = q /\ q \in Nat /\ q > 0 /\ idOf'[n] = id /\ quantity'[n] = q
  BY <1>1, <1>2, InsertFacts DEF TreeList, TreeTypes
<1>8. \A i \in OrderIds : i # id => latest'[i] = latest[i]
  BY <1>2 DEF TreeList, TreeTypes
<1>9. IsLinkedId(id) \/ \A m \in Linked : idOf[m] < id
  <2>1. CASE latest[id] >= 0
    BY <2>1, InsertFacts
  <2>2. CASE latest[id] < 0
    <3>1. \A m \in Linked : idOf[m] # id /\ idOf[m] <= id
      BY <2>2, InsertFacts, TreeNumbers DEF TreeList
    <3> QED BY <3>1, TreeNumbers DEF TreeList
  <2> QED BY <2>1, <2>2, TreeNumbers DEF TreeList
<1>10. idOf[tree.root] <= id
  <2>1. CASE \A m \in Linked : idOf[m] < id
    BY <1>3, <2>1, TreeNumbers DEF TreeList
  <2>2. CASE IsLinkedId(id)
    <3>1. PICK t \in Linked : idOf[t] = id
      BY <2>2 DEF IsLinkedId
    <3>2. tree.root <= t
      BY DEF TreeList, IsList
    <3>3. tree.root = t \/ idOf[tree.root] < idOf[t]
      BY <1>3, <3>2, TreeNumbers DEF TreeList, IsList
    <3> QED BY <1>3, <3>1, <3>3, TreeNumbers DEF TreeList
  <2> QED BY <1>9, <2>1, <2>2
<1>11. WalkSound'
  <2>1. \A m \in Linked : m < n
    BY <1>1, InsertFacts
  <2>2. (IsLinkedId(walk.id) \/ \A m \in Linked : idOf[m] < walk.id)'
    BY <1>2, <1>3, <1>4, <1>9 DEF IsLinkedId
  <2> QED BY <1>1, <1>2, <1>3, <1>4, <1>7, <1>10, <2>1, <2>2 DEF WalkSound
<1>12. \A i : Inserting(i)' <=> i = id
  BY <1>2 DEF Inserting
<1>13. OrdersMatch'
  <2>1. ASSUME NEW i \in OrderIds
        PROVE  latest'[i] >= 0 <=> IsLinkedId(i)' \/ Inserting(i)'
    <3>1. CASE i = id
      BY <1>7, <1>12, <3>1
    <3>2. CASE i # id
      BY <1>6, <1>8, <1>12, <3>2, InsertFacts
    <3> QED BY <3>1, <3>2
  <2>2. ASSUME NEW m \in Linked
        PROVE  quantity'[m] = latest'[idOf'[m]] \/ Inserting(idOf[m])'
    <3>1. idOf'[m] = idOf[m] /\ quantity'[m] = quantity[m]
      BY <1>4
    <3>2. idOf[m] \in OrderIds /\ quantity[m] = latest[idOf[m]]
      BY InsertFacts
    <3>3. CASE idOf[m] = id
      <4>1. Inserting(id)'
        BY <1>12
      <4> QED BY <1>2, <3>1, <3>3 DEF Inserting
    <3>4. CASE idOf[m] # id
      BY <1>8, <3>1, <3>2, <3>4
    <3> QED BY <3>3, <3>4
  <2> QED BY <1>3, <2>1, <2>2 DEF OrdersMatch
<1>14. CountMatches'
  <2> SUFFICES ASSUME ~miscounted' PROVE nodeCount' = Cardinality(Live)' - Uncounted'
    BY DEF CountMatches
  <2>1. ~miscounted /\ latest[id] # 0
    BY <1>2
  <2>2. Uncounted = 0
    BY InsertFacts DEF Uncounted
  <2>3. IsFiniteSet(Live) /\ Cardinality(Live) \in Nat
    <3>1. ASSUME NEW i \in Live PROVE \E m \in Nodes : idOf[m] = i
      <4>1. i \in OrderIds /\ latest[i] >= 0
        BY TreeNumbers DEF TreeList, Live
      <4> QED BY <4>1, InsertFacts, TreeNumbers DEF TreeList, IsLinkedId
    <3> QED BY <3>1, LiveOrdersAreFew DEF TreeList
  <2>4. nodeCount = Cardinality(Live)
    BY <2>1, <2>2, <2>3 DEF TreeList, CountMatches
  <2>5. Uncounted' = IF IsLinkedId(id) THEN 0 ELSE 1
    <3>1. IsLinkedId(walk.id)' <=> IsLinkedId(id)
      BY <1>2, <1>3, <1>4 DEF IsLinkedId
    <3> QED BY <1>2, <3>1 DEF Uncounted
  <2>6. CASE latest[id] > 0
    <3>1. Live' = Live
      BY <1>7, <1>8, <2>6 DEF Live
    <3>2. IsLinkedId(id)
      BY <2>6, InsertFacts, TreeNumbers DEF TreeList
    <3> QED BY <1>2, <2>3, <2>4, <2>5, <3>1, <3>2
  <2>7. CASE latest[id] < 0
    <3>1. Live' = Live \cup {id} /\ id \notin Live
      BY <1>7, <1>8, <2>7, TreeNumbers DEF TreeList, Live
    <3>2. ~IsLinkedId(id)
      BY <2>7, InsertFacts, TreeNumbers DEF TreeList
    <3>3. Cardinality(Live \cup {id}) = Cardinality(Live) + 1
      BY <2>3, <3>1, FS_AddElement
    <3> QED BY <1>2, <2>3, <2>4, <2>5, <3>1, <3>2, <3>3
  <2> QED BY <2>1, <2>6, <2>7, TreeNumbers DEF TreeList
<1> QED BY <1>2, <1>5, <1>11, <1>13, <1>14, InsertTypes DEF TreeList
(* The steps that keep links and ids.                                      *)
LEMMA LinksAndIdsKept ==
    ASSUME TreeList,
           tree'.root = tree.root, tree'.child = tree.child, tree'.parent = tree.parent,
           idOf' = idOf, allocated' = allocated
    PROVE  /\ Linked' = Linked /\ IsList'
           /\ \A i : IsLinkedId(i)' <=> IsLinkedId(i)
<1>1. Linked' = Linked
  BY LinksKept
<1>2. IsList'
  <2>1. allocated' \in Nat /\ allocated <= allocated'
    BY TreeNumbers DEF TreeList
  <2> QED BY <2>1, ListKept DEF TreeList
<1> QED BY <1>1, <1>2 DEF IsLinkedId

(* A walk that is over; new orders in between are in the tree.             *)
LEMMA IdleWalk ==
    ASSUME walk' = Idle
    PROVE  /\ walk'.op = "idle" /\ walk' \in Walks /\ WalkSound'
           /\ Uncounted' = 0 /\ \A i : ~Inserting(i)'
<1>1. walk'.op = "idle"
  BY DEF Idle
<1>2. walk' \in Walks
  BY TreeAssumption DEF Idle, Walks, NodeOrNil, Nil
<1> QED BY <1>1, <1>2 DEF WalkSound, Uncounted, Inserting

(* Every order that is still live has a node.                              *)
LEMMA LiveAreFinite ==
    ASSUME TreeList
    PROVE  /\ IsFiniteSet(Live) /\ Cardinality(Live) \in Nat /\ Cardinality(Live) < CountSize
<1>1. ASSUME NEW i \in Live PROVE \E m \in Nodes : idOf[m] = i
  <2>1. i \in OrderIds /\ latest[i] >= 0
    BY TreeNumbers DEF TreeList, Live
  <2>2. IsLinkedId(i) \/ Inserting(i)
    BY <2>1 DEF TreeList, OrdersMatch
  <2>3. CASE IsLinkedId(i)
    BY <2>3, TreeNumbers DEF TreeList, IsLinkedId
  <2>4. CASE Inserting(i)
    BY <2>4 DEF TreeList, WalkSound, Inserting
  <2> QED BY <2>2, <2>3, <2>4
<1> QED BY <1>1, LiveOrdersAreFew DEF TreeList

(* An order inserted again gets its new quantity.                          *)
LEMMA ModifyKeepsList ==
    ASSUME TreeList, Modify
    PROVE  TreeList'
<1>1. /\ walk.op = "insert" /\ walk.id = idOf[walk.at] /\ walk' = Idle
      /\ quantity' = [quantity EXCEPT ![walk.at] = quantity[walk.node]]
      /\ UNCHANGED <<tree, idOf, allocated, nodeCount, panicked, latest, miscounted>>
  BY DEF Modify
<1>2. /\ walk.at \in Linked /\ walk.at \in Nodes /\ walk.node \in Nodes /\ walk.id \in OrderIds
      /\ quantity[walk.node] = latest[walk.id]
  BY <1>1, TreeNumbers DEF TreeList, WalkSound
<1>3. Linked' = Linked /\ IsList' /\ \A i : IsLinkedId(i)' <=> IsLinkedId(i)
  BY <1>1, LinksAndIdsKept
<1>4. TreeTypes'
  BY <1>1, <1>2, IdleWalk DEF TreeList, TreeTypes
<1>5. IsLinkedId(walk.id)
  BY <1>1, <1>2 DEF IsLinkedId
<1>6. \A m \in Linked : m # walk.at => idOf[m] # walk.id
  BY <1>1, <1>2, TreeNumbers DEF TreeList, IsList
<1>7. OrdersMatch'
  <2>1. \A i \in OrderIds : latest[i] >= 0 <=> IsLinkedId(i)
    BY <1>5 DEF TreeList, OrdersMatch, Inserting
  <2>2. ASSUME NEW m \in Linked PROVE quantity'[m] = latest[idOf[m]]
    <3>1. CASE m = walk.at
      BY <1>1, <1>2, <3>1 DEF TreeList, TreeTypes
    <3>2. CASE m # walk.at
      <4>1. quantity'[m] = quantity[m] /\ ~Inserting(idOf[m])
        BY <1>1, <1>6, <3>2, TreeNumbers DEF TreeList, TreeTypes, Inserting
      <4> QED BY <4>1 DEF TreeList, OrdersMatch
    <3> QED BY <3>1, <3>2
  <2> QED BY <1>1, <1>3, <2>1, <2>2, IdleWalk DEF OrdersMatch
<1>8. CountMatches'
  <2>1. Live' = Live /\ Uncounted = 0
    BY <1>1, <1>5 DEF Live, Uncounted
  <2> QED BY <1>1, <2>1, IdleWalk DEF TreeList, CountMatches
<1> QED BY <1>1, <1>3, <1>4, <1>7, <1>8, IdleWalk DEF TreeList

(* A new node is linked to the right of the last one.                      *)
LEMMA LinkKeepsList ==
    ASSUME TreeList, Link
    PROVE  TreeList'
<1>1. /\ walk.op = "insert" /\ walk.id # idOf[walk.at]
      /\ tree.child[SideTo(walk.id, walk.at)][walk.at] = Nil
      /\ tree' = [tree EXCEPT !.child[SideTo(walk.id, walk.at)][walk.at] = walk.node,
                              !.parent[walk.node] = walk.at]
      /\ walk' = [walk EXCEPT !.op = "fix"]
      /\ UNCHANGED <<idOf, quantity, allocated, nodeCount, panicked, latest, miscounted>>
  BY DEF Link
<1>2. PICK at \in Nodes, n \in Nodes : at = walk.at /\ n = walk.node
  BY <1>1, TreeNumbers DEF TreeList, WalkSound
<1>3. /\ at \in Linked /\ walk.id \in OrderIds /\ n = allocated /\ idOf[n] = walk.id
      /\ idOf[at] <= walk.id /\ quantity[n] = latest[walk.id] /\ latest[walk.id] > 0
      /\ \A m \in Linked : m < n
  BY <1>1, <1>2 DEF TreeList, WalkSound
<1>4. SideTo(walk.id, walk.at) = "right"
  BY <1>1, <1>2, <1>3, TreeNumbers DEF TreeList, SideTo
<1>5. /\ tree'.root = tree.root /\ tree'.parent = [tree.parent EXCEPT ![n] = at]
      /\ tree'.child = [tree.child EXCEPT !["right"][at] = n]
      /\ tree' \in TreeShapes
  BY <1>1, <1>2, <1>4 DEF TreeList, TreeTypes, TreeShapes, Sides, NodeOrNil
<1>6. /\ tree'.parent[n] = at /\ \A m \in Nodes : m # n => tree'.parent[m] = tree.parent[m]
      /\ Successor(at)' = n /\ \A m \in Nodes : m # at => Successor(m)' = Successor(m)
      /\ \A m \in Nodes : tree'.child["left"][m] = Nil
  <2>1. \A m \in Nodes : tree.child["left"][m] = Nil
    BY DEF TreeList, IsList
  <2> QED BY <1>5, <2>1 DEF TreeList, TreeTypes, TreeShapes, Sides, Successor
<1>7. n \notin Linked /\ at # n /\ n # Nil /\ at # Nil
  BY <1>3, TreeNumbers DEF TreeList
<1>8. Linked' = Linked \cup {n}
  BY <1>5, <1>6, <1>7 DEF Linked
<1>9. \A m \in Linked : m <= at
  <2>1. Successor(at) = Nil
    BY <1>1, <1>2, <1>4 DEF Successor
  <2> QED BY <1>3, <2>1 DEF TreeList, IsList
<1>10. \A m \in Linked : idOf[m] < walk.id
  <2>1. idOf[at] < walk.id
    BY <1>1, <1>2, <1>3, TreeNumbers DEF TreeList
  <2>2. \A m \in Linked : m = at \/ idOf[m] < idOf[at]
    BY <1>3, <1>9, TreeNumbers DEF TreeList, IsList
  <2> QED BY <2>1, <2>2, <1>3, TreeNumbers DEF TreeList
<1>11. IsList'
  <2>1. (\A m \in Nodes : tree.child["left"][m] = Nil)'
    BY <1>6
  <2>2. Successor(n) = Nil /\ Successor(n)' = Nil
    BY <1>6, <1>7 DEF TreeList, IsList
  <2>3. (\A m \in Nodes : m \notin Linked => Successor(m) = Nil)'
    BY <1>3, <1>6, <1>8 DEF TreeList, IsList
  <2>4. tree'.root # Nil
    BY <1>3, <1>5 DEF TreeList, IsList
  <2>5. ASSUME NEW m \in Linked'
        PROVE  /\ tree'.root <= m /\ m <= allocated' /\ idOf'[m] \in OrderIds
               /\ tree'.parent[m] # Nil => tree'.parent[m] \in Linked' /\ Successor(tree.parent[m])' = m
               /\ Successor(m)' = Nil => \A k \in Linked' : k <= m
               /\ Successor(m)' # Nil => /\ Successor(m)' \in Linked' /\ m < Successor(m)'
                                     /\ \A k \in Linked' : m < k => Successor(m)' <= k
    <3>1. CASE m = n
      <4>1. tree'.root <= n
        <5>1. tree.root <= at /\ at < n
          BY <1>3 DEF TreeList, IsList
        <5> QED BY <1>3, <1>5, <5>1, TreeNumbers DEF TreeList, NodeOrNil
      <4>2. \A k \in Linked' : k <= n
        BY <1>3, <1>8, TreeNumbers DEF TreeList
      <4>4. Successor(at)' = tree'.child["right"][at]
        BY DEF Successor
      <4>5. n <= allocated'
        BY <1>1, <1>3, TreeNumbers DEF TreeList
      <4>6. tree'.parent[n] = at /\ at \in Linked' /\ Successor(tree.parent[n])' = n
        <5>1. Successor(tree.parent[n])' = tree'.child["right"][tree'.parent[n]]
          BY DEF Successor
        <5> QED BY <1>3, <1>6, <1>8, <4>4, <5>1
      <4>7. idOf'[n] \in OrderIds
        BY <1>1, <1>3
      <4> QED BY <2>2, <3>1, <4>1, <4>2, <4>5, <4>6, <4>7
    <3>2. CASE m # n
      <4>1. m \in Linked /\ m \in Nodes
        BY <1>8, <3>2, TreeNumbers DEF TreeList
      <4>2. tree'.root <= m /\ m <= allocated' /\ idOf'[m] \in OrderIds
        BY <1>1, <1>5, <4>1 DEF TreeList, IsList
      <4>3. tree'.parent[m] # Nil => tree'.parent[m] \in Linked' /\ Successor(tree.parent[m])' = m
        <5> SUFFICES ASSUME tree.parent[m] # Nil
                     PROVE  tree.parent[m] \in Linked' /\ Successor(tree.parent[m])' = m
          BY <1>6, <3>2, <4>1
        <5>1. PICK p \in Nodes : p = tree.parent[m] /\ p \in Linked /\ Successor(p) = m
          BY <4>1, TreeNumbers DEF TreeList, IsList
        <5>2. p # at
          <6>1. Successor(at) = Nil
            BY <1>1, <1>2, <1>4 DEF Successor
          <6> QED BY <4>1, <5>1, <6>1, TreeNumbers DEF TreeList
        <5>3. Successor(p)' = m /\ tree'.parent[m] = p
          BY <1>6, <3>2, <4>1, <5>1, <5>2
        <5>4. Successor(tree.parent[m])' = tree'.child["right"][tree'.parent[m]]
          BY DEF Successor
        <5>5. Successor(p)' = tree'.child["right"][p]
          BY DEF Successor
        <5> QED BY <1>8, <5>1, <5>3, <5>4, <5>5
      <4>4. CASE m = at
        <5>1. Successor(m)' = n /\ n # Nil /\ n \in Linked' /\ m < n
          BY <1>3, <1>6, <1>7, <1>8, <4>4
        <5>2. \A k \in Linked' : m < k => n <= k
          <6>1. \A k \in Linked : ~(m < k)
            BY <1>9, <4>4, <4>1, TreeNumbers DEF TreeList
          <6>2. n <= n
            BY <1>3, TreeNumbers DEF TreeList
          <6> QED BY <1>8, <6>1, <6>2
        <5> QED BY <4>2, <4>3, <5>1, <5>2
      <4>5. CASE m # at
        <5>1. Successor(m)' = Successor(m) /\ Successor(m) \in NodeOrNil
          BY <1>6, <4>1, <4>5, TreeNumbers DEF TreeList
        <5>2. m < at
          BY <1>9, <4>1, <4>5, TreeNumbers DEF TreeList
        <5>3. Successor(m) # Nil
          BY <1>3, <4>1, <5>2, TreeNumbers DEF TreeList, IsList
        <5>4. Successor(m) \in Linked /\ m < Successor(m) /\ \A k \in Linked : m < k => Successor(m) <= k
          BY <4>1, <5>3 DEF TreeList, IsList
        <5>5. Successor(m) <= n
          BY <1>3, <5>4, TreeNumbers DEF TreeList
        <5> QED BY <1>8, <4>2, <4>3, <5>1, <5>3, <5>4, <5>5
      <4> QED BY <4>4, <4>5
    <3> QED BY <3>1, <3>2
  <2>6. \A m, k \in Linked' : m < k => idOf'[m] < idOf'[k]
    <3> SUFFICES ASSUME NEW m \in Linked', NEW k \in Linked', m < k PROVE idOf'[m] < idOf'[k]
      OBVIOUS
    <3>1. m # n
      BY <1>3, <1>8, TreeNumbers DEF TreeList
    <3>2. m \in Linked
      BY <1>8, <3>1
    <3>3. CASE k = n
      BY <1>1, <1>3, <1>10, <3>2, <3>3
    <3>4. CASE k # n
      BY <1>1, <1>8, <3>2, <3>4 DEF TreeList, IsList
    <3> QED BY <3>3, <3>4
  <2> QED BY <2>1, <2>3, <2>4, <2>5, <2>6 DEF IsList
<1>12. walk'.op = "fix" /\ walk'.node = n /\ walk' \in Walks
  BY <1>1, <1>2 DEF TreeList, TreeTypes, Walks
<1>13. WalkSound'
  BY <1>8, <1>12 DEF WalkSound
<1>14. TreeTypes'
  BY <1>1, <1>5, <1>12 DEF TreeList, TreeTypes
<1>15. \A i : IsLinkedId(i)' <=> IsLinkedId(i) \/ i = walk.id
  BY <1>1, <1>3, <1>8 DEF IsLinkedId
<1>16. \A i : ~Inserting(i)' /\ (Inserting(i) <=> i = walk.id)
  BY <1>1, <1>12 DEF Inserting
<1>17. OrdersMatch'
  <2>1. \A i \in OrderIds : latest'[i] >= 0 <=> IsLinkedId(i)'
    BY <1>1, <1>15, <1>16 DEF TreeList, OrdersMatch
  <2>2. \A m \in Linked : quantity[m] = latest[idOf[m]]
    <3>1. \A m \in Linked : ~Inserting(idOf[m])
      BY <1>10, <1>16, <1>3, TreeNumbers DEF TreeList
    <3> QED BY <3>1 DEF TreeList, OrdersMatch
  <2>3. \A m \in Linked' : quantity'[m] = latest'[idOf'[m]]
    BY <1>1, <1>3, <1>8, <2>2
  <2> QED BY <1>16, <2>1, <2>3 DEF OrdersMatch
<1>18. CountMatches'
  <2>1. ~IsLinkedId(walk.id)
    BY <1>10, <1>3, TreeNumbers DEF TreeList, IsLinkedId
  <2>2. Uncounted = 1 /\ Uncounted' = 1 /\ Live' = Live
    BY <1>1, <1>12, <2>1 DEF Uncounted, Live
  <2> QED BY <1>1, <2>2 DEF TreeList, CountMatches
<1> QED BY <1>1, <1>11, <1>13, <1>14, <1>17, <1>18 DEF TreeList

(* fix_insertion ends, and the insertion is counted.                       *)
LEMMA FixEndsKeepsList ==
    ASSUME TreeList, FixEnds
    PROVE  TreeList'
<1>1. /\ walk.op = "fix" /\ walk' = Idle
      /\ tree' = [tree EXCEPT !.red[tree.root] = FALSE]
      /\ nodeCount' = (nodeCount + 1) % CountSize
      /\ UNCHANGED <<idOf, quantity, allocated, panicked, latest, miscounted>>
  BY DEF FixEnds
<1>2. tree'.root = tree.root /\ tree'.child = tree.child /\ tree'.parent = tree.parent
      /\ tree' \in TreeShapes
  BY <1>1 DEF TreeList, TreeTypes, TreeShapes
<1>3. Linked' = Linked /\ IsList' /\ \A i : IsLinkedId(i)' <=> IsLinkedId(i)
  BY <1>1, <1>2, LinksAndIdsKept
<1>4. nodeCount \in Nat /\ CountSize \in Nat \ {0}
  BY TreeNumbers, TreeAssumption DEF TreeList
<1>5. TreeTypes'
  BY <1>1, <1>2, <1>4, IdleWalk DEF TreeList, TreeTypes
<1>6. \A i : ~Inserting(i)
  BY <1>1 DEF Inserting
<1>7. OrdersMatch'
  BY <1>1, <1>3, <1>6, IdleWalk DEF TreeList, OrdersMatch
<1>8. CountMatches'
  <2> SUFFICES ASSUME ~miscounted PROVE nodeCount' = Cardinality(Live)
    <3>1. Live' = Live
      BY <1>1 DEF Live
    <3> QED BY <1>1, <3>1, LiveAreFinite, IdleWalk DEF CountMatches
  <2>1. Uncounted = 1
    BY <1>1 DEF Uncounted
  <2>2. nodeCount = Cardinality(Live) - 1
    BY <2>1 DEF TreeList, CountMatches
  <2>3. nodeCount + 1 = Cardinality(Live) /\ nodeCount + 1 < CountSize
    BY <2>2, LiveAreFinite
  <2>4. (nodeCount + 1) % CountSize = nodeCount + 1
    BY <1>4, <2>3
  <2> QED BY <1>1, <2>3, <2>4
<1> QED BY <1>1, <1>3, <1>5, <1>7, <1>8, IdleWalk DEF TreeList

(* While links only go to the right, fix_insertion finds no uncle but the  *)
(* red parent itself.                                                      *)
LEMMA UncleIsParent ==
    ASSUME TreeList, RedParent
    PROVE  /\ tree.parent[walk.node] \in Linked /\ tree.parent[tree.parent[walk.node]] \in Linked
           /\ Uncle = tree.parent[walk.node] /\ RedUncle
<1>1. PICK n \in Linked : n = walk.node
  BY DEF TreeList, RedParent, WalkSound
<1>2. PICK p \in Linked : p = tree.parent[n]
  BY <1>1 DEF TreeList, RedParent, IsList
<1>3. PICK g \in Linked : g = tree.parent[p] /\ Successor(g) = p
  BY <1>1, <1>2 DEF TreeList, RedParent, IsList
<1>4. g \in Nodes /\ p \in Nodes /\ p # Nil
  BY TreeNumbers DEF TreeList
<1>5. ChildOr(tree, "left", g, p) = p
  BY <1>4 DEF TreeList, IsList, ChildOr
<1>6. SideOf(tree, p) = "left"
  BY <1>3, <1>5 DEF SideOf
<1>7. Uncle = p
  BY <1>1, <1>2, <1>3, <1>6 DEF Uncle, Opposite, Successor
<1>8. tree.red[p]
  BY <1>1, <1>2 DEF RedParent
<1> QED BY <1>1, <1>2, <1>3, <1>4, <1>7, <1>8 DEF RedUncle

(* So fix_insertion only recolours, two nodes up at a time.                *)
LEMMA RecolourKeepsList ==
    ASSUME TreeList, Recolour
    PROVE  TreeList'
<1> DEFINE p == tree.parent[walk.node]
<1>1. /\ walk.op = "fix" /\ walk' = [walk EXCEPT !.node = tree.parent[p]]
      /\ tree' = Recoloured(tree, {tree.parent[p]}, {p, Uncle})
      /\ UNCHANGED <<idOf, quantity, allocated, nodeCount, panicked, latest, miscounted>>
  BY DEF Recolour, RedParent
<1>2. tree.parent[p] \in Linked
  BY UncleIsParent DEF Recolour
<1> HIDE DEF p
<1>3. PICK reds, blacks : tree' = Recoloured(tree, reds, blacks)
  BY <1>1
<1>4. tree'.root = tree.root /\ tree'.child = tree.child /\ tree'.parent = tree.parent
      /\ tree' \in TreeShapes
  <2>1. tree' = [tree EXCEPT !.red =
                   [n \in Nodes |-> IF n \in reds THEN TRUE ELSE n \notin blacks /\ tree.red[n]]]
    BY <1>3 DEF Recoloured
  <2>2. tree.red \in [Nodes -> BOOLEAN]
    BY DEF TreeList, TreeTypes, TreeShapes
  <2>3. [n \in Nodes |-> IF n \in reds THEN TRUE ELSE n \notin blacks /\ tree.red[n]]
          \in [Nodes -> BOOLEAN]
    BY <2>2
  <2> QED BY <2>1, <2>3 DEF TreeList, TreeTypes, TreeShapes
<1>5. Linked' = Linked /\ IsList' /\ \A i : IsLinkedId(i)' <=> IsLinkedId(i)
  BY <1>1, <1>4, LinksAndIdsKept
<1>6. walk'.op = "fix" /\ walk'.node = tree.parent[p] /\ walk' \in Walks
  BY <1>1, <1>2, TreeNumbers DEF TreeList, TreeTypes, Walks, NodeOrNil
<1>7. WalkSound'
  BY <1>2, <1>5, <1>6 DEF WalkSound
<1>8. \A i : ~Inserting(i) /\ ~Inserting(i)'
  BY <1>1, <1>6 DEF Inserting
<1>9. OrdersMatch'
  BY <1>1, <1>5, <1>8 DEF TreeList, OrdersMatch
<1>10. CountMatches'
  <2>1. Uncounted = 1 /\ Uncounted' = 1 /\ Live' = Live
    BY <1>1, <1>6 DEF Uncounted, Live
  <2> QED BY <1>1, <2>1 DEF TreeList, CountMatches
<1> QED BY <1>1, <1>4, <1>5, <1>6, <1>7, <1>9, <1>10 DEF TreeList, TreeTypes

(* It never rotates.                                                       *)
LEMMA NothingRotates ==
    ASSUME TreeList
    PROVE  ~Rotate
BY UncleIsParent DEF Rotate

(* A cancelled order keeps its node, with no quantity, and is not counted. *)
LEMMA DeleteKeepsList ==
    ASSUME TreeList, Delete
    PROVE  TreeList'
<1>1. /\ walk.op = "find" /\ walk.id = idOf[walk.at] /\ walk' = Idle
      /\ quantity' = [quantity EXCEPT ![walk.at] = 0]
      /\ tree' = [tree EXCEPT !.red[walk.at] = FALSE]
      /\ nodeCount' = (nodeCount - 1) % CountSize
      /\ latest' = [latest EXCEPT ![walk.id] = 0]
      /\ miscounted' = (miscounted \/ latest[walk.id] = 0)
      /\ UNCHANGED <<idOf, allocated, panicked>>
  BY DEF Delete
<1>2. PICK at \in Linked, id \in OrderIds : at = walk.at /\ id = walk.id /\ idOf[at] = id
  BY <1>1 DEF TreeList, WalkSound
<1>3. at \in Nodes /\ at \in Nat
  BY TreeNumbers DEF TreeList
<1>4. tree'.root = tree.root /\ tree'.child = tree.child /\ tree'.parent = tree.parent
      /\ tree' \in TreeShapes
  BY <1>1 DEF TreeList, TreeTypes, TreeShapes
<1>5. Linked' = Linked /\ IsList' /\ \A i : IsLinkedId(i)' <=> IsLinkedId(i)
  BY <1>1, <1>4, LinksAndIdsKept
<1>6. nodeCount \in Nat /\ CountSize \in Nat \ {0}
  BY TreeNumbers, TreeAssumption DEF TreeList
<1>7. /\ quantity'[at] = 0 /\ \A m \in Nodes : m # at => quantity'[m] = quantity[m]
      /\ latest'[id] = 0 /\ \A i \in OrderIds : i # id => latest'[i] = latest[i]
  BY <1>1, <1>2, <1>3 DEF TreeList, TreeTypes
<1>8. TreeTypes'
  <2>1. quantity' \in [Nodes -> Nat] /\ latest' \in [OrderIds -> Int]
    <3>1. 0 \in Nat /\ 0 \in Int
      OBVIOUS
    <3>2. quantity \in [Nodes -> Nat] /\ latest \in [OrderIds -> Int]
      BY DEF TreeList, TreeTypes
    <3> QED BY <1>1, <3>1, <3>2
  <2>2. nodeCount' \in 0 .. (CountSize - 1)
    BY <1>1, <1>6
  <2>3. miscounted' \in BOOLEAN
    BY <1>1 DEF TreeList, TreeTypes
  <2> QED BY <1>1, <1>4, <2>1, <2>2, <2>3, IdleWalk DEF TreeList, TreeTypes
<1>9. \A i : ~Inserting(i)
  BY <1>1 DEF Inserting
<1>10. IsLinkedId(id) /\ latest[id] >= 0
  BY <1>2, <1>9 DEF TreeList, OrdersMatch, IsLinkedId
<1>11. OrdersMatch'
  <2>1. \A i \in OrderIds : latest'[i] >= 0 <=> IsLinkedId(i)'
    <3>1. \A i \in OrderIds : latest[i] >= 0 <=> IsLinkedId(i)
      BY <1>9 DEF TreeList, OrdersMatch
    <3> QED BY <1>5, <1>7, <1>10, <3>1
  <2>2. \A m \in Linked : quantity'[m] = latest'[idOf[m]]
    <3> SUFFICES ASSUME NEW m \in Linked PROVE quantity'[m] = latest'[idOf[m]]
      OBVIOUS
    <3>1. CASE m = at
      BY <1>2, <1>7, <3>1
    <3>2. CASE m # at
      <4>1. idOf[m] # id
        BY <1>2, <3>2, TreeNumbers DEF TreeList, IsList
      <4>2. quantity[m] = latest[idOf[m]] /\ idOf[m] \in OrderIds
        BY <1>9 DEF TreeList, OrdersMatch, IsList
      <4> QED BY <1>7, <3>2, <4>1, <4>2, TreeNumbers DEF TreeList
    <3> QED BY <3>1, <3>2
  <2> QED BY <1>1, <1>5, <2>1, <2>2, IdleWalk DEF OrdersMatch
<1>12. CountMatches'
  <2> SUFFICES ASSUME ~miscounted' PROVE nodeCount' = Cardinality(Live)' - Uncounted'
    BY DEF CountMatches
  <2>1. ~miscounted /\ latest[id] # 0
    BY <1>1, <1>2
  <2>2. Uncounted = 0 /\ Uncounted' = 0
    BY <1>1, IdleWalk DEF Uncounted
  <2>3. nodeCount = Cardinality(Live)
    BY <2>1, <2>2, LiveAreFinite DEF TreeList, CountMatches
  <2>4. id \in Live /\ Live' = Live \ {id}
    BY <1>7, <1>10, <2>1, TreeNumbers DEF TreeList, Live
  <2>5. Cardinality(Live \ {id}) = Cardinality(Live) - 1
    BY <2>4, LiveAreFinite, FS_RemoveElement
  <2>6. IsFiniteSet(Live \ {id}) /\ Cardinality(Live \ {id}) \in Nat
    BY LiveAreFinite, FS_Subset, FS_CardinalityType
  <2>7. PICK c \in Nat : c = Cardinality(Live) /\ c < CountSize /\ c - 1 \in Nat
    BY <2>5, <2>6, LiveAreFinite
  <2>8. (c - 1) % CountSize = c - 1
    BY <1>6, <2>7
  <2> QED BY <1>1, <2>2, <2>3, <2>4, <2>5, <2>7, <2>8
<1> QED BY <1>1, <1>5, <1>8, <1>11, <1>12, IdleWalk DEF TreeList
(* A search is a function from the steps taken to the node reached, and    *)
(* there is one of every length.                                           *)
SearchStep(id, n) ==
    IF n = Nil THEN Nil
    ELSE IF idOf[n] = id THEN n
    ELSE tree.child[SideTo(id, n)][n]
Searches(at, id, steps) ==
    at = [k \in 0 .. steps |-> IF k = 0 THEN tree.root ELSE SearchStep(id, at[k - 1])]

(* (The least number of steps without a search would have one, longer by a *)
(* step than that of one step less.)                                       *)
LEMMA SearchExists ==
    ASSUME NEW id
    PROVE  \A steps \in Nat : \E at : Searches(at, id, steps)
<1> DEFINE Unreached == {steps \in Nat : ~\E at : Searches(at, id, steps)}
<1> SUFFICES ASSUME Unreached # {} PROVE FALSE
  OBVIOUS
<1>1. PICK n \in Unreached : \A y \in Unreached : n <= y
  <2>1. Unreached \in SUBSET Nat
    OBVIOUS
  <2> HIDE DEF Unreached
  <2> QED BY <2>1, LeastNumber
<1>2. n \in Nat /\ ~\E at : Searches(at, id, n)
  OBVIOUS
<1>3. n # 0
  <2>1. Searches([k \in 0 .. 0 |-> tree.root], id, 0)
    BY DEF Searches
  <2> QED BY <1>2, <2>1
<1>4. n - 1 \in Nat /\ n - 1 \notin Unreached
  BY <1>1, <1>2, <1>3
<1>5. PICK at : Searches(at, id, n - 1)
  BY <1>4
<1> DEFINE longer == [k \in 0 .. n |-> IF k = n THEN SearchStep(id, at[n - 1]) ELSE at[k]]
<1> HIDE DEF Unreached
<1>6. \A k \in 0 .. (n - 1) : at[k] = IF k = 0 THEN tree.root ELSE SearchStep(id, at[k - 1])
  BY <1>5 DEF Searches
<1>7. \A k \in 0 .. n : longer[k] = IF k = 0 THEN tree.root ELSE SearchStep(id, longer[k - 1])
  <2> SUFFICES ASSUME NEW k \in 0 .. n
               PROVE  longer[k] = IF k = 0 THEN tree.root ELSE SearchStep(id, longer[k - 1])
    OBVIOUS
  <2>1. CASE k = n
    <3>1. n - 1 \in 0 .. n /\ n - 1 # n
      BY <1>2, <1>3
    <3>2. longer[n - 1] = at[n - 1]
      BY <3>1
    <3> QED BY <1>3, <2>1, <3>2
  <2>2. CASE k # n
    <3>1. longer[k] = at[k] /\ k \in 0 .. (n - 1)
      BY <1>2, <2>2
    <3>2. k # 0 => k - 1 \in 0 .. n /\ k - 1 # n
      BY <1>2, <2>2
    <3>3. k # 0 => longer[k - 1] = at[k - 1]
      BY <3>2
    <3> QED BY <1>6, <3>1, <3>3
  <2> QED BY <2>1, <2>2
<1>8. longer = [k \in 0 .. n |-> longer[k]]
  OBVIOUS
<1> HIDE DEF longer
<1>9. Searches(longer, id, n)
  BY <1>7, <1>8 DEF Searches
<1> QED BY <1>2, <1>9

(* The model's search, step by step.                                       *)
LEMMA SearchIsWalk ==
    ASSUME NEW id
    PROVE  \E at : /\ Searches(at, id, ArenaNodes) /\ Search(id) = at[ArenaNodes]
                   /\ at[0] = tree.root
                   /\ \A k \in 0 .. ArenaNodes : k # 0 => at[k] = SearchStep(id, at[k - 1])
<1> DEFINE at == CHOOSE at : Searches(at, id, ArenaNodes)
<1>1. ArenaNodes \in Nat
  BY TreeAssumption
<1>2. \E f : Searches(f, id, ArenaNodes)
  BY <1>1, SearchExists
<1>3. Searches(at, id, ArenaNodes)
  BY <1>2
<1>4. Search(id) = at[ArenaNodes]
  BY DEF Search, Searches, SearchStep
<1> HIDE DEF at
<1>5. at[0] = tree.root /\ \A k \in 0 .. ArenaNodes : k # 0 => at[k] = SearchStep(id, at[k - 1])
  BY <1>1, <1>3 DEF Searches
<1> QED BY <1>3, <1>4, <1>5

(* A search down the list gets on by a node a step until it arrives.       *)
LEMMA SearchArrives ==
    ASSUME TreeList, NEW t \in Linked
    PROVE  Search(idOf[t]) = t
<1> DEFINE id == idOf[t]
<1>1. PICK at : /\ Search(id) = at[ArenaNodes] /\ at[0] = tree.root
                /\ \A k \in 0 .. ArenaNodes : k # 0 => at[k] = SearchStep(id, at[k - 1])
  BY SearchIsWalk
<1>2. t \in Nodes /\ t \in Nat /\ t # Nil /\ id \in Nat /\ ArenaNodes \in Nat /\ t <= ArenaNodes
  BY TreeNumbers, TreeAssumption DEF TreeList, Nodes
<1> HIDE DEF id
<1> DEFINE Arriving(k) == at[k] \in Linked /\ at[k] <= t /\ (at[k] = t \/ k + 1 <= at[k])
           Lost == {k \in 0 .. ArenaNodes : ~Arriving(k)}
<1>3. Arriving(0)
  <2>1. tree.root \in Nodes /\ tree.root <= t
    <3>1. tree.root # Nil /\ tree.root <= t
      BY DEF TreeList, IsList
    <3> QED BY <3>1, TreeNumbers DEF TreeList, NodeOrNil
  <2>2. tree.root \in Linked /\ 1 <= tree.root
    BY <2>1 DEF Linked, Nodes
  <2> QED BY <1>1, <2>1, <2>2
<1>4. ASSUME NEW k \in 0 .. ArenaNodes, k # 0, Arriving(k - 1)
      PROVE  Arriving(k)
  <2>1. PICK a \in Linked : a = at[k - 1] /\ a <= t /\ (a = t \/ k <= a)
    BY <1>4
  <2>2. a \in Nodes /\ a # Nil /\ a \in Nat
    BY TreeNumbers DEF TreeList
  <2>3. at[k] = SearchStep(id, a)
    <3>1. at[k] = SearchStep(id, at[k - 1])
      BY <1>1, <1>4
    <3> QED BY <2>1, <3>1
  <2>4. CASE a = t
    <3>1. at[k] = t
      BY <2>2, <2>3, <2>4 DEF SearchStep, id
    <3> QED BY <1>2, <3>1
  <2>5. CASE a # t
    <3>1. a < t /\ idOf[a] < id
      BY <1>2, <2>1, <2>2, <2>5 DEF TreeList, IsList, id
    <3>2. idOf[a] # id /\ SideTo(id, a) = "right"
      <4>1. idOf[a] \in Nat
        BY <2>2, TreeNumbers DEF TreeList
      <4> QED BY <1>2, <3>1, <4>1 DEF SideTo
    <3>3. at[k] = Successor(a)
      BY <2>2, <2>3, <3>2 DEF SearchStep, Successor
    <3>4. Successor(a) # Nil
      BY <1>2, <2>2, <3>1 DEF TreeList, IsList
    <3>5. Successor(a) \in Linked /\ a < Successor(a) /\ Successor(a) <= t
      BY <3>1, <3>4 DEF TreeList, IsList
    <3>6. Successor(a) \in Nat /\ k \in Nat
      BY <3>5, TreeNumbers DEF TreeList
    <3>7. k + 1 <= Successor(a)
      BY <2>1, <2>2, <2>5, <3>5, <3>6
    <3> QED BY <3>3, <3>5, <3>7
  <2> QED BY <2>4, <2>5
<1> HIDE DEF Arriving
<1>5. Lost = {}
  <2> SUFFICES ASSUME Lost # {} PROVE FALSE
    OBVIOUS
  <2>1. Lost \in SUBSET Nat
    OBVIOUS
  <2>2. PICK k \in Lost : \A y \in Lost : k <= y
    <3> HIDE DEF Lost
    <3> QED BY <2>1, LeastNumber
  <2>3. k \in 0 .. ArenaNodes /\ k # 0 /\ ~Arriving(k)
    BY <1>3
  <2>4. k - 1 \in 0 .. ArenaNodes /\ ~(k <= k - 1)
    BY <1>2, <2>3
  <2>5. Arriving(k - 1)
    BY <2>2, <2>4
  <2> QED BY <1>4, <2>3, <2>5
<1>6. Arriving(ArenaNodes)
  BY <1>2, <1>5
<1>7. at[ArenaNodes] = t
  <2>1. PICK a \in Nat : a = at[ArenaNodes] /\ a <= t /\ (a = t \/ ArenaNodes + 1 <= a)
    BY <1>6, TreeNumbers DEF Arriving, TreeList
  <2> QED BY <1>2, <2>1
<1> QED BY <1>1, <1>7 DEF id

(* Every order in the list is found with its latest quantity.              *)
LEMMA ListFindsExactly ==
    ASSUME TreeList, walk = Idle
    PROVE  FoundExactly
<1>1. \A i : ~Inserting(i)
  BY DEF Inserting, Idle
<1> SUFFICES ASSUME NEW id \in Inserted
             PROVE  Search(id) # Nil /\ idOf[Search(id)] = id /\ quantity[Search(id)] = latest[id]
  BY DEF FoundExactly
<1>2. PICK t \in Linked : idOf[t] = id
  BY <1>1 DEF TreeList, OrdersMatch, Inserted, IsLinkedId
<1>3. Search(id) = t
  BY <1>2, SearchArrives
<1>4. quantity[t] = latest[id] /\ t # Nil
  BY <1>1, <1>2, TreeNumbers DEF TreeList, OrdersMatch
<1> QED BY <1>2, <1>3, <1>4

(* The invariant gives what the runs check.                                *)
LEMMA TreeInvSuffices == TreeInv => TreeFollowsOrders
<1> SUFFICES ASSUME TreeInv, ascending
             PROVE  /\ ~panicked
                    /\ walk = Idle => FoundExactly
                    /\ walk = Idle /\ ~miscounted => nodeCount = Cardinality(Live)
  BY DEF TreeFollowsOrders
<1>1. TreeList
  BY DEF TreeInv
<1>2. walk = Idle => Uncounted = 0
  BY DEF Idle, Uncounted
<1> QED BY <1>1, <1>2, ListFindsExactly, LiveAreFinite DEF TreeList, CountMatches

(* The tree starts empty.                                                  *)
LEMMA TreeInitInvariant == TreeInit => TreeInv
<1> SUFFICES ASSUME TreeInit PROVE TreeInv
  OBVIOUS
<1> USE DEF TreeInit
<1>1. /\ tree.root = Nil
      /\ \A n \in Nodes : tree.parent[n] = Nil /\ Successor(n) = Nil /\ tree.child["left"][n] = Nil
  BY DEF Successor, Sides
<1>2. TreeTypes
  <2>1. tree \in TreeShapes
    BY DEF TreeShapes, NodeOrNil
  <2>2. walk \in Walks
    BY TreeAssumption DEF Idle, Walks, NodeOrNil, Nil
  <2>3. 0 \in 0 .. ArenaNodes /\ 0 \in 0 .. (CountSize - 1) /\ 0 \in 0 .. MaxOrderId
    BY TreeAssumption
  <2>4. /\ [n \in Nodes |-> 0] \in [Nodes -> 0 .. MaxOrderId]
        /\ [n \in Nodes |-> 0] \in [Nodes -> Nat]
        /\ [id \in OrderIds |-> -1] \in [OrderIds -> Int]
    BY <2>3
  <2> QED BY <2>1, <2>2, <2>3, <2>4 DEF TreeTypes
<1>3. Linked = {}
  <2>1. \A n \in Nodes : n # Nil
    BY TreeAssumption DEF Nodes, Nil
  <2> QED BY <1>1, <2>1 DEF Linked
<1>4. IsList
  BY <1>1, <1>3 DEF IsList
<1>5. walk.op = "idle" /\ WalkSound
  BY DEF Idle, WalkSound
<1>6. OrdersMatch
  BY <1>3, <1>5 DEF OrdersMatch, IsLinkedId, Inserting
<1>7. CountMatches
  <2>1. Live = {} /\ Uncounted = 0
    BY <1>5 DEF Live, Uncounted
  <2> QED BY <2>1, FS_EmptySet DEF CountMatches
<1> QED BY <1>2, <1>4, <1>5, <1>6, <1>7 DEF TreeInv, TreeList

(* Every step of a call keeps the list while ids ascend.                   *)
LEMMA TreeStepInvariant == TreeInv /\ [TreeNext]_treeVars => TreeInv'
<1> SUFFICES ASSUME TreeInv, [TreeNext]_treeVars PROVE TreeInv'
  OBVIOUS
<1>1. ascending \in BOOLEAN
  BY DEF TreeInv
<1>2. CASE UNCHANGED treeVars
  <2>1. Linked' = Linked /\ Live' = Live /\ TreeTypes' = TreeTypes /\ WalkSound' = WalkSound
    BY <1>2 DEF treeVars, Linked, Live, TreeTypes, WalkSound, IsLinkedId
  <2>2. IsList' = IsList /\ OrdersMatch' = OrdersMatch /\ CountMatches' = CountMatches
    BY <1>2, <2>1 DEF treeVars, IsList, Successor, OrdersMatch, IsLinkedId, Inserting, CountMatches,
       Uncounted
  <2> QED BY <1>2, <2>1, <2>2 DEF treeVars, TreeInv, TreeList
<1>3. CASE \E id \in OrderIds, q \in Sizes : Insert(id, q)
  <2>1. PICK id \in OrderIds, q \in Sizes : Insert(id, q)
    BY <1>3
  <2>2. ascending' \in BOOLEAN /\ (ascending' => ascending)
    BY <1>1, <2>1 DEF Insert
  <2>3. ASSUME ascending' PROVE TreeList'
    <3>1. TreeList
      BY <2>2, <2>3 DEF TreeInv
    <3> QED BY <2>1, <2>3, <3>1, FirstInsertKeepsList, LaterInsertKeepsList
  <2> QED BY <2>2, <2>3 DEF TreeInv
<1>4. CASE \/ \E id \in OrderIds : Cancel(id)
           \/ Modify \/ Link \/ Descend \/ FixEnds \/ Recolour \/ Rotate \/ Delete \/ NotFound
  <2>1. ascending' = ascending
    BY <1>4 DEF Cancel, Modify, Link, Descend, FixEnds, Recolour, Rotate, Delete, NotFound
  <2>2. ASSUME ascending PROVE TreeList'
    <3>1. TreeList
      BY <2>2 DEF TreeInv
    <3> QED BY <1>4, <3>1, CancelKeepsList, ModifyKeepsList, LinkKeepsList, DescendKeepsList,
               FixEndsKeepsList, RecolourKeepsList, NothingRotates, DeleteKeepsList,
               NotFoundKeepsList
  <2> QED BY <1>1, <2>1, <2>2 DEF TreeInv
<1> QED BY <1>2, <1>3, <1>4 DEF TreeNext

-----------------------------------------------------------------------------
(* The composition takes a step of one section at a time, so every section *)
(* follows its own next-state relation.                                    *)
LEMMA SectionSteps ==
    ASSUME [PathNext]_pathVars
    PROVE  /\ [Next]_vars /\ [FeedNext]_feedVars /\ [EngineNext]_engineVars
           /\ [TreeNext]_treeVars /\ [MatchingNext]_matchVars
<1> USE DEF pathVars
<1>1. CASE Feeding(FeedNext)
  BY <1>1 DEF Feeding
<1>2. CASE Ringing(Next)
  BY <1>2 DEF Ringing
<1>3. CASE Trading(EngineNext)
  BY <1>3 DEF Trading
<1>4. CASE KeepingOrders
  BY <1>4 DEF KeepingOrders
<1>5. CASE Matching
  BY <1>5 DEF Matching
<1> QED BY <1>1, <1>2, <1>3, <1>4, <1>5 DEF PathNext

(* What holds of the ring alone holds of it here.                          *)
LEMMA PathRunsRing == PathSpec => Spec
<1>1. PathInit => Init
  BY DEF PathInit
<1>2. [PathNext]_pathVars => [Next]_vars
  BY SectionSteps
<1> QED BY <1>1, <1>2, PTL DEF PathSpec, Spec

(* The invariants do not see the other sections' steps.                    *)
LEMMA FeedStutters == FeedInv /\ UNCHANGED feedVars => FeedInv'
<1> SUFFICES ASSUME FeedInv, UNCHANGED feedVars PROVE FeedInv'
  OBVIOUS
<1>1. UNCHANGED <<books, sent, wire, snapshot, local, lastId, received, cut>>
  BY DEF feedVars, exchangeVars, bookVars
<1> QED BY <1>1, BooksUntouched DEF FeedInv, FeedTypes

(* The engine's neither.                                                   *)
LEMMA EngineStutters == EngineInv /\ UNCHANGED engineVars => EngineInv'
BY DEF EngineInv, EngineTypes, OneInHand, EventsAccounted, BeingCounted, engineVars, tickVars,
       strategyVars, eventVars

(* Whatever the network loses, cuts off or delivers late, the local book   *)
(* is the exchange's as of last_update_id, for every set of levels, every  *)
(* depth limit and every number of updates and reconnections               *)
(* (binance_ws_client.rs, orderbook_reconstructor.rs).                     *)
THEOREM BookExact == PathSpec => []BookIsExact
<1>1. PathInit => FeedInv
  BY FeedInitInvariant DEF PathInit
<1>2. FeedInv /\ [PathNext]_pathVars => FeedInv'
  BY SectionSteps, FeedStepInvariant, FeedStutters
<1>3. FeedInv => BookIsExact
  BY DEF FeedInv
<1> QED BY <1>1, <1>2, <1>3, PTL DEF PathSpec

(* Every order the strategy made is with the event thread, in the channel, *)
(* in hand or counted as refused.  And events_processed, which two threads *)
(* increment a step after they took the event, is behind what was taken by *)
(* the events still to be counted and by nothing else, in every state and  *)
(* for every capacity and counter size (main.rs, event_bus.rs:283-311).    *)
THEOREM EventsAddUp == PathSpec => []EventsAccounted
<1>1. PathInit => EngineInv
  BY EngineInitInvariant DEF PathInit
<1>2. EngineInv /\ [PathNext]_pathVars => EngineInv'
  BY SectionSteps, EngineStepInvariant, EngineStutters
<1>3. EngineInv => EventsAccounted
  BY DEF EngineInv
<1> QED BY <1>1, <1>2, <1>3, PTL DEF PathSpec
(* While new orders come with growing ids the tree of single orders finds  *)
(* each of them with its latest quantity and never panics (l3_tree.rs).    *)
(* What the backtest's book shows at a price are the orders that rest      *)
(* there, but for volumes a buy has shaved, and the best bid is below the  *)
(* best ask but for prices rounded to the wrong side (lob_simulator.rs).   *)
(* Both hold for every number of nodes, ids, orders and prices.            *)
THEOREM OrderBooksKeep == PathSpec => []OrderBooksAgree
<1>1. PathInit => TreeInv /\ MatchingInv
  BY TreeInitInvariant, MatchingInitInvariant DEF PathInit
<1>2. TreeInv /\ MatchingInv /\ [PathNext]_pathVars => (TreeInv /\ MatchingInv)'
  BY SectionSteps, TreeStepInvariant, MatchingStepInvariant
<1>3. TreeInv /\ MatchingInv => OrderBooksAgree
  BY TreeInvSuffices DEF MatchingInv, OrderBooksAgree
<1> QED BY <1>1, <1>2, <1>3, PTL DEF PathSpec
=============================================================================
