---------------------------- MODULE UiStateCache ----------------------------
(***************************************************************************)
(* UiStateCache of crates/cache/src/ui_state_cache.rs: entries in slots,   *)
(* an index from keys to slots, and a queue of slots in the order of their *)
(* use, each behind a lock of its own.  A value is the number of its       *)
(* insertion; an entry expires at some moment.  The mutex of the queue is  *)
(* never kept while another lock is asked for, so its critical sections    *)
(* are parts of a step.                                                    *)
(***************************************************************************)
EXTENDS ThreadSteps, Integers, Sequences, FiniteSetsExt, SequencesExt

CONSTANTS
    Keys,
    CacheSlots,     \* capacity
    MaxCacheCalls   \* bound on the calls

ASSUME CacheAssumption ==
    Keys # {} /\ CacheSlots \in Nat \ {0} /\ MaxCacheCalls \in Nat

VARIABLES
    slots,          \* sets of at most one entry: [key, expired]
    index,          \* key_index: the slot of a key, 0 for none
    lru,            \* lru_queue
    request,        \* of each thread: [key, slot, touch]
    cacheCalls,     \* number of calls
    recency,        \* history: the keys, the least recently used first
    emptied         \* history: which of remove, expire_old and clear were called

cacheVars == <<slots, index, lru, request, cacheCalls, recency, emptied>>

Slots == 1 .. CacheSlots

(* The queue is gone through and built anew.                               *)
Without(s, x) ==
    LET kept[n \in 0 .. Len(s)] ==
            IF n = 0 THEN <<>>
            ELSE IF s[n] = x THEN kept[n - 1] ELSE Append(kept[n - 1], s[n])
    IN  kept[Len(s)]

NoRequest == [key |-> CHOOSE k \in Keys : TRUE, slot |-> 0, touch |-> FALSE]
Entry(k) == [key |-> k, expired |-> FALSE]

CacheInit ==
    /\ slots = [i \in Slots |-> {}]
    /\ index = [k \in Keys |-> 0]
    /\ lru = <<>>
    /\ request = [t \in Threads |-> NoRequest]
    /\ cacheCalls = 0
    /\ recency = <<>>
    /\ emptied = {}

CallCache(t, to) ==
    /\ cacheCalls < MaxCacheCalls
    /\ cacheCalls' = cacheCalls + 1
    /\ Goto(t, "idle", to)

(* External: time passes, and an entry has outlived its ttl.               *)
Expire ==
    /\ \E i \in Slots : \E e \in slots[i] :
          /\ ~ e.expired
          /\ slots' = [slots EXCEPT ![i] = {[e EXCEPT !.expired = TRUE]}]
    /\ UNCHANGED <<pc, held, index, lru, request, cacheCalls, recency, emptied>>

-----------------------------------------------------------------------------
(* get looks up the slot, gives up the index, and then looks at the slot.  *)
Get(t) ==
    /\ CallCache(t, "getSlot")
    /\ CanRead("index")
    /\ \E k \in Keys : index[k] # 0 /\
          request' = [request EXCEPT ![t] = [key |-> k, slot |-> index[k], touch |-> TRUE]]
    /\ UNCHANGED <<held, slots, index, lru, recency, emptied>>

(* A hit keeps the slots locked while it enters the queue.                 *)
GetSlot(t) ==
    /\ pc[t] = "getSlot"
    /\ IF Entry(request[t].key) \in slots[request[t].slot]
         THEN Goto(t, "getSlot", "queue") /\ Read(t, "slots")
         ELSE Goto(t, "getSlot", "idle") /\ CanRead("slots") /\ UNCHANGED held
    /\ UNCHANGED cacheVars

Insert(t) ==
    /\ CallCache(t, "insert")
    /\ Write(t, "index")
    /\ \E k \in Keys :
          request' = [request EXCEPT ![t] = [key |-> k, slot |-> index[k], touch |-> index[k] # 0]]
    /\ UNCHANGED <<slots, index, lru, recency, emptied>>

(* find_or_evict_slot: an empty slot, the least recently used one, or the  *)
(* first.                                                                  *)
FreeSlot(i) ==
    IF \E j \in Slots : slots[j] = {}
    THEN i = Min({j \in Slots : slots[j] = {}})
    ELSE i = IF lru # <<>> THEN Head(lru) ELSE 1

(* Every slot is in use when one is evicted, so the first in the queue is  *)
(* taken.                                                                  *)
InsertPut(t) ==
    LET k == request[t].key
        Holds(i, x) == \E e \in slots[i] : e.key = x
        evicts == ~ request[t].touch /\ lru # <<>> /\ \A j \in Slots : slots[j] # {}
    IN  /\ Goto(t, "insert", "queue")
        /\ Write(t, "slots")
        /\ \E i \in Slots :
              /\ IF request[t].touch THEN i = request[t].slot ELSE FreeSlot(i)
              /\ slots' = [slots EXCEPT ![i] = {Entry(k)}]
              /\ index' = [x \in Keys |-> IF x = k THEN i
                              ELSE IF evicts /\ Holds(i, x) THEN 0 ELSE index[x]]
              /\ request' = [request EXCEPT ![t].slot = i]
              /\ IF evicts THEN \E e \in slots[i] : recency' = Without(recency, e.key)
                           ELSE UNCHANGED recency
        /\ lru' = IF evicts THEN Tail(lru) ELSE lru
        /\ UNCHANGED <<cacheCalls, emptied>>

(* Mutant: a hit does not count as a use.                                  *)
MutantQueued(t) == IF request[t].touch THEN lru ELSE Append(lru, request[t].slot)

(* touch_key moves the slot to the end; a new entry is added there.        *)
Queued(t) ==
    Append(IF request[t].touch THEN Without(lru, request[t].slot) ELSE lru, request[t].slot)

EnterQueue(t) ==
    /\ Goto(t, "queue", "idle")
    /\ lru' = Queued(t)
    /\ recency' = Append(Without(recency, request[t].key), request[t].key)
    /\ request' = [request EXCEPT ![t] = NoRequest]
    /\ ReleaseAll(t)
    /\ UNCHANGED <<slots, index, cacheCalls, emptied>>

-----------------------------------------------------------------------------
(* remove leaves the slot in the queue; so does expire_old.                *)
RemoveKey(t) ==
    /\ CallCache(t, "remove")
    /\ Write(t, "index")
    /\ \E k \in Keys :
          /\ index[k] # 0
          /\ index' = [index EXCEPT ![k] = 0]
          /\ request' = [request EXCEPT ![t] = [key |-> k, slot |-> index[k], touch |-> FALSE]]
    /\ emptied' = emptied \cup {"remove"}
    /\ UNCHANGED <<slots, lru, recency>>

RemoveSlot(t) ==
    /\ Goto(t, "remove", "idle")
    /\ CanWrite("slots")
    /\ slots' = [slots EXCEPT ![request[t].slot] = {}]
    /\ request' = [request EXCEPT ![t] = NoRequest]
    /\ ReleaseAll(t)
    /\ UNCHANGED <<index, lru, cacheCalls, recency, emptied>>

ExpireOld(t) ==
    /\ CallCache(t, "expireOld")
    /\ Write(t, "slots")
    /\ emptied' = emptied \cup {"expire"}
    /\ UNCHANGED <<slots, index, lru, request, recency>>

Unindexed(gone) ==
    [k \in Keys |-> IF \E i \in gone : \E e \in slots[i] : e.key = k THEN 0 ELSE index[k]]

(* max_age_us is another age than the ttl: any entries may be too old.     *)
ExpireEntries(t) ==
    /\ Goto(t, "expireOld", "idle")
    /\ CanWrite("index")
    /\ \E gone \in SUBSET {i \in Slots : slots[i] # {}} :
          /\ slots' = [i \in Slots |-> IF i \in gone THEN {} ELSE slots[i]]
          /\ index' = Unindexed(gone)
    /\ ReleaseAll(t)
    /\ UNCHANGED <<lru, request, cacheCalls, recency, emptied>>

(* clear takes one lock after the other and keeps none.                    *)
ClearSlots(t) ==
    /\ CallCache(t, "clearIndex")
    /\ CanWrite("slots")
    /\ slots' = [i \in Slots |-> {}]
    /\ emptied' = emptied \cup {"clear"}
    /\ UNCHANGED <<held, index, lru, request, recency>>

ClearIndex(t) ==
    /\ Goto(t, "clearIndex", "clearQueue")
    /\ CanWrite("index")
    /\ index' = [k \in Keys |-> 0]
    /\ UNCHANGED <<held, slots, lru, request, cacheCalls, recency, emptied>>

ClearQueue(t) ==
    /\ Goto(t, "clearQueue", "idle")
    /\ lru' = <<>>
    /\ UNCHANGED <<held, slots, index, request, cacheCalls, recency, emptied>>

-----------------------------------------------------------------------------
CacheStep(t) ==
    \/ GetSlot(t) \/ InsertPut(t) \/ EnterQueue(t) \/ RemoveSlot(t)
    \/ ExpireEntries(t) \/ ClearIndex(t) \/ ClearQueue(t)

CacheNext ==
    \/ Expire
    \/ \E t \in Threads :
          \/ Get(t) \/ Insert(t) \/ RemoveKey(t) \/ ExpireOld(t) \/ ClearSlots(t)
          \/ CacheStep(t)

(* expire_old takes the two locks in the other order.                      *)
CacheTangled ==
    \E t, u \in Threads : pc[t] = "expireOld" /\ pc[u] \in {"insert", "remove"}

-----------------------------------------------------------------------------
(* "LRU cache": the entry that makes room is the one that was not used for *)
(* the longest time, whatever gets race with the insertion, until an entry *)
(* is removed: its slot stays in the queue.                                *)
EvictsLeastRecent ==
    [][ emptied' = {} =>
          \A k \in Keys : index[k] # 0 /\ index'[k] = 0 => k = Head(recency) ]_cacheVars

(* When nobody is calling, the index and the slots agree on every key,     *)
(* unless clear has been called: it lets insertions in between.            *)
IndexIsExact ==
    Quiet /\ "clear" \notin emptied =>
        \A k \in Keys, i \in Slots : index[k] = i <=> \E e \in slots[i] : e.key = k
=============================================================================
