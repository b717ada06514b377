---------------------------- MODULE TokenBucket -----------------------------
(***************************************************************************)
(* TokenBucket of crates/exchange/src/rate_limiter.rs as BinanceRateLimiter*)
(* uses it: threads call consume_with_wait, which refills, looks, and then *)
(* consumes with a second refill.  Loads, stores and compare-exchange      *)
(* loops are steps of their own.  Time is in units of at least a           *)
(* millisecond, Period of them to a token.                                 *)
(***************************************************************************)
EXTENDS ThreadSteps, Integers, FiniteSetsExt

CONSTANTS
    Capacity,   \* capacity of the bucket
    Period,     \* time units per token: the inverse of refill_rate
    Weights,    \* what callers ask for
    MaxTime     \* bound on the time

ASSUME BucketAssumption ==
    /\ Capacity \in Nat \ {0} /\ Period \in Nat \ {0}
    /\ Weights \subseteq 1 .. Capacity
    /\ MaxTime \in Nat

VARIABLES
    now,        \* the wall clock
    tokens,
    last,       \* last_refill_ns
    round,      \* whether it is in its first or its second refill
    want,       \* `tokens` of its call
    clock,      \* `now` of its refill
    add,        \* tokens_to_add
    admitted,   \* history: tokens handed out
    promise,    \* history: [want, until] of its last refusal, until another
                \* caller touches the bucket
    raced       \* history: two refills have overlapped

bucketVars == <<now, tokens, last, round, want, clock, add, admitted, promise, raced>>
bucketHistory == <<admitted, promise, raced>>

NoPromise == [want |-> 0, until |-> 0]

BucketInit ==
    /\ now = 0
    /\ tokens = Capacity
    /\ last = 0
    /\ round = [t \in Threads |-> 1]
    /\ want = [t \in Threads |-> 0]
    /\ clock = [t \in Threads |-> 0]
    /\ add = [t \in Threads |-> 0]
    /\ admitted = 0
    /\ promise = [t \in Threads |-> NoPromise]
    /\ raced = FALSE

(* What another caller was told no longer holds.                           *)
Disturbed(t, p) == [u \in Threads |-> IF u = t THEN p[u] ELSE NoPromise]

(* Where consume_with_wait goes on after a refill.                         *)
Refilled(t) == IF round[t] = 1 THEN "load" ELSE "consume"

-----------------------------------------------------------------------------
Request(t) ==
    \E w \in Weights :
        /\ Goto(t, "idle", "clock")
        /\ round' = [round EXCEPT ![t] = 1]
        /\ want' = [want EXCEPT ![t] = w]
        /\ UNCHANGED <<now, tokens, last, clock, add, bucketHistory>>

ReadClock(t) ==
    /\ Goto(t, "clock", "elapsed")
    /\ clock' = [clock EXCEPT ![t] = now]
    /\ raced' = (raced \/ \E u \in Threads \ {t} : pc[u] \in {"elapsed", "add", "store"})
    /\ UNCHANGED <<now, tokens, last, round, want, add, admitted, promise>>

(* Mutant: the tokens are rounded up.                                      *)
MutantTokensToAdd(t) ==
    IF clock[t] >= last THEN (clock[t] - last + Period - 1) \div Period ELSE Capacity

(* elapsed_ns is unsigned: when another thread has stored a later time in  *)
(* the meantime it is enormous, and enough to fill the bucket.             *)
TokensToAdd(t) ==
    IF clock[t] >= last THEN (clock[t] - last) \div Period ELSE Capacity

LoadLast(t) ==
    /\ Goto(t, "elapsed", IF TokensToAdd(t) = 0 THEN Refilled(t) ELSE "add")
    /\ add' = [add EXCEPT ![t] = TokensToAdd(t)]
    /\ UNCHANGED <<now, tokens, last, round, want, clock, bucketHistory>>

Filled(t) == Min({tokens + add[t], Capacity})

(* The compare-exchange loop of refill.                                    *)
AddTokens(t) ==
    /\ Goto(t, "add", "store")
    /\ tokens' = Filled(t)
    /\ promise' = Disturbed(t, promise)
    /\ UNCHANGED <<now, last, round, want, clock, add, admitted, raced>>

StoreLast(t) ==
    /\ Goto(t, "store", Refilled(t))
    /\ last' = clock[t]
    /\ UNCHANGED <<now, tokens, round, want, clock, add, bucketHistory>>

-----------------------------------------------------------------------------
(* Mutant: one token less is waited for.                                   *)
MutantWait(t) == (want[t] - tokens - 1) * Period

(* wait_time_ms.                                                           *)
Wait(t) == (want[t] - tokens) * Period

(* `current` is used for the wait only.                                    *)
LoadTokens(t) ==
    /\ Goto(t, "load", IF tokens >= want[t] THEN "clock" ELSE "refuse")
    /\ round' = [round EXCEPT ![t] = 2]
    /\ promise' = IF tokens >= want[t] THEN promise
                  ELSE [promise EXCEPT ![t] = [want |-> want[t], until |-> now + Wait(t)]]
    /\ UNCHANGED <<now, tokens, last, want, clock, add, admitted, raced>>

(* The compare-exchange loop of try_consume.                               *)
Consume(t) ==
    /\ tokens >= want[t]
    /\ Goto(t, "consume", "idle")
    /\ tokens' = tokens - want[t]
    /\ admitted' = admitted + want[t]
    /\ promise' = [Disturbed(t, promise) EXCEPT ![t] = NoPromise]
    /\ UNCHANGED <<now, last, round, want, clock, add, raced>>

ConsumeFails(t) ==
    /\ tokens < want[t]
    /\ Goto(t, "consume", "refuse")
    /\ UNCHANGED <<now, tokens, last, round, want, clock, add, bucketHistory>>

(* The refusal.  After a lost attempt its wait is computed from a `current`*)
(* that was sufficient, an unsigned difference: nothing is promised then.  *)
Refuse(t) ==
    /\ Goto(t, "refuse", "idle")
    /\ UNCHANGED <<now, tokens, last, round, want, clock, add, bucketHistory>>

Tick ==
    /\ now < MaxTime
    /\ now' = now + 1
    /\ UNCHANGED <<pc, tokens, last, round, want, clock, add, bucketHistory>>

Caller(t) ==
    \/ Request(t) \/ ReadClock(t) \/ LoadLast(t) \/ AddTokens(t) \/ StoreLast(t)
    \/ LoadTokens(t) \/ Consume(t) \/ ConsumeFails(t) \/ Refuse(t)

BucketNext == Tick \/ \E t \in Threads : Caller(t)

-----------------------------------------------------------------------------
(* "Strict token-bucket rate limiter": no more is handed out than the full *)
(* bucket and what the elapsed time is worth.                              *)
RateRespected == admitted <= Capacity + now \div Period

(* The rate is kept for as long as no two refills overlap: interleaved     *)
(* looks and attempts alone cannot break it.                               *)
RateRespectedUnlessRaced == ~ raced => RateRespected

(* A caller that waits as long as retry_after_ms says is not refused the   *)
(* same number of tokens again, unless another caller came between.        *)
RetrySucceeds ==
    [][ \A t \in Threads :
          LoadTokens(t) /\ tokens < want[t] /\ promise[t].want = want[t]
             => clock[t] < promise[t].until ]_<<pc, bucketVars>>
=============================================================================
