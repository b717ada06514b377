---------------------------- MODULE ThreadSteps -----------------------------
(***************************************************************************)
(* The threads that share a structure.  Each is at some step of a method,  *)
(* or between two calls.  A step is an atomic operation where there is no  *)
(* lock.  Where there are, they are mutexes and reader-writer locks: a     *)
(* mutex is a lock that is only written.  No lock is re-entrant: a thread  *)
(* that asks for a lock it has waits for itself.  No lock is ever          *)
(* poisoned.                                                               *)
(***************************************************************************)
CONSTANT Threads

VARIABLES
    pc,         \* where each thread is
    held        \* the guards of each thread, <<lock, "read" or "write">>

Idle == [t \in Threads |-> "idle"]
Quiet == pc = Idle
NoGuards == [t \in Threads |-> {}]

Goto(t, from, to) == pc[t] = from /\ pc' = [pc EXCEPT ![t] = to]

Busy(t) == pc[t] # "idle"

CanRead(lock) == \A t \in Threads : <<lock, "write">> \notin held[t]
CanWrite(lock) == CanRead(lock) /\ \A t \in Threads : <<lock, "read">> \notin held[t]

(* The lock is taken and kept.                                             *)
Read(t, lock) == CanRead(lock) /\ held' = [held EXCEPT ![t] = @ \cup {<<lock, "read">>}]
Write(t, lock) == CanWrite(lock) /\ held' = [held EXCEPT ![t] = @ \cup {<<lock, "write">>}]

ReleaseAll(t) == held' = [held EXCEPT ![t] = {}]
=============================================================================
