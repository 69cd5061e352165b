----------------------------- MODULE SpinLock ------------------------------
(***************************************************************************)
(* The spin lock of SyncProject/locking.c (spinlock_init, spinlock_lock,   *)
(* spinlock_unlock) under the exercise of driver.c: every thread runs      *)
(* ex3_fn, which increments global_value ITERATIONS times with a plain     *)
(* load and a plain store inside the lock.                                 *)
(***************************************************************************)
EXTENDS Integers, FiniteSets, Atomics

CONSTANTS
    Threads,        \* the driver's num_threads threads
    ITERATIONS      \* bound: passes of ex3_fn's loop (1000 in the driver)

ASSUME ThreadsAssumption == IsFiniteSet(Threads)
ASSUME ITERATIONSAssumption == ITERATIONS \in Nat \ {0}

VARIABLES
    free,           \* lock->free
    global_value,   \* the driver's shared counter
    pc,             \* where each thread is in ex3_fn
    loaded,         \* each thread's register for global_value += 1
    i               \* each thread's loop variable

vars == <<free, global_value, pc, loaded, i>>

(* spinlock_init, global_value = 0, and no thread created yet *)
Init ==
    /\ free = 1
    /\ global_value = 0
    /\ pc = [t \in Threads |-> "create"]
    /\ loaded = [t \in Threads |-> 0]
    /\ i = [t \in Threads |-> 0]

----------------------------------------------------------------------------
(* pthread_create, up to the call of pthread_barrier_wait *)
Create(t) ==
    /\ pc[t] = "create"
    /\ pc' = [pc EXCEPT ![t] = "barrier"]
    /\ UNCHANGED <<free, global_value, loaded, i>>

(* pthread_barrier_wait returns once all num_threads threads have called it *)
Start(t) ==
    /\ pc[t] = "barrier"
    /\ \A u \in Threads : pc[u] # "create"
    /\ pc' = [pc EXCEPT ![t] = "lock"]
    /\ UNCHANGED <<free, global_value, loaded, i>>

(* Mutant: tests lock->free and clears it without the atomic instruction:   *)
(* two threads can both have seen it set.                                   *)
LockNotAtomic(t) ==
    \/ /\ pc[t] = "lock" /\ free # 0
       /\ pc' = [pc EXCEPT ![t] = "seen"]
       /\ UNCHANGED <<free, global_value, loaded, i>>
    \/ /\ pc[t] = "seen"
       /\ free' = 0
       /\ pc' = [pc EXCEPT ![t] = "load"]
       /\ UNCHANGED <<global_value, loaded, i>>

(* while(compare_and_swap(&(lock->free), 1, 0)==0), the pass that ends the  *)
(* loop; a pass that returns 0 changes nothing.                             *)
Lock(t) ==
    /\ pc[t] = "lock"
    /\ free # 0
    /\ free' = CompareAndSwap(free, 1, 0)
    /\ pc' = [pc EXCEPT ![t] = "load"]
    /\ UNCHANGED <<global_value, loaded, i>>

(* the load of global_value += 1 *)
Load(t) ==
    /\ pc[t] = "load"
    /\ loaded' = [loaded EXCEPT ![t] = global_value]
    /\ pc' = [pc EXCEPT ![t] = "store"]
    /\ UNCHANGED <<free, global_value, i>>

(* the store of global_value += 1 *)
Store(t) ==
    /\ pc[t] = "store"
    /\ global_value' = loaded[t] + 1
    /\ pc' = [pc EXCEPT ![t] = "unlock"]
    /\ UNCHANGED <<free, loaded, i>>

(* Mutant: the last iteration keeps the lock. *)
UnlockForgotten(t) ==
    /\ pc[t] = "unlock"
    /\ free' = IF i[t] + 1 < ITERATIONS THEN 1 ELSE free
    /\ i' = [i EXCEPT ![t] = @ + 1]
    /\ pc' = [pc EXCEPT ![t] = IF i[t] + 1 < ITERATIONS THEN "lock" ELSE "done"]
    /\ UNCHANGED <<global_value, loaded>>

(* spinlock_unlock: lock->free = 1; then i++ and the loop test *)
Unlock(t) ==
    /\ pc[t] = "unlock"
    /\ free' = 1
    /\ i' = [i EXCEPT ![t] = @ + 1]
    /\ pc' = [pc EXCEPT ![t] = IF i[t] + 1 < ITERATIONS THEN "lock" ELSE "done"]
    /\ UNCHANGED <<global_value, loaded>>

ex3_fn(t) ==
    \/ Create(t)
    \/ Start(t)
    \/ Lock(t)
    \/ Load(t)
    \/ Store(t)
    \/ Unlock(t)

Next == \E t \in Threads : ex3_fn(t)

(* Every thread is pinned to a processor of its own. *)
Spec ==
    /\ Init /\ [][Next]_vars
    /\ \A t \in Threads : WF_vars(ex3_fn(t))

----------------------------------------------------------------------------
(* between the return of spinlock_lock and the store of spinlock_unlock *)
Holds(t) == pc[t] \in {"load", "store", "unlock"}

(* At most one thread is past spinlock_lock at a time, and the lock word is *)
(* clear exactly while one is.                                              *)
MutualExclusion ==
    /\ \A t, u \in Threads : Holds(t) /\ Holds(u) => t = u
    /\ free = 0 <=> \E t \in Threads : Holds(t)

(* the increments that have reached memory, by thread and iteration *)
Incremented ==
    {p \in Threads \X (0 .. ITERATIONS - 1) :
        \/ p[2] < i[p[1]]
        \/ p[2] = i[p[1]] /\ pc[p[1]] = "unlock"}

(* No increment is lost although each is a separate load and store: the     *)
(* driver's final test of global_value against ITERATIONS * num_threads     *)
(* succeeds.                                                                *)
NoLostUpdate ==
    /\ global_value = Cardinality(Incremented)
    /\ (\A t \in Threads : pc[t] = "done") =>
          global_value = Cardinality(Threads) * ITERATIONS

(* Types, and the loop bound each thread keeps to. *)
TypeOK ==
    /\ free \in {0, 1}
    /\ global_value \in Nat
    /\ pc \in [Threads -> {"create", "barrier", "lock", "load", "store",
                           "unlock", "done"}]
    /\ loaded \in [Threads -> Nat]
    /\ i \in [Threads -> 0 .. ITERATIONS]
    /\ \A t \in Threads : i[t] = ITERATIONS <=> pc[t] = "done"

(* The lock holder's register is current: no other thread stores between    *)
(* its load and its store.                                                  *)
RegisterCurrent == \A t \in Threads : pc[t] = "store" => loaded[t] = global_value

LockInv ==
    /\ TypeOK
    /\ MutualExclusion
    /\ RegisterCurrent
    /\ global_value = Cardinality(Incremented)

(* No thread spins for ever: every ex3_fn returns. *)
EveryThreadReturns == <>(\A t \in Threads : pc[t] = "done")

============================================================================
