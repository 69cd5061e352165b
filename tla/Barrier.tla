------------------------------ MODULE Barrier ------------------------------
(***************************************************************************)
(* The reusable barrier of SyncProject/locking.c (struct barrier,          *)
(* barrier_init, barrier_wait), with one action per access to shared       *)
(* memory: the library is built with gcc -g, so every C access is one load *)
(* or one store, `iterations++' is a load and a store, and only the        *)
(* instructions with a `lock' prefix read and write in one step.           *)
(*                                                                         *)
(* Each thread calls barrier_wait Rounds times.  calls, returns and rounds *)
(* are history variables: no action reads them but for the Rounds bound.   *)
(***************************************************************************)
EXTENDS Integers, FiniteSets

CONSTANTS
    Threads,    \* the init_count threads that share the barrier
    Rounds,     \* bound: calls of barrier_wait by each thread
    IntMod      \* number of values of the C type int (2^32 in the build)

ASSUME ThreadsAssumption == IsFiniteSet(Threads) /\ Threads # {}
ASSUME RoundsAssumption == Rounds \in Nat
ASSUME IntModAssumption == IntMod \in Nat /\ IntMod >= 2

VARIABLES
    iterations, \* bar->iterations
    cur_count,  \* bar->cur_count
    pc,         \* where each thread is in barrier_wait
    my_iter,    \* each thread's local my_iter
    loaded,     \* each thread's register for iterations++
    calls,      \* history: calls of barrier_wait, per thread
    returns,    \* history: returns of barrier_wait, per thread
    rounds      \* history: how often a last thread has opened the barrier

bvars == <<iterations, cur_count, pc, my_iter, loaded, calls, returns, rounds>>

init_count == Cardinality(Threads)

Ints == 0 .. (IntMod - 1)

(* x + 1 on an int that wraps around. *)
Inc(x) == IF x = IntMod - 1 THEN 0 ELSE x + 1

(* barrier_init *)
BarrierInit ==
    /\ iterations = 0
    /\ cur_count = 0
    /\ pc = [t \in Threads |-> "out"]
    /\ my_iter = [t \in Threads |-> 0]
    /\ loaded = [t \in Threads |-> 0]
    /\ calls = [t \in Threads |-> 0]
    /\ returns = [t \in Threads |-> 0]
    /\ rounds = 0

----------------------------------------------------------------------------
(* The steps of barrier_wait *)

(* int my_iter = bar->iterations *)
Enter(t) ==
    /\ pc[t] = "out"
    /\ calls[t] < Rounds
    /\ my_iter' = [my_iter EXCEPT ![t] = iterations]
    /\ calls' = [calls EXCEPT ![t] = @ + 1]
    /\ pc' = [pc EXCEPT ![t] = "arrive"]
    /\ UNCHANGED <<iterations, cur_count, loaded, returns, rounds>>

(* Mutant: compares prev with init_count-2, one arrival early. *)
ArriveEarly(t) ==
    /\ pc[t] = "arrive"
    /\ cur_count' = cur_count + 1
    /\ pc' = [pc EXCEPT ![t] = IF cur_count = init_count - 2
                               THEN "reset" ELSE "spin"]
    /\ UNCHANGED <<iterations, my_iter, loaded, calls, returns, rounds>>

(* prev = atomic_add_ret_prev(&bar->cur_count, 1), and the comparison of    *)
(* prev with init_count-1, which no thread writes.                          *)
Arrive(t) ==
    /\ pc[t] = "arrive"
    /\ cur_count' = cur_count + 1
    /\ pc' = [pc EXCEPT ![t] = IF cur_count = init_count - 1
                               THEN "reset" ELSE "spin"]
    /\ UNCHANGED <<iterations, my_iter, loaded, calls, returns, rounds>>

(* Mutant: the last thread leaves cur_count as it is. *)
ResetForgotten(t) ==
    /\ pc[t] = "reset"
    /\ pc' = [pc EXCEPT ![t] = "load"]
    /\ UNCHANGED <<iterations, cur_count, my_iter, loaded, calls, returns, rounds>>

(* bar->cur_count = 0, by the last thread *)
Reset(t) ==
    /\ pc[t] = "reset"
    /\ cur_count' = 0
    /\ pc' = [pc EXCEPT ![t] = "load"]
    /\ UNCHANGED <<iterations, my_iter, loaded, calls, returns, rounds>>

(* the load of bar->iterations++ *)
LoadIterations(t) ==
    /\ pc[t] = "load"
    /\ loaded' = [loaded EXCEPT ![t] = iterations]
    /\ pc' = [pc EXCEPT ![t] = "store"]
    /\ UNCHANGED <<iterations, cur_count, my_iter, calls, returns, rounds>>

(* the store of bar->iterations++; barrier_wait returns to the last thread *)
StoreIterations(t) ==
    /\ pc[t] = "store"
    /\ iterations' = Inc(loaded[t])
    /\ rounds' = rounds + 1
    /\ returns' = [returns EXCEPT ![t] = calls[t]]
    /\ pc' = [pc EXCEPT ![t] = "out"]
    /\ UNCHANGED <<cur_count, my_iter, loaded, calls>>

(* Mutant: waits for any value of iterations but the saved one plus two. *)
SpinLoose(t) ==
    /\ pc[t] = "spin"
    /\ iterations # Inc(Inc(my_iter[t]))
    /\ returns' = [returns EXCEPT ![t] = calls[t]]
    /\ pc' = [pc EXCEPT ![t] = "out"]
    /\ UNCHANGED <<iterations, cur_count, my_iter, loaded, calls, rounds>>

(* while(bar->iterations != my_iter+1), the pass that ends the loop; a pass *)
(* that does not changes nothing.                                           *)
Spin(t) ==
    /\ pc[t] = "spin"
    /\ iterations = Inc(my_iter[t])
    /\ returns' = [returns EXCEPT ![t] = calls[t]]
    /\ pc' = [pc EXCEPT ![t] = "out"]
    /\ UNCHANGED <<iterations, cur_count, my_iter, loaded, calls, rounds>>

Wait(t) ==
    \/ Enter(t)
    \/ Arrive(t)
    \/ Reset(t)
    \/ LoadIterations(t)
    \/ StoreIterations(t)
    \/ Spin(t)

BarrierNext == \E t \in Threads : Wait(t)

BarrierSpec == BarrierInit /\ [][BarrierNext]_bvars

----------------------------------------------------------------------------
(* barrier_wait keeps the contract of a reusable barrier through every      *)
(* interleaving of its loads and stores, also when a fast thread is already *)
(* in the next round while a slow one still spins in the previous round,    *)
(* and when `iterations' wraps around.                                      *)
Abstract == INSTANCE AbstractBarrier
BarrierContract == Abstract!Spec

----------------------------------------------------------------------------
(* The inductive invariant behind the contract. *)

PCs == {"out", "arrive", "spin", "reset", "load", "store"}

BarrierTypeOK ==
    /\ iterations \in Ints
    /\ cur_count \in Nat
    /\ pc \in [Threads -> PCs]
    /\ my_iter \in [Threads -> Ints]
    /\ loaded \in [Threads -> Ints]
    /\ calls \in [Threads -> Nat]
    /\ returns \in [Threads -> Nat]
    /\ rounds \in Nat

(* the last thread of a round, between its arrival and the opening *)
Closing(t) == pc[t] \in {"reset", "load", "store"}

(* the threads counted by cur_count: arrived in the round that is not open *)
Inside == {t \in Threads : pc[t] \in {"spin", "reset"} /\ calls[t] = rounds + 1}

(* each thread's place relative to the number of openings *)
Position(t) ==
    /\ pc[t] = "out" => calls[t] = rounds /\ returns[t] = rounds
    /\ pc[t] # "out" => calls[t] = returns[t] + 1
    /\ pc[t] = "arrive" => calls[t] = rounds + 1 /\ my_iter[t] = iterations
    /\ pc[t] = "spin" =>
          \/ calls[t] = rounds + 1 /\ my_iter[t] = iterations
          \/ calls[t] = rounds /\ iterations = Inc(my_iter[t])
    /\ Closing(t) => calls[t] = rounds + 1
    /\ pc[t] = "store" => loaded[t] = iterations

(* while one thread closes a round, all the others wait for its opening *)
OthersWait ==
    \A t \in Threads : Closing(t) =>
        \A u \in Threads \ {t} : pc[u] = "spin" /\ calls[u] = rounds + 1

(* cur_count is the number of threads inside, until it has been reset *)
CountIsInside ==
    cur_count = IF \E t \in Threads : pc[t] \in {"load", "store"}
                THEN 0 ELSE Cardinality(Inside)

(* The arrival counter, the round number each thread saved and the threads' *)
(* places agree in every state of barrier_wait.                             *)
BarrierInv ==
    /\ BarrierTypeOK
    /\ \A t \in Threads : Position(t)
    /\ OthersWait
    /\ CountIsInside

============================================================================
