---------------------------- MODULE BarrierTest ----------------------------
(***************************************************************************)
(* The barrier exercise of SyncProject/driver.c: every thread runs ex2_fn, *)
(* which uses one barrier twice per iteration to separate the reads of     *)
(* global_value from the atomic increments.  It composes the Barrier       *)
(* module's steps with the steps of the thread function.                   *)
(***************************************************************************)
EXTENDS Barrier

CONSTANT ITERATIONS     \* bound: passes of ex2_fn's loop (1000 in the driver)

ASSUME ITERATIONSAssumption == ITERATIONS \in Nat /\ Rounds = 2 * ITERATIONS

VARIABLES
    global_value,   \* the driver's shared counter
    at,             \* where each thread is in ex2_fn
    i,              \* each thread's loop variable
    ret             \* each thread's return value: TRUE is the failure value -1

tvars == <<global_value, at, i, ret>>
vars == <<bvars, tvars>>

num_threads == Cardinality(Threads)

TestInit ==
    /\ BarrierInit
    /\ global_value = 0
    /\ at = [t \in Threads |-> "check"]
    /\ i = [t \in Threads |-> 0]
    /\ ret = [t \in Threads |-> FALSE]

(* if (global_value != (num_threads * i)) ret = -1 as a pointer *)
Check(t) ==
    /\ at[t] = "check"
    /\ ret' = [ret EXCEPT ![t] = @ \/ global_value # num_threads * i[t]]
    /\ at' = [at EXCEPT ![t] = "wait1"]
    /\ UNCHANGED <<bvars, global_value, i>>

(* the call of barrier_wait before, and of the one after, the increment *)
CallWait(t) ==
    /\ at[t] \in {"wait1", "wait2"}
    /\ Enter(t)
    /\ at' = [at EXCEPT ![t] = IF @ = "wait1" THEN "in1" ELSE "in2"]
    /\ UNCHANGED <<global_value, i, ret>>

(* a step inside barrier_wait *)
InWait(t) ==
    /\ Arrive(t) \/ Reset(t) \/ LoadIterations(t) \/ StoreIterations(t) \/ Spin(t)
    /\ UNCHANGED tvars

(* barrier_wait has returned; atomic_add(&global_value, 1) *)
AddOne(t) ==
    /\ at[t] = "in1" /\ pc[t] = "out"
    /\ global_value' = global_value + 1
    /\ at' = [at EXCEPT ![t] = "wait2"]
    /\ UNCHANGED <<bvars, i, ret>>

(* the second barrier_wait has returned; i++ and the loop test *)
EndIteration(t) ==
    /\ at[t] = "in2" /\ pc[t] = "out"
    /\ i' = [i EXCEPT ![t] = @ + 1]
    /\ at' = [at EXCEPT ![t] = IF i[t] + 1 < ITERATIONS THEN "check" ELSE "done"]
    /\ UNCHANGED <<bvars, global_value, ret>>

ex2_fn(t) ==
    \/ Check(t)
    \/ CallWait(t)
    \/ InWait(t)
    \/ AddOne(t)
    \/ EndIteration(t)

TestNext == \E t \in Threads : ex2_fn(t)

(* Every thread is pinned to a processor of its own, so none is ever        *)
(* kept from running for good.                                              *)
TestSpec ==
    /\ TestInit /\ [][TestNext]_vars
    /\ \A t \in Threads : WF_vars(ex2_fn(t))

----------------------------------------------------------------------------
(* Types of the exercise's variables. *)
TestTypeOK ==
    /\ global_value \in Nat
    /\ at \in [Threads -> {"check", "wait1", "in1", "wait2", "in2", "done"}]
    /\ i \in [Threads -> Nat]
    /\ ret \in [Threads -> BOOLEAN]

(* ex2_fn never sets ret: no thread reads global_value between another's    *)
(* increment and the end of that iteration, so the driver prints SUCCESS.   *)
NoError == \A t \in Threads : ~ret[t]

(* No thread is left spinning in barrier_wait: every ex2_fn returns and the *)
(* driver's pthread_join loop ends.                                         *)
EveryThreadReturns == <>(\A t \in Threads : at[t] = "done")

----------------------------------------------------------------------------
(* The inductive invariant behind NoError. *)

(* how often a thread at each point of ex2_fn has called barrier_wait *)
Script(t) ==
    /\ at[t] \in {"check", "wait1"} => pc[t] = "out" /\ calls[t] = 2 * i[t]
    /\ at[t] = "in1" => calls[t] = 2 * i[t] + 1
    /\ at[t] = "wait2" => pc[t] = "out" /\ calls[t] = 2 * i[t] + 1
    /\ at[t] = "in2" => calls[t] = 2 * i[t] + 2
    /\ at[t] = "done" => pc[t] = "out" /\ calls[t] = 2 * i[t]

(* the threads that have incremented in the iteration that is open *)
Added == {t \in Threads : at[t] \in {"wait2", "in2"}}

(* After an even number of openings every thread has finished as many       *)
(* increments as iterations; after an odd one, those in Added are ahead.    *)
ValueInv ==
    \E k \in 0 .. rounds :
        \/ rounds = 2 * k /\ global_value = num_threads * k
        \/ rounds = 2 * k + 1
           /\ global_value = num_threads * k + Cardinality(Added)

(* global_value is the number of increments the passed barriers imply. *)
TestInv ==
    /\ BarrierInv
    /\ TestTypeOK
    /\ \A t \in Threads : Script(t)
    /\ ValueInv

============================================================================
