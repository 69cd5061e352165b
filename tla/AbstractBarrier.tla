-------------------------- MODULE AbstractBarrier --------------------------
(***************************************************************************)
(* What a reusable barrier promises its callers (SyncProject/locking.h,    *)
(* barrier_wait): a thread returns from its k-th wait only after every     *)
(* thread has called wait k times.  The only state is how often each       *)
(* thread has called and has returned.                                     *)
(***************************************************************************)
EXTENDS Naturals

CONSTANTS
    Threads,    \* the threads that share the barrier
    Rounds      \* how often each of them calls barrier_wait

VARIABLES
    calls,      \* calls[t]: number of times t has called barrier_wait
    returns     \* returns[t]: number of times barrier_wait has returned to t

vars == <<calls, returns>>

Init ==
    /\ calls = [t \in Threads |-> 0]
    /\ returns = [t \in Threads |-> 0]

(* A thread that is outside calls barrier_wait. *)
Call(t) ==
    /\ calls[t] = returns[t]
    /\ calls[t] < Rounds
    /\ calls' = [calls EXCEPT ![t] = @ + 1]
    /\ UNCHANGED returns

(* A waiting thread leaves: every thread has called as often as it has. *)
Return(t) ==
    /\ returns[t] < calls[t]
    /\ \A u \in Threads : calls[t] <= calls[u]
    /\ returns' = [returns EXCEPT ![t] = calls[t]]
    /\ UNCHANGED calls

Next == \E t \in Threads : Call(t) \/ Return(t)

Spec == Init /\ [][Next]_vars

============================================================================
