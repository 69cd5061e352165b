---------------------------- MODULE AbstractLog ----------------------------
(***************************************************************************)
(* What the enqueue side of a concurrent queue promises its callers        *)
(* (SyncProject/locking.h, lf_enqueue): each call appends its value once,  *)
(* in one step, before it returns; nothing already in the log is lost or   *)
(* moved; and a producer's values appear in the order it enqueued them.    *)
(***************************************************************************)
EXTENDS Naturals, Sequences

CONSTANTS
    Producers,  \* the threads that enqueue
    ITERATIONS  \* each enqueues the values 1 .. ITERATIONS, in that order

VARIABLES
    log,        \* what has been enqueued, oldest first
    returned    \* returned[t]: number of calls that have returned to t

vars == <<log, returned>>

Init ==
    /\ log = <<>>
    /\ returned = [t \in Producers |-> 0]

Logged(t, k) == \E n \in DOMAIN log : log[n] = <<t, k>>

(* The current call of t takes effect. *)
Put(t) ==
    /\ returned[t] < ITERATIONS
    /\ ~Logged(t, returned[t] + 1)
    /\ log' = Append(log, <<t, returned[t] + 1>>)
    /\ UNCHANGED returned

(* The current call of t returns. *)
Return(t) ==
    /\ Logged(t, returned[t] + 1)
    /\ returned' = [returned EXCEPT ![t] = @ + 1]
    /\ UNCHANGED log

Next == \E t \in Producers : Put(t) \/ Return(t)

Spec == Init /\ [][Next]_vars

============================================================================
