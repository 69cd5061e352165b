------------------------------ MODULE LFQueue ------------------------------
(***************************************************************************)
(* The lock-free queue of SyncProject/locking.c (lf_queue_init,            *)
(* lf_enqueue, lf_dequeue) under the exercise of driver.c: every producer  *)
(* runs enqueue_fn and one consumer runs dequeue_fn.  No node is ever      *)
(* freed, so an address is never used twice.                               *)
(***************************************************************************)
EXTENDS Integers, Sequences, FiniteSets, Atomics

CONSTANTS
    Producers,      \* the threads that run enqueue_fn
    Consumer,       \* the thread that runs dequeue_fn
    ITERATIONS,     \* bound: values each producer enqueues (1000 in the driver)
    NULL            \* the null pointer

ASSUME ITERATIONSAssumption == ITERATIONS \in Nat \ {0}
ASSUME RolesAssumption == IsFiniteSet(Producers) /\ Consumer \notin Producers

(* the two nodes lf_queue_init allocates, and one per call of lf_enqueue,   *)
(* named by its producer and its value                                      *)
HeadDummy == <<Consumer, 1>>
TailDummy == <<Consumer, 2>>
Items == Producers \X (1 .. ITERATIONS)
Nodes == {HeadDummy, TailDummy} \cup Items

ASSUME NULLAssumption == NULL \notin Nodes

VARIABLES
    head, tail,     \* queue->head, queue->tail
    next,           \* the next field of each node
    pc,             \* where each thread is
    p,              \* each thread's local p
    nx,             \* each producer's register for p->next
    i               \* values enqueued by each producer, or dequeue_fn's passes

vars == <<head, tail, next, pc, p, nx, i>>

(* lf_queue_init: two separate dummy nodes *)
Init ==
    /\ head = HeadDummy /\ tail = TailDummy
    /\ next = [n \in Nodes |-> NULL]
    /\ pc = [t \in Producers \cup {Consumer} |-> "call"]
    /\ p = [t \in Producers \cup {Consumer} |-> NULL]
    /\ nx = [t \in Producers |-> NULL]
    /\ i = [t \in Producers \cup {Consumer} |-> 0]

Goto(t, l) == pc' = [pc EXCEPT ![t] = l]

(* the node of producer t's current call *)
q(t) == <<t, i[t] + 1>>

----------------------------------------------------------------------------
(* lf_enqueue *)

(* q = malloc(...), q->value = val, q->next = NULL: a node nobody else sees *)
Allocate(t) ==
    /\ pc[t] = "call" /\ i[t] < ITERATIONS
    /\ next' = [next EXCEPT ![q(t)] = NULL]
    /\ Goto(t, "tail")
    /\ UNCHANGED <<head, tail, p, nx, i>>

(* p = queue->tail *)
LoadTail(t) ==
    /\ pc[t] = "tail"
    /\ p' = [p EXCEPT ![t] = tail]
    /\ Goto(t, "link")
    /\ UNCHANGED <<head, tail, next, nx, i>>

(* Mutant: a plain store to p->next. *)
LinkStore(t) ==
    /\ pc[t] = "link"
    /\ next' = [next EXCEPT ![p[t]] = q(t)]
    /\ Goto(t, "test")
    /\ UNCHANGED <<head, tail, p, nx, i>>

(* compare_and_swap_ptr(&(p->next), NULL, q) *)
Link(t) ==
    /\ pc[t] = "link"
    /\ next' = [next EXCEPT ![p[t]] = CompareAndSwap(@, NULL, q(t))]
    /\ Goto(t, "test")
    /\ UNCHANGED <<head, tail, p, nx, i>>

(* succ = (q==p->next) *)
TestLinked(t) ==
    /\ pc[t] = "test"
    /\ Goto(t, IF next[p[t]] = q(t) THEN "swing" ELSE "next")
    /\ UNCHANGED <<head, tail, next, p, nx, i>>

(* the operand p->next of the call that helps *)
LoadNext(t) ==
    /\ pc[t] = "next"
    /\ nx' = [nx EXCEPT ![t] = next[p[t]]]
    /\ Goto(t, "help")
    /\ UNCHANGED <<head, tail, next, p, i>>

(* Mutant: the tail is loaded once, before the loop. *)
HelpSameTail(t) ==
    /\ pc[t] = "help"
    /\ tail' = CompareAndSwap(tail, p[t], nx[t])
    /\ Goto(t, "link")
    /\ UNCHANGED <<head, next, p, nx, i>>

(* Mutant: a plain store to queue->tail. *)
HelpStore(t) ==
    /\ pc[t] = "help"
    /\ tail' = nx[t]
    /\ Goto(t, "tail")
    /\ UNCHANGED <<head, next, p, nx, i>>

(* compare_and_swap_ptr(&(queue->tail), p, p->next), then the loop again *)
Help(t) ==
    /\ pc[t] = "help"
    /\ tail' = CompareAndSwap(tail, p[t], nx[t])
    /\ Goto(t, "tail")
    /\ UNCHANGED <<head, next, p, nx, i>>

(* Mutant: a plain store to queue->tail once the node is linked. *)
SwingStore(t) ==
    /\ pc[t] = "swing"
    /\ tail' = q(t)
    /\ i' = [i EXCEPT ![t] = @ + 1]
    /\ Goto(t, IF i[t] + 1 < ITERATIONS THEN "call" ELSE "done")
    /\ UNCHANGED <<head, next, p, nx>>

(* compare_and_swap_ptr(&(queue->tail), p, q); lf_enqueue returns and       *)
(* enqueue_fn's loop goes on                                                *)
SwingTail(t) ==
    /\ pc[t] = "swing"
    /\ tail' = CompareAndSwap(tail, p[t], q(t))
    /\ i' = [i EXCEPT ![t] = @ + 1]
    /\ Goto(t, IF i[t] + 1 < ITERATIONS THEN "call" ELSE "done")
    /\ UNCHANGED <<head, next, p, nx>>

enqueue_fn(t) ==
    \/ Allocate(t) \/ LoadTail(t) \/ Link(t) \/ TestLinked(t)
    \/ LoadNext(t) \/ Help(t) \/ SwingTail(t)

----------------------------------------------------------------------------
(* lf_dequeue, called in a loop by dequeue_fn *)

(* p = queue->head *)
LoadHead ==
    /\ pc[Consumer] = "call" /\ i[Consumer] < Cardinality(Items)
    /\ p' = [p EXCEPT ![Consumer] = head]
    /\ Goto(Consumer, "empty")
    /\ UNCHANGED <<head, tail, next, nx, i>>

(* if(p->next == NULL) return 0: the call has found the queue empty, and    *)
(* dequeue_fn's while loop, which repeats as long as a value was returned,  *)
(* ends.  Otherwise lf_dequeue would go on to take p->next.  No execution   *)
(* gets there (HeadAlone), because nothing is ever linked behind the head's *)
(* dummy node, so the model has no step from there.                         *)
TestEmpty ==
    /\ pc[Consumer] = "empty"
    /\ IF next[p[Consumer]] = NULL
       THEN i' = [i EXCEPT ![Consumer] = @ + 1] /\ Goto(Consumer, "returned0")
       ELSE Goto(Consumer, "take") /\ UNCHANGED i
    /\ UNCHANGED <<head, tail, next, p, nx>>

(* the next pass of dequeue_fn's for loop *)
NextPass ==
    /\ pc[Consumer] = "returned0"
    /\ Goto(Consumer, IF i[Consumer] < Cardinality(Items) THEN "call" ELSE "done")
    /\ UNCHANGED <<head, tail, next, p, nx, i>>

dequeue_fn == LoadHead \/ TestEmpty \/ NextPass

Next ==
    \/ \E t \in Producers : enqueue_fn(t)
    \/ dequeue_fn

(* Every thread is pinned to a processor of its own. *)
Spec ==
    /\ Init /\ [][Next]_vars
    /\ \A t \in Producers : WF_vars(enqueue_fn(t))
    /\ WF_vars(dequeue_fn)

----------------------------------------------------------------------------
TypeOK ==
    /\ {head, tail} \subseteq Nodes
    /\ next \in [Nodes -> Nodes \cup {NULL}]
    /\ pc \in [Producers \cup {Consumer} ->
                  {"call", "tail", "link", "test", "next", "help", "swing",
                   "done", "empty", "returned0", "take"}]
    /\ p \in [Producers \cup {Consumer} -> Nodes \cup {NULL}]
    /\ nx \in [Producers -> Nodes \cup {NULL}]
    /\ i \in [Producers \cup {Consumer} -> Nat]
    /\ \A t \in Producers :
          /\ pc[t] \notin {"empty", "returned0", "take"}
          /\ i[t] <= ITERATIONS /\ (pc[t] \notin {"call", "done"} => i[t] < ITERATIONS)

(* the lists that start at the nodes, following nxt at most k times *)
Walk(nxt) ==
    LET w[k \in Nat] ==
            [n \in Nodes \cup {NULL} |->
                IF n = NULL \/ k = 0 THEN <<>> ELSE <<n>> \o w[k - 1][nxt[n]]]
    IN  w

Chain == Walk(next)[Cardinality(Nodes)][TailDummy]

(* lf_enqueue implements an atomic append, whatever the interleaving of the *)
(* producers: the list in memory is a log that only grows at its end, each  *)
(* call adds its node exactly once, and before it returns.                  *)
Log == INSTANCE AbstractLog WITH log <- SubSeq(Chain, 2, Len(Chain)),
                                 returned <- [t \in Producers |-> i[t]]
EnqueueIsAppend == Log!Spec

(* queue->tail is the last node of the list or the one before it: a         *)
(* producer that stops between linking and swinging leaves the tail only    *)
(* one behind, because the others help it before they link.                 *)
TailLag ==
    tail \in {Chain[n] : n \in {Len(Chain), Len(Chain) - 1} \ {0}}

(* queue->tail only ever moves from a node to that node's successor: no     *)
(* late compare-and-swap takes it back.                                     *)
TailMovesForward == [][tail' # tail => tail' = next[tail]]_vars

(* The inductive invariant behind these.  s is the list that nxt links      *)
(* from the tail dummy on, without a node twice.                            *)
IsChain(nxt, s) ==
    /\ s \in Seq(Nodes) /\ Len(s) > 0 /\ s[1] = TailDummy
    /\ \A k \in 1 .. Len(s) - 1 : nxt[s[k]] = s[k + 1]
    /\ nxt[s[Len(s)]] = NULL
    /\ \A j, k \in 1 .. Len(s) : s[j] = s[k] => j = k

Elems(s) == {s[k] : k \in 1 .. Len(s)}

(* The consumer sees the head dummy only: lf_queue_init gives head a dummy  *)
(* node of its own, so what is enqueued never reaches lf_dequeue.           *)
HeadAlone ==
    /\ head = HeadDummy /\ next[HeadDummy] = NULL /\ pc[Consumer] # "take"
    /\ pc[Consumer] = "empty" => p[Consumer] = HeadDummy

(* producer t has linked its node and not returned *)
Linked(t) == pc[t] = "swing" \/ (pc[t] = "test" /\ next[p[t]] = q(t))

(* Of the list s: the tail is at its end or one before, a node has a        *)
(* successor only in the list, and it holds exactly what has been linked.   *)
ListRight(s) ==
    /\ \A n \in Nodes : next[n] # NULL => n \in Elems(s)
    /\ tail \in Elems(s)
    /\ next[tail] # NULL => next[next[tail]] = NULL
    /\ HeadDummy \notin Elems(s)
    /\ \A t \in Producers : \A v \in 1 .. ITERATIONS :
          <<t, v>> \in Elems(s) <=>
              v <= i[t] \/ (v = i[t] + 1 /\ Linked(t))
    /\ \A t \in Producers : pc[t] \in {"link", "test", "next", "help", "swing"} =>
          p[t] \in Elems(s)

(* where each producer is, and what it knows of the node it has read *)
PositionsRight ==
    \A t \in Producers :
        /\ pc[t] = "link" => (next[p[t]] = NULL => p[t] = tail)
        /\ pc[t] \in {"test", "next", "help", "swing"} => next[p[t]] # NULL
        /\ pc[t] = "help" => nx[t] = next[p[t]]
        /\ pc[t] = "swing" => next[p[t]] = q(t)

QueueInv ==
    /\ TypeOK
    /\ HeadAlone
    /\ IsChain(next, Chain)
    /\ ListRight(Chain)
    /\ PositionsRight

(* Lock freedom as the driver needs it: every producer and the consumer     *)
(* finish, however their compare-and-swaps interfere.                       *)
EveryThreadReturns ==
    <>(\A t \in Producers \cup {Consumer} : pc[t] = "done")

============================================================================
