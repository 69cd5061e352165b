----------------------------- MODULE PetThread -----------------------------
(***************************************************************************)
(* The user-level thread library of Threads/pet_thread.c and               *)
(* pet_thread_hw.S: cooperative threads on one kernel thread, a ready      *)
(* list, a blocked list, a list of waiters per thread, and main running as *)
(* the master thread.  An action is one call of the library by the running *)
(* thread, up to the switch to another stack; what the call does when its  *)
(* caller is switched back to is an action of its own.                     *)
(*                                                                         *)
(* A thread's exit value is its id, so every thread's is different.  The   *)
(* pointer `stopped' is not kept: it is only needed by pet_thread_cleanup, *)
(* which runs in the same step as the switch; later it points at freed     *)
(* memory whose first word, the id, the allocator has overwritten or given *)
(* to a new thread that get_thread finds anyway.                           *)
(***************************************************************************)
EXTENDS Integers, Sequences, SequencesExt

CONSTANTS
    MaxThreads,     \* bound: calls of pet_thread_create
    Calls,          \* calls that thread functions make
    MainCalls,      \* calls that main makes
    Joinable        \* thread ids passed to pet_thread_join

ASSUME MaxThreadsAssumption == MaxThreads \in Nat \ {0}
ASSUME CallsAssumption ==
    Calls \cup MainCalls \subseteq
        {"create", "schedule", "yield_to", "join", "exit", "run"}
ASSUME MainAssumption ==            \* main does not exit as a thread does
    "exit" \notin MainCalls /\ Joinable \subseteq 0 .. MaxThreads

Master == 0                             \* PET_MASTER_THREAD_ID
Created == 1 .. MaxThreads
Threads == 0 .. MaxThreads
NoThread == -1                          \* get_thread's NULL

VARIABLES
    state,              \* each thread's state; UNBORN before pet_thread_create,
                        \* FREED once pet_thread_cleanup has freed it
    running,            \* the running thread
    ready_list,
    blocked_list,
    waiting_for_me,     \* waiting_for_me_list of each thread
    return_reciever,    \* return_reciever of each thread; -1 is NULL
    thread_id_count,
    at,                 \* "user", or the call that a thread has yet to return from
    joined,             \* history: the thread each thread last joined
    failed              \* has an assertion failed or a null pointer been used

vars == <<state, running, ready_list, blocked_list, waiting_for_me,
          return_reciever, thread_id_count, at, joined, failed>>

(* pet_thread_init *)
Init ==
    /\ state = [t \in Threads |-> IF t = Master THEN "RUNNING" ELSE "UNBORN"]
    /\ running = Master
    /\ ready_list = <<>>
    /\ blocked_list = <<>>
    /\ waiting_for_me = [t \in Threads |-> <<>>]
    /\ return_reciever = [t \in Threads |-> -1]
    /\ thread_id_count = 1
    /\ at = [t \in Threads |-> "user"]
    /\ joined = [t \in Threads |-> NoThread]
    /\ failed = FALSE

get_thread(id) ==
    IF id \in {Master, running} \cup ToSet(ready_list) \cup ToSet(blocked_list)
    THEN id ELSE NoThread

(* list after list_del of the threads of S *)
Without(list, S) ==
    LET w[n \in 0 .. Len(list)] ==
            IF n = 0 THEN <<>>
            ELSE IF list[n] \in S THEN w[n - 1] ELSE Append(w[n - 1], list[n])
    IN  w[Len(list)]

----------------------------------------------------------------------------
(* Switching.  The state, ready list and blocked list are passed as the     *)
(* caller has left them.                                                    *)

Fail ==
    /\ failed' = TRUE
    /\ UNCHANGED <<state, running, ready_list, blocked_list>>

(* Mutants: the old thread goes to the head of the list; a thread that      *)
(* blocks is put in this list as well.                                      *)
ReadyAtHead(rest, st, old) ==
    IF st[old] = "RUNNING" /\ old # Master THEN <<old>> \o rest ELSE rest
ReadyAlsoBlocked(rest, st, old) ==
    IF st[old] \in {"RUNNING", "BLOCKED"} /\ old # Master
    THEN Append(rest, old) ELSE rest

(* __thread_invoker: the old thread goes to the end of ready_list if it was *)
(* running; the master thread is never put there.                           *)
ReadyAfter(rest, st, old) ==
    IF st[old] = "RUNNING" /\ old # Master THEN Append(rest, old) ELSE rest

(* the old thread's state after the switch and pet_thread_cleanup, which    *)
(* frees a thread that has stopped                                          *)
StateAfter(s) == CASE s = "RUNNING" -> "READY"
                   [] s = "BLOCKED" -> "BLOCKED"
                   [] s = "STOPPED" -> "FREED"

(* __thread_invoker, __switch_to_stack and, on the new stack,               *)
(* pet_thread_cleanup.                                                      *)
ThreadInvoker(thread, st, rl, bl) ==
    LET old == running
        rest == IF thread = Master THEN rl ELSE Without(rl, {thread})
    IN  IF st[thread] # "READY" \/ st[old] = "READY" THEN Fail
        ELSE /\ running' = thread
             /\ ready_list' = ReadyAfter(rest, st, old)
             /\ blocked_list' = IF st[old] = "BLOCKED" THEN Append(bl, old) ELSE bl
             /\ state' = [st EXCEPT ![old] = StateAfter(@), ![thread] = "RUNNING"]
             /\ UNCHANGED failed

(* pet_thread_schedule: the master thread runs when nothing is ready; main  *)
(* itself goes on when nothing is ready.                                    *)
Schedule(st, rl, bl) ==
    IF rl # <<>>
    THEN IF st[Head(rl)] = "READY" THEN ThreadInvoker(Head(rl), st, rl, bl) ELSE Fail
    ELSE IF running # Master
    THEN ThreadInvoker(Master, st, rl, bl)
    ELSE /\ state' = st /\ ready_list' = rl /\ blocked_list' = bl
         /\ UNCHANGED <<running, failed>>

(* where a thread that calls pet_thread_schedule now will be switched back  *)
(* to: after the loop, or in front of `return 9'                            *)
ResumePoint(rl) == IF rl = <<>> /\ running # Master THEN "return 9" ELSE "schedule"

----------------------------------------------------------------------------
(* The calls.  r is the running thread. *)

Calling(r, call) ==
    /\ ~failed
    /\ r = running /\ at[r] = "user"
    /\ call \in IF r = Master THEN MainCalls ELSE Calls

(* pet_thread_create *)
Create(r) ==
    /\ Calling(r, "create") /\ thread_id_count <= MaxThreads
    /\ state' = [state EXCEPT ![thread_id_count] = "READY"]
    /\ ready_list' = Append(ready_list, thread_id_count)
    /\ thread_id_count' = thread_id_count + 1
    /\ UNCHANGED <<running, blocked_list, waiting_for_me, return_reciever, at,
                   joined, failed>>

(* pet_thread_schedule, called directly *)
CallSchedule(r) ==
    /\ Calling(r, "schedule")
    /\ Schedule(state, ready_list, blocked_list)
    /\ at' = [at EXCEPT ![r] = ResumePoint(ready_list)]
    /\ UNCHANGED <<waiting_for_me, return_reciever, thread_id_count, joined>>

(* pet_thread_yield_to *)
YieldTo(r, id) ==
    LET tgt == get_thread(id)
    IN  /\ Calling(r, "yield_to")
        /\ IF tgt = NoThread \/ state[tgt] # "READY"
           THEN /\ Schedule(state, ready_list, blocked_list)
                /\ at' = [at EXCEPT ![r] = ResumePoint(ready_list)]
           ELSE /\ ThreadInvoker(tgt, state, ready_list, blocked_list)
                /\ at' = [at EXCEPT ![r] = "yield_to"]
        /\ UNCHANGED <<waiting_for_me, return_reciever, thread_id_count, joined>>

(* pet_thread_join, up to its call of pet_thread_schedule.  Joining a       *)
(* thread that does not exist returns -1 and changes nothing.  The master   *)
(* thread's waiting_for_me_list is never initialised, so joining it stores  *)
(* through a null pointer.  Bound: main does not join again while it is     *)
(* still linked in ready_list, which would corrupt both lists.              *)
Join(r, id) ==
    LET tgt == get_thread(id)
        st == [state EXCEPT ![r] = "BLOCKED"]
    IN  /\ Calling(r, "join") /\ tgt # NoThread
        /\ r = Master => Master \notin ToSet(ready_list)
        /\ IF state[r] # "RUNNING" \/ tgt = Master
           THEN Fail /\ UNCHANGED <<waiting_for_me, at, joined>>
           ELSE /\ waiting_for_me' = [waiting_for_me EXCEPT ![tgt] = Append(@, r)]
                /\ joined' = [joined EXCEPT ![r] = tgt]
                /\ Schedule(st, ready_list, blocked_list)
                /\ at' = [at EXCEPT ![r] = "join"]
        /\ UNCHANGED <<return_reciever, thread_id_count>>

(* Mutant: the first waiter only. *)
FirstWaiter(r) ==
    IF waiting_for_me[r] = <<>> THEN <<>> ELSE <<Head(waiting_for_me[r])>>

(* the threads that __quarantine's loop wakes, in order *)
Waiters(r) == waiting_for_me[r]

(* Mutant: the loop does not copy the value. *)
DeliverNothing(r, woken) == return_reciever

(* the loop's pos->thread->return_reciever = ret_val *)
Deliver(r, woken) ==
    [t \in Threads |-> IF t \in ToSet(woken) THEN r ELSE return_reciever[t]]

(* Mutant: the loop does not change the waiters' states. *)
StillBlocked(r, woken) == [state EXCEPT ![r] = "STOPPED"]

(* the states __quarantine sets: waiters ready, the exiting thread stopped *)
ExitStates(r, woken) ==
    [t \in Threads |-> IF t \in ToSet(woken) THEN "READY"
                       ELSE IF t = r THEN "STOPPED" ELSE state[t]]

(* pet_thread_exit, and the return of a thread function by way of           *)
(* __capture_return: __quarantine readies every waiter and schedules.       *)
Exit(r) ==
    LET woken == Waiters(r)
    IN  /\ Calling(r, "exit")
        /\ IF state[r] # "RUNNING" \/ \E t \in ToSet(woken) : state[t] # "BLOCKED"
           THEN Fail /\ UNCHANGED <<waiting_for_me, return_reciever, at>>
           ELSE /\ waiting_for_me' = [waiting_for_me EXCEPT ![r] = <<>>]
                /\ return_reciever' = Deliver(r, woken)
                /\ Schedule(ExitStates(r, woken), ready_list \o woken,
                            Without(blocked_list, ToSet(woken)))
                /\ at' = [at EXCEPT ![r] = "exit"]
        /\ UNCHANGED <<thread_id_count, joined>>

(* pet_thread_run, up to its call of pet_thread_schedule *)
Run(r) ==
    /\ Calling(r, "run")
    /\ Schedule(state, ready_list, blocked_list)
    /\ at' = [at EXCEPT ![r] = "run"]
    /\ UNCHANGED <<waiting_for_me, return_reciever, thread_id_count, joined>>

(* The running thread has been switched back to: its call returns.          *)
(* pet_thread_join copies return_reciever to its caller, pet_thread_run     *)
(* prints that execution has finished.                                      *)
Return(r) ==
    /\ ~failed
    /\ r = running /\ at[r] # "user"
    /\ at' = [at EXCEPT ![r] = "user"]
    /\ UNCHANGED <<state, running, ready_list, blocked_list, waiting_for_me,
                   return_reciever, thread_id_count, joined, failed>>

Next ==
    \E r \in Threads :
        \/ Create(r)
        \/ CallSchedule(r)
        \/ \E id \in Threads : YieldTo(r, id)
        \/ \E id \in Joinable : Join(r, id)
        \/ Exit(r)
        \/ Run(r)
        \/ Return(r)

(* a step of a thread function or of the call that it is in *)
ThreadStep == running # Master /\ Next

(* Thread functions go on calling the library until they exit.  Main need   *)
(* not: the mains of the repository call pet_thread_run once and return.    *)
Spec == Init /\ [][Next]_vars /\ WF_vars(ThreadStep)

----------------------------------------------------------------------------
TypeOK ==
    /\ state \in [Threads -> {"UNBORN", "RUNNING", "READY", "BLOCKED", "FREED"}]
    /\ running \in Threads
    /\ ready_list \in Seq(Threads) /\ blocked_list \in Seq(Threads)
    /\ waiting_for_me \in [Threads -> Seq(Threads)]
    /\ return_reciever \in [Threads -> Threads \cup {-1}]
    /\ thread_id_count \in 1 .. MaxThreads + 1
    /\ at \in [Threads -> {"user", "schedule", "return 9", "yield_to", "join",
                           "exit", "run"}]
    /\ joined \in [Threads -> Threads \cup {NoThread}]
    /\ failed \in BOOLEAN

NoDuplicates(s) == \A m, n \in DOMAIN s : s[m] = s[n] => m = n

(* A created thread is in exactly one place, the one its state names:       *)
(* running, ready_list once, blocked_list once, or freed and in none.       *)
(* get_thread therefore finds every live thread and no freed one.           *)
OnePlace ==
    /\ NoDuplicates(ready_list) /\ NoDuplicates(blocked_list)
    /\ \A t \in Created :
          /\ t \in ToSet(ready_list) <=> state[t] = "READY"
          /\ t \in ToSet(blocked_list) <=> state[t] = "BLOCKED"
          /\ t = running <=> state[t] = "RUNNING"

(* No wake-up is lost: a blocked thread waits in the list of exactly one    *)
(* thread, which has not exited, and nobody else waits in any list.         *)
WaitersKept ==
    /\ \A t \in Threads :
          state[t] = "BLOCKED" <=>
              \E u \in Threads : t \in ToSet(waiting_for_me[u])
    /\ \A u \in Threads :
          /\ NoDuplicates(waiting_for_me[u])
          /\ waiting_for_me[u] # <<>> => state[u] \in {"RUNNING", "READY", "BLOCKED"}
    /\ \A u, v \in Threads : u # v =>
          ToSet(waiting_for_me[u]) \cap ToSet(waiting_for_me[v]) = {}

(* pet_thread_join hands its caller the exit value of the thread it joined, *)
(* however many joins and exits lie between the call and its return.        *)
JoinValue ==
    \A t \in Threads : at[t] = "join" /\ state[t] \in {"READY", "RUNNING"} =>
        /\ return_reciever[t] = joined[t]
        /\ state[joined[t]] = "FREED"

(* None of the library's assertions fails and no null pointer is used. *)
NoFailure == ~failed

(* What the four rest on when main does not join and nobody joins main:     *)
(* main is in no list and ready whenever it is not running; an id is used   *)
(* once; and a thread in pet_thread_join waits in the list of the thread it *)
(* has joined, or has that thread's value and the thread is freed.          *)
MainApart == "join" \notin MainCalls /\ Master \notin Joinable

MainPlaced ==
    /\ Master \notin ToSet(ready_list) \cup ToSet(blocked_list)
    /\ state[Master] = IF running = Master THEN "RUNNING" ELSE "READY"

IdsFresh ==
    \A t \in Created :
        /\ state[t] = "UNBORN" <=> t >= thread_id_count
        /\ state[t] = "UNBORN" => at[t] = "user"

JoinsRight ==
    \A t \in Threads :
        /\ state[t] = "BLOCKED" =>
              /\ at[t] = "join" /\ joined[t] \in Threads
              /\ t \in ToSet(waiting_for_me[joined[t]])
        /\ at[t] = "join" /\ state[t] \in {"READY", "RUNNING"} =>
              /\ joined[t] \in Threads
              /\ return_reciever[t] = joined[t]
              /\ state[joined[t]] = "FREED"

ThreadInv ==
    /\ TypeOK /\ NoFailure
    /\ OnePlace /\ MainPlaced /\ IdsFresh
    /\ WaitersKept /\ JoinsRight

(* ready_list is a queue: whoever is ahead of a thread that stays in it was  *)
(* ahead of it before, whoever is created, woken, switched out or yielded   *)
(* to in that step.                                                         *)
Position(s, t) == CHOOSE n \in DOMAIN s : s[n] = t
ReadyIsFIFO ==
    [][\A t \in ToSet(ready_list) \cap ToSet(ready_list') :
          \A u \in ToSet(ready_list') :
              Position(ready_list', u) < Position(ready_list', t) =>
                  /\ u \in ToSet(ready_list)
                  /\ Position(ready_list, u) < Position(ready_list, t)]_vars

(* Round robin: while main waits in pet_thread_run and once nobody switches *)
(* to a chosen thread any more, every ready thread gets to run, however     *)
(* often the others call the library.  Only a return to main, which need    *)
(* not call the library again, lets a thread stay ready.                    *)
DirectedYield == \E r \in Threads : at[r] = "user" /\ at'[r] = "yield_to"
RoundRobin ==
    <>[][~DirectedYield]_vars =>
        \A t \in Created :
            running # Master /\ state[t] = "READY" ~> state[t] = "RUNNING" \/ running = Master

============================================================================
