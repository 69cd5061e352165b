------------------------------ MODULE RWLock -------------------------------
(***************************************************************************)
(* The reader/writer lock of SyncProject/locking.c under the exercise of   *)
(* driver.c (ex4_read_fn, ex4_write_fn).  rw_read_unlock subtracts one     *)
(* from the low half of the pointer lock->mutex, so the model keeps the    *)
(* pointer, as an offset from the spin lock that rw_lock_init allocated,   *)
(* and the bytes of memory it can then point at: that spin lock and, below *)
(* it, the size word of its heap chunk.                                    *)
(***************************************************************************)
EXTENDS Integers, FiniteSets, Atomics

CONSTANTS
    Readers,        \* threads that run ex4_read_fn
    Writers,        \* threads that run ex4_write_fn
    ITERATIONS,     \* bound: passes of each thread's loop (100 in the driver)
    Warmups         \* may contain TRUE, the two pthread_barrier_wait phases of
                    \* driver.c before the loops, and FALSE, no such phases

Threads == Readers \cup Writers

ASSUME RolesAssumption == Readers \cap Writers = {} /\ Warmups \subseteq BOOLEAN
ASSUME ITERATIONSAssumption == ITERATIONS \in Nat \ {0}

(* Named bound: the pointer stays within the chunk of the spin lock. *)
HeaderBytes == 8
ASSUME PointerBound == Cardinality(Readers) * (ITERATIONS + 1) <= HeaderBytes

VARIABLES
    num_readers,    \* lock->num_readers
    writer,         \* lock->writer
    mutex,          \* lock->mutex, as an offset from the allocated spin lock
    mem,            \* the bytes at offsets -8 .. 3
    pc,             \* where each thread is
    addr,           \* the pointer each thread passed to spinlock_lock/_unlock
    loaded,         \* each reader's register for num_readers++
    arrived,        \* calls of pthread_barrier_wait, per thread
    i               \* each thread's loop variable

vars == <<num_readers, writer, mutex, mem, pc, addr, loaded, arrived, i>>

Zero == <<0, 0, 0, 0>>
One == <<1, 0, 0, 0>>

(* the little-endian 32-bit word at offset a, and a store to it *)
Word(a) == <<mem[a], mem[a + 1], mem[a + 2], mem[a + 3]>>
StoreWord(a, w) == [b \in DOMAIN mem |-> IF b \in a .. a + 3 THEN w[b - a + 1]
                                         ELSE mem[b]]

(* rw_lock_init.  The chunk of a 4-byte malloc has the size word 0x21. *)
Init ==
    /\ num_readers = 0
    /\ writer = 0
    /\ mutex = 0
    /\ mem = [b \in -HeaderBytes .. 3 |-> CASE b = -HeaderBytes -> 33
                                            [] b = 0 -> 1
                                            [] OTHER -> 0]
    /\ addr = [t \in Threads |-> 0]
    /\ loaded = [t \in Threads |-> 0]
    /\ \E warmup \in Warmups :
          /\ pc = [t \in Threads |-> IF warmup /\ t \in Writers THEN "barrier"
                                    ELSE "lock"]
          /\ arrived = [t \in Threads |-> IF ~warmup THEN 2
                                         ELSE IF t \in Writers THEN 1 ELSE 0]
    /\ i = [t \in Threads |-> 0]

Goto(t, l) == pc' = [pc EXCEPT ![t] = l]

----------------------------------------------------------------------------
(* rw_read_lock and rw_write_lock *)

(* the call spinlock_lock(lock->mutex) loads the pointer once *)
CallLock(t) ==
    /\ pc[t] = "lock"
    /\ addr' = [addr EXCEPT ![t] = mutex]
    /\ Goto(t, "acquire")
    /\ UNCHANGED <<num_readers, writer, mutex, mem, loaded, arrived, i>>

(* the pass of spinlock_lock's loop that ends it: any word but zero does,   *)
(* and only the word 1 is replaced                                          *)
Acquire(t) ==
    /\ pc[t] = "acquire"
    /\ Word(addr[t]) # Zero
    /\ mem' = StoreWord(addr[t], CompareAndSwap(Word(addr[t]), One, Zero))
    /\ Goto(t, "test_writer")
    /\ UNCHANGED <<num_readers, writer, mutex, addr, loaded, arrived, i>>

(* Mutant: a reader also waits until there is no other reader. *)
TestWriterAndReaders(t) ==
    /\ pc[t] = "test_writer"
    /\ writer = 0 /\ num_readers = 0
    /\ Goto(t, IF t \in Readers THEN "load" ELSE "test_readers")
    /\ UNCHANGED <<num_readers, writer, mutex, mem, addr, loaded, arrived, i>>

(* while(lock->writer), and the first operand of the writer's condition *)
TestWriter(t) ==
    /\ pc[t] = "test_writer"
    /\ writer = 0
    /\ Goto(t, IF t \in Readers THEN "load" ELSE "test_readers")
    /\ UNCHANGED <<num_readers, writer, mutex, mem, addr, loaded, arrived, i>>

(* num_readers++, load and store *)
LoadReaders(t) ==
    /\ pc[t] = "load"
    /\ loaded' = [loaded EXCEPT ![t] = num_readers]
    /\ Goto(t, "store")
    /\ UNCHANGED <<num_readers, writer, mutex, mem, addr, arrived, i>>

StoreReaders(t) ==
    /\ pc[t] = "store"
    /\ num_readers' = loaded[t] + 1
    /\ Goto(t, "unlock")
    /\ UNCHANGED <<writer, mutex, mem, addr, loaded, arrived, i>>

(* Mutant: the writer does not wait for readers. *)
TestReadersSkipped(t) ==
    /\ pc[t] = "test_readers"
    /\ Goto(t, "set")
    /\ UNCHANGED <<num_readers, writer, mutex, mem, addr, loaded, arrived, i>>

(* lock->num_readers>0, the second operand of the writer's condition *)
TestReaders(t) ==
    /\ pc[t] = "test_readers"
    /\ Goto(t, IF num_readers > 0 THEN "test_writer" ELSE "set")
    /\ UNCHANGED <<num_readers, writer, mutex, mem, addr, loaded, arrived, i>>

(* lock->writer = 1 *)
SetWriter(t) ==
    /\ pc[t] = "set"
    /\ writer' = 1
    /\ Goto(t, "unlock")
    /\ UNCHANGED <<num_readers, mutex, mem, addr, loaded, arrived, i>>

(* the call spinlock_unlock(lock->mutex) loads the pointer again *)
CallUnlock(t) ==
    /\ pc[t] = "unlock"
    /\ addr' = [addr EXCEPT ![t] = mutex]
    /\ Goto(t, "release")
    /\ UNCHANGED <<num_readers, writer, mutex, mem, loaded, arrived, i>>

(* lock->free = 1 in spinlock_unlock; rw_read_lock or rw_write_lock returns *)
Release(t) ==
    /\ pc[t] = "release"
    /\ mem' = StoreWord(addr[t], One)
    /\ Goto(t, "inside")
    /\ UNCHANGED <<num_readers, writer, mutex, addr, loaded, arrived, i>>

----------------------------------------------------------------------------
(* The driver's thread functions *)

(* i++ and the loop test of either thread function *)
NextPass(t) ==
    /\ i' = [i EXCEPT ![t] = @ + 1]
    /\ Goto(t, IF i[t] + 1 < ITERATIONS THEN "lock" ELSE "done")

(* pthread_barrier_wait called with the read lock held *)
ReaderMeets(t) ==
    /\ t \in Readers /\ pc[t] = "inside" /\ arrived[t] = 0
    /\ arrived' = [arrived EXCEPT ![t] = 1]
    /\ Goto(t, "barrier")
    /\ UNCHANGED <<num_readers, writer, mutex, mem, addr, loaded, i>>

(* pthread_barrier_wait returns once every thread has called it as often    *)
PassBarrier(t) ==
    /\ pc[t] = "barrier"
    /\ \A u \in Threads : arrived[u] >= arrived[t]
    /\ IF t \in Writers /\ arrived[t] = 1
       THEN arrived' = [arrived EXCEPT ![t] = 2] /\ UNCHANGED pc
       ELSE /\ Goto(t, IF arrived[t] = 1 THEN "inside" ELSE "lock")
            /\ UNCHANGED arrived
    /\ UNCHANGED <<num_readers, writer, mutex, mem, addr, loaded, i>>

(* rw_read_unlock: atomic_sub(&(lock->mutex), 1); after the warm-up the     *)
(* reader calls pthread_barrier_wait, otherwise its loop goes on.           *)
ReadUnlock(t) ==
    /\ t \in Readers /\ pc[t] = "inside" /\ arrived[t] # 0
    /\ mutex' = mutex - 1
    /\ IF arrived[t] = 1
       THEN /\ arrived' = [arrived EXCEPT ![t] = 2]
            /\ Goto(t, "barrier")
            /\ UNCHANGED i
       ELSE NextPass(t) /\ UNCHANGED arrived
    /\ UNCHANGED <<num_readers, writer, mem, addr, loaded>>

(* rw_write_unlock: atomic_sub(&(lock->writer), 1) *)
WriteUnlock(t) ==
    /\ t \in Writers /\ pc[t] = "inside"
    /\ writer' = writer - 1
    /\ NextPass(t)
    /\ UNCHANGED <<num_readers, mutex, mem, addr, loaded, arrived>>

Step(t) ==
    \/ CallLock(t) \/ Acquire(t) \/ TestWriter(t)
    \/ LoadReaders(t) \/ StoreReaders(t)
    \/ TestReaders(t) \/ SetWriter(t)
    \/ CallUnlock(t) \/ Release(t)
    \/ ReaderMeets(t) \/ PassBarrier(t)
    \/ ReadUnlock(t) \/ WriteUnlock(t)

Next == \E t \in Threads : Step(t)

(* Every thread is pinned to a processor of its own. *)
Spec ==
    /\ Init /\ [][Next]_vars
    /\ \A t \in Threads : WF_vars(Step(t))

----------------------------------------------------------------------------
TypeOK ==
    /\ num_readers \in Nat /\ mutex \in Int /\ mutex <= 0
    /\ pc \in [Threads -> {"lock", "acquire", "test_writer", "load", "store",
                           "test_readers", "set", "unlock", "release",
                           "inside", "barrier", "done"}]
    /\ loaded \in [Threads -> Nat] /\ addr \in [Threads -> Int]
    /\ arrived \in [Threads -> 0 .. 2] /\ i \in [Threads -> 0 .. ITERATIONS]
    /\ \A t \in Threads : pc[t] # "done" => i[t] < ITERATIONS
    /\ \A r \in Readers : pc[r] \notin {"test_readers", "set"}
    /\ \A w \in Writers : pc[w] \notin {"load", "store"}

(* between the return of rw_read_lock or rw_write_lock and the unlock *)
Inside(t) ==
    \/ pc[t] = "inside"
    \/ pc[t] = "barrier" /\ t \in Readers /\ arrived[t] = 1

(* A writer inside excludes every other thread, although the spin lock that *)
(* guards lock->writer and lock->num_readers stops excluding anyone after   *)
(* the first rw_read_unlock has moved the pointer to it.                    *)
RWExclusion ==
    \A w \in Writers : Inside(w) =>
        writer = 1 /\ \A u \in Threads \ {w} : ~Inside(u)

(* Once a reader has unlocked, no writer is let in any more: num_readers is *)
(* never decremented, which is what keeps RWExclusion true.                 *)
NoWriterAfterUnlock == mutex < 0 => \A w \in Writers : ~Inside(w)

(* The inductive invariant behind the two.  While the pointer has not moved *)
(* the spin lock excludes, and the fields change only in its section.       *)
InSection(t) == pc[t] \in {"test_writer", "load", "store", "test_readers", "set",
                           "unlock", "release"}
SetByMe(w) == pc[w] \in {"unlock", "release", "inside"}
Counted(r) == pc[r] \in {"unlock", "release", "inside", "barrier"}

SpinLockWorks ==
    /\ DOMAIN mem = -HeaderBytes .. 3
    /\ mem[0] \in {0, 1} /\ mem[1] = 0 /\ mem[2] = 0 /\ mem[3] = 0
    /\ \A t \in Threads : addr[t] = 0
    /\ \A t \in Threads : InSection(t) =>
          mem[0] = 0 /\ \A u \in Threads \ {t} : ~InSection(u)

FieldsRight ==
    /\ writer \in {0, 1}
    /\ writer = 1 => num_readers = 0
    /\ \A w \in Writers : SetByMe(w) =>
          writer = 1 /\ \A v \in Writers \ {w} : ~SetByMe(v)
    /\ \A t \in Threads :
          /\ pc[t] \in {"load", "store", "test_readers", "set"} => writer = 0
          /\ pc[t] = "set" => num_readers = 0
    /\ \A r \in Readers : Counted(r) => num_readers > 0

(* Afterwards num_readers is what stops every writer, whoever else is in    *)
(* the section with it.                                                     *)
ReadersRemain ==
    /\ num_readers > 0
    /\ \A w \in Writers : pc[w] # "set" /\ ~SetByMe(w)

RWInv ==
    /\ TypeOK
    /\ mutex = 0 => SpinLockWorks /\ FieldsRight
    /\ mutex < 0 => ReadersRemain

(* Readers do not exclude each other and nothing in the warm-up waits for   *)
(* ever: all readers hold the lock together at the first                    *)
(* pthread_barrier_wait, and every thread gets to its loop.                 *)
WarmupCompletes == <>(\A t \in Threads : arrived[t] = 2)

(* Every thread function returns, so that the driver's joins end and it     *)
(* prints its result.                                                       *)
EveryThreadReturns == <>(\A t \in Threads : pc[t] = "done")

============================================================================
