---------------------------- MODULE RWLockProofs ---------------------------
(***************************************************************************)
(* Proofs about the reader/writer lock, for any number of readers, writers *)
(* and iterations.  The life of the lock has two phases.  Until the first  *)
(* rw_read_unlock the pointer lock->mutex is where rw_lock_init put it and *)
(* the spin lock excludes; from then on nothing is known of the memory it  *)
(* points to, and num_readers, never decremented, keeps every writer out.  *)
(***************************************************************************)
EXTENDS RWLock, TLAPS

LEMMA InitInv == Init => RWInv
  <1> SUFFICES ASSUME Init PROVE RWInv
    OBVIOUS
  <1>1. TypeOK
    BY RolesAssumption, ITERATIONSAssumption DEF Init, TypeOK, Threads
  <1>2. SpinLockWorks
    BY DEF Init, SpinLockWorks, InSection, HeaderBytes
  <1>3. FieldsRight
    BY RolesAssumption DEF Init, FieldsRight, SetByMe, Counted, Threads
  <1> QED
    BY <1>1, <1>2, <1>3 DEF RWInv, Init

(* The steps keep the types and the loop bound in either phase. *)
LEMMA StepTypes == ASSUME TypeOK, NEW t \in Threads, Step(t) PROVE TypeOK'
  <1> USE RolesAssumption, ITERATIONSAssumption DEF TypeOK, Threads, Goto
  <1>1. CASE CallLock(t) BY <1>1 DEF CallLock
  <1>2. CASE Acquire(t) BY <1>2 DEF Acquire
  <1>3. CASE TestWriter(t) BY <1>3 DEF TestWriter
  <1>4. CASE LoadReaders(t) BY <1>4 DEF LoadReaders
  <1>5. CASE StoreReaders(t) BY <1>5 DEF StoreReaders
  <1>6. CASE TestReaders(t) BY <1>6 DEF TestReaders
  <1>7. CASE SetWriter(t) BY <1>7 DEF SetWriter
  <1>8. CASE CallUnlock(t) BY <1>8 DEF CallUnlock
  <1>9. CASE Release(t) BY <1>9 DEF Release
  <1>10. CASE ReaderMeets(t) BY <1>10 DEF ReaderMeets
  <1>11. CASE PassBarrier(t) BY <1>11 DEF PassBarrier
  <1>12. CASE ReadUnlock(t) BY <1>12 DEF ReadUnlock, NextPass
  <1>13. CASE WriteUnlock(t) BY <1>13 DEF WriteUnlock, NextPass
  <1> QED
    BY <1>1, <1>2, <1>3, <1>4, <1>5, <1>6, <1>7, <1>8, <1>9, <1>10, <1>11,
       <1>12, <1>13 DEF Step

(* Second phase: a writer that looks at num_readers goes back to its loop.  *)
LEMMA StepReadersRemain ==
    ASSUME TypeOK, ReadersRemain, NEW t \in Threads, Step(t)
    PROVE  ReadersRemain'
  <1> USE RolesAssumption DEF TypeOK, ReadersRemain, SetByMe, Threads, Goto
  <1>1. CASE CallLock(t) BY <1>1 DEF CallLock
  <1>2. CASE Acquire(t) BY <1>2 DEF Acquire
  <1>3. CASE TestWriter(t) BY <1>3 DEF TestWriter
  <1>4. CASE LoadReaders(t) BY <1>4 DEF LoadReaders
  <1>5. CASE StoreReaders(t) BY <1>5 DEF StoreReaders
  <1>6. CASE TestReaders(t) BY <1>6 DEF TestReaders
  <1>7. CASE SetWriter(t) BY <1>7 DEF SetWriter
  <1>8. CASE CallUnlock(t) BY <1>8 DEF CallUnlock
  <1>9. CASE Release(t) BY <1>9 DEF Release
  <1>10. CASE ReaderMeets(t) BY <1>10 DEF ReaderMeets
  <1>11. CASE PassBarrier(t) BY <1>11 DEF PassBarrier
  <1>12. CASE ReadUnlock(t) BY <1>12 DEF ReadUnlock, NextPass
  <1>13. CASE WriteUnlock(t) BY <1>13 DEF WriteUnlock, NextPass
  <1> QED
    BY <1>1, <1>2, <1>3, <1>4, <1>5, <1>6, <1>7, <1>8, <1>9, <1>10, <1>11,
       <1>12, <1>13 DEF Step

(* The first rw_read_unlock finds a counted reader, so no writer is in or   *)
(* about to be: the second phase begins.                                    *)
LEMMA PhaseChange ==
    ASSUME TypeOK, FieldsRight, NEW t \in Threads, ReadUnlock(t)
    PROVE  ReadersRemain'
  <1>1. num_readers > 0 /\ writer = 0
    BY DEF ReadUnlock, TypeOK, FieldsRight, Counted
  <1>2. \A w \in Writers : pc[w] # "set" /\ ~SetByMe(w)
    BY <1>1 DEF TypeOK, FieldsRight, Threads
  <1> QED
    BY <1>1, <1>2, RolesAssumption
    DEF ReadUnlock, NextPass, Goto, ReadersRemain, SetByMe, Threads, TypeOK

(* First phase: what spinlock_lock's loop and spinlock_unlock do to the     *)
(* word they are given.                                                     *)
LEMMA AcquireClears ==
    ASSUME SpinLockWorks, NEW t \in Threads, Acquire(t)
    PROVE  /\ mem[0] = 1
           /\ DOMAIN mem' = -HeaderBytes .. 3
           /\ mem'[0] = 0 /\ mem'[1] = 0 /\ mem'[2] = 0 /\ mem'[3] = 0
  <1>1. addr[t] = 0 /\ DOMAIN mem = -8 .. 3
    BY DEF SpinLockWorks, HeaderBytes
  <1>2. Word(0) = <<mem[0], 0, 0, 0>>
    BY DEF Word, SpinLockWorks
  <1>3. mem[0] = 1
    BY <1>1, <1>2 DEF Acquire, SpinLockWorks, Zero
  <1>4. CompareAndSwap(Word(0), One, Zero) = Zero
    BY <1>2, <1>3 DEF CompareAndSwap, One
  <1>5. mem' = StoreWord(0, Zero)
    BY <1>1, <1>4 DEF Acquire
  <1> QED
    BY <1>1, <1>3, <1>5 DEF StoreWord, Zero, HeaderBytes

LEMMA ReleaseSets ==
    ASSUME SpinLockWorks, NEW t \in Threads, Release(t)
    PROVE  /\ DOMAIN mem' = -HeaderBytes .. 3
           /\ mem'[0] = 1 /\ mem'[1] = 0 /\ mem'[2] = 0 /\ mem'[3] = 0
  <1>1. addr[t] = 0 /\ DOMAIN mem = -8 .. 3
    BY DEF SpinLockWorks, HeaderBytes
  <1>2. mem' = StoreWord(0, One)
    BY <1>1 DEF Release
  <1> QED
    BY <1>1, <1>2 DEF StoreWord, One, HeaderBytes

(* In the first phase the spin lock works: one step per action. *)
LEMMA StepSpinLockWorks ==
    ASSUME TypeOK, mutex = 0, SpinLockWorks, NEW t \in Threads, Step(t)
    PROVE  SpinLockWorks'
  <1> USE DEF TypeOK, SpinLockWorks, InSection, Goto
  <1>1. CASE CallLock(t) BY <1>1 DEF CallLock
  <1>2. CASE Acquire(t)
    <2>1. /\ mem[0] = 1
          /\ DOMAIN mem' = -HeaderBytes .. 3
          /\ mem'[0] = 0 /\ mem'[1] = 0 /\ mem'[2] = 0 /\ mem'[3] = 0
      BY <1>2, AcquireClears
    <2>2. \A u \in Threads : ~InSection(u)
      BY <2>1
    <2> QED
      BY <1>2, <2>1, <2>2 DEF Acquire
  <1>3. CASE TestWriter(t) BY <1>3 DEF TestWriter
  <1>4. CASE LoadReaders(t) BY <1>4 DEF LoadReaders
  <1>5. CASE StoreReaders(t) BY <1>5 DEF StoreReaders
  <1>6. CASE TestReaders(t) BY <1>6 DEF TestReaders
  <1>7. CASE SetWriter(t) BY <1>7 DEF SetWriter
  <1>8. CASE CallUnlock(t) BY <1>8 DEF CallUnlock
  <1>9. CASE Release(t)
    BY <1>9, ReleaseSets DEF Release
  <1>10. CASE ReaderMeets(t) BY <1>10 DEF ReaderMeets
  <1>11. CASE PassBarrier(t) BY <1>11 DEF PassBarrier
  <1>12. CASE ReadUnlock(t) BY <1>12, SMTT(20) DEF ReadUnlock, NextPass
  <1>13. CASE WriteUnlock(t) BY <1>13 DEF WriteUnlock, NextPass
  <1> QED
    BY <1>1, <1>2, <1>3, <1>4, <1>5, <1>6, <1>7, <1>8, <1>9, <1>10, <1>11,
       <1>12, <1>13 DEF Step

(* In the first phase lock->writer and lock->num_readers say who is in: one *)
(* step per action.  Only the thread in the section changes them, except    *)
(* that rw_write_unlock clears lock->writer without the spin lock.          *)
LEMMA StepFieldsRight ==
    ASSUME TypeOK, SpinLockWorks, FieldsRight, NEW t \in Threads, Step(t),
           ~ReadUnlock(t)
    PROVE  FieldsRight'
  <1> USE RolesAssumption DEF TypeOK, FieldsRight, SetByMe, Counted, Threads, Goto
  <1>1. CASE CallLock(t) BY <1>1 DEF CallLock
  <1>2. CASE Acquire(t) BY <1>2 DEF Acquire
  <1>3. CASE TestWriter(t) BY <1>3 DEF TestWriter
  <1>4. CASE LoadReaders(t) BY <1>4 DEF LoadReaders
  <1>5. CASE StoreReaders(t)
    BY <1>5 DEF StoreReaders, SpinLockWorks, InSection
  <1>6. CASE TestReaders(t) BY <1>6 DEF TestReaders
  <1>7. CASE SetWriter(t)
    BY <1>7 DEF SetWriter, SpinLockWorks, InSection
  <1>8. CASE CallUnlock(t) BY <1>8 DEF CallUnlock
  <1>9. CASE Release(t) BY <1>9 DEF Release
  <1>10. CASE ReaderMeets(t) BY <1>10 DEF ReaderMeets
  <1>11. CASE PassBarrier(t) BY <1>11 DEF PassBarrier
  <1>12. CASE WriteUnlock(t) BY <1>12 DEF WriteUnlock, NextPass
  <1> QED
    BY <1>1, <1>2, <1>3, <1>4, <1>5, <1>6, <1>7, <1>8, <1>9, <1>10, <1>11,
       <1>12 DEF Step

(* Only ReadUnlock moves the pointer, always down. *)
LEMMA MutexMoves ==
    ASSUME TypeOK, NEW t \in Threads, Step(t)
    PROVE  mutex' = IF ReadUnlock(t) THEN mutex - 1 ELSE mutex
  BY DEF Step, CallLock, Acquire, TestWriter, LoadReaders, StoreReaders,
         TestReaders, SetWriter, CallUnlock, Release, ReaderMeets, PassBarrier,
         ReadUnlock, WriteUnlock

LEMMA StepInv == RWInv /\ [Next]_vars => RWInv'
  <1> SUFFICES ASSUME RWInv, [Next]_vars PROVE RWInv'
    OBVIOUS
  <1>1. ASSUME NEW t \in Threads, Step(t) PROVE RWInv'
    <2>1. TypeOK /\ TypeOK'
      BY <1>1, StepTypes DEF RWInv
    <2>2. CASE mutex < 0
      BY <1>1, <2>1, <2>2, StepReadersRemain, MutexMoves DEF RWInv, TypeOK
    <2>3. CASE mutex = 0 /\ ReadUnlock(t)
      BY <1>1, <2>1, <2>3, PhaseChange, MutexMoves DEF RWInv, TypeOK
    <2>4. CASE mutex = 0 /\ ~ReadUnlock(t)
      BY <1>1, <2>1, <2>4, StepSpinLockWorks, StepFieldsRight, MutexMoves
      DEF RWInv, TypeOK
    <2> QED
      BY <2>1, <2>2, <2>3, <2>4 DEF TypeOK
  <1>2. CASE UNCHANGED vars
    BY <1>2 DEF vars, RWInv, TypeOK, SpinLockWorks, FieldsRight, ReadersRemain,
                InSection, SetByMe, Counted
  <1> QED
    BY <1>1, <1>2 DEF Next

(* The two-phase invariant holds in every state. *)
THEOREM RWLockSafe == Spec => []RWInv
  BY InitInv, StepInv, PTL DEF Spec

(* A writer that rw_write_lock has let in is alone, for any number of       *)
(* readers and writers, although rw_read_unlock breaks the spin lock.       *)
THEOREM RWLockExclusion == Spec => []RWExclusion
  <1>1. RWInv => RWExclusion
    BY RolesAssumption
    DEF RWInv, TypeOK, FieldsRight, ReadersRemain, RWExclusion, Inside, SetByMe,
        Counted, Threads
  <1> QED
    BY <1>1, RWLockSafe, PTL

(* After the first rw_read_unlock no writer is ever inside again.           *)
THEOREM RWLockNoWriterAfterUnlock == Spec => []NoWriterAfterUnlock
  <1>1. RWInv => NoWriterAfterUnlock
    BY RolesAssumption
    DEF RWInv, ReadersRemain, NoWriterAfterUnlock, Inside, SetByMe
  <1> QED
    BY <1>1, RWLockSafe, PTL

============================================================================
