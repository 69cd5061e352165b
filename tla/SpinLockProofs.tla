--------------------------- MODULE SpinLockProofs --------------------------
(***************************************************************************)
(* Proofs about the spin lock and its exercise, for any finite number of   *)
(* threads and any number of iterations.                                   *)
(***************************************************************************)
EXTENDS SpinLock, FiniteSetTheorems, TLAPS

Pairs == Threads \X (0 .. ITERATIONS - 1)

LEMMA PairsFinite ==
    IsFiniteSet(Pairs) /\ Cardinality(Pairs) = Cardinality(Threads) * ITERATIONS
  <1>1. IsFiniteSet(0 .. ITERATIONS - 1)
        /\ Cardinality(0 .. ITERATIONS - 1) = ITERATIONS
    BY ITERATIONSAssumption, FS_Interval
  <1> QED
    BY <1>1, ThreadsAssumption, FS_Product DEF Pairs

LEMMA IncrementedFinite ==
    IsFiniteSet(Incremented) /\ Cardinality(Incremented) \in Nat
  <1>1. Incremented \in SUBSET Pairs
    BY DEF Incremented, Pairs
  <1> QED
    BY <1>1, PairsFinite, FS_Subset, FS_CardinalityType

LEMMA InitInv == Init => LockInv
  <1> SUFFICES ASSUME Init PROVE LockInv
    OBVIOUS
  <1>1. TypeOK
    BY ITERATIONSAssumption DEF Init, TypeOK
  <1>2. MutualExclusion /\ RegisterCurrent
    BY DEF Init, MutualExclusion, Holds, RegisterCurrent
  <1>3. Incremented = {}
    BY ITERATIONSAssumption DEF Init, Incremented
  <1> QED
    BY <1>1, <1>2, <1>3, FS_EmptySet DEF LockInv, Init

(* A step that neither stores nor ends an iteration leaves Incremented.     *)
LEMMA SameIncremented ==
    ASSUME TypeOK, NEW t \in Threads, NEW q,
           pc' = [pc EXCEPT ![t] = q], UNCHANGED i,
           pc[t] # "unlock", q # "unlock"
    PROVE  Incremented' = Incremented
  <1>1. \A u \in Threads : pc'[u] = "unlock" <=> pc[u] = "unlock"
    BY DEF TypeOK
  <1> QED
    BY <1>1 DEF Incremented

(* The holder's store adds its own pair. *)
LEMMA StoreIncrements ==
    ASSUME TypeOK, NEW t \in Threads, Store(t)
    PROVE  /\ <<t, i[t]>> \notin Incremented
           /\ Incremented' = Incremented \cup {<<t, i[t]>>}
  <1>1. i[t] \in 0 .. ITERATIONS - 1
    BY ITERATIONSAssumption DEF TypeOK, Store
  <1>2. <<t, i[t]>> \in Threads \X (0 .. ITERATIONS - 1)
    BY <1>1
  <1>3. <<t, i[t]>> \notin Incremented
    BY <1>1 DEF Incremented, Store, TypeOK
  <1>4. ASSUME NEW u \in Threads, NEW k \in 0 .. ITERATIONS - 1
        PROVE  <<u, k>> \in Incremented'
               <=> <<u, k>> \in Incremented \cup {<<t, i[t]>>}
    BY <1>1 DEF Incremented, Store, TypeOK
  <1>5. Incremented' \subseteq Threads \X (0 .. ITERATIONS - 1)
        /\ Incremented \subseteq Threads \X (0 .. ITERATIONS - 1)
    BY DEF Incremented
  <1> QED
    BY <1>2, <1>3, <1>4, <1>5

(* Ending an iteration keeps the pair the store has added. *)
LEMMA UnlockKeeps ==
    ASSUME TypeOK, NEW t \in Threads, Unlock(t)
    PROVE  Incremented' = Incremented
  <1>1. ASSUME NEW u \in Threads, NEW k \in 0 .. ITERATIONS - 1
        PROVE  <<u, k>> \in Incremented' <=> <<u, k>> \in Incremented
    <2>1. CASE u = t
      BY <2>1, ITERATIONSAssumption DEF Incremented, Unlock, TypeOK
    <2>2. CASE u # t
      BY <2>2 DEF Incremented, Unlock, TypeOK
    <2> QED
      BY <2>1, <2>2
  <1>2. Incremented' \subseteq Threads \X (0 .. ITERATIONS - 1)
        /\ Incremented \subseteq Threads \X (0 .. ITERATIONS - 1)
    BY DEF Incremented
  <1> QED
    BY <1>1, <1>2

(* LockInv is inductive: one step per action of ex3_fn. *)
LEMMA StepInv == LockInv /\ [Next]_vars => LockInv'
  <1> SUFFICES ASSUME LockInv, [Next]_vars PROVE LockInv'
    OBVIOUS
  <1> USE DEF LockInv
  <1>1. ASSUME NEW t \in Threads, Create(t) PROVE LockInv'
    <2>1. TypeOK' /\ MutualExclusion' /\ RegisterCurrent'
      BY <1>1 DEF Create, TypeOK, MutualExclusion, Holds, RegisterCurrent
    <2>2. Incremented' = Incremented
      BY <1>1, SameIncremented DEF Create
    <2> QED
      BY <1>1, <2>1, <2>2 DEF Create
  <1>2. ASSUME NEW t \in Threads, Start(t) PROVE LockInv'
    <2>1. TypeOK' /\ MutualExclusion' /\ RegisterCurrent'
      BY <1>2 DEF Start, TypeOK, MutualExclusion, Holds, RegisterCurrent
    <2>2. Incremented' = Incremented
      BY <1>2, SameIncremented DEF Start
    <2> QED
      BY <1>2, <2>1, <2>2 DEF Start
  <1>3. ASSUME NEW t \in Threads, Lock(t) PROVE LockInv'
    <2>1. free = 1 /\ free' = 0
      BY <1>3 DEF Lock, TypeOK, CompareAndSwap
    <2>2. TypeOK' /\ MutualExclusion' /\ RegisterCurrent'
      BY <1>3, <2>1 DEF Lock, TypeOK, MutualExclusion, Holds, RegisterCurrent
    <2>3. Incremented' = Incremented
      BY <1>3, SameIncremented DEF Lock
    <2> QED
      BY <1>3, <2>2, <2>3 DEF Lock
  <1>4. ASSUME NEW t \in Threads, Load(t) PROVE LockInv'
    <2>1. TypeOK' /\ MutualExclusion' /\ RegisterCurrent'
      BY <1>4 DEF Load, TypeOK, MutualExclusion, Holds, RegisterCurrent
    <2>2. Incremented' = Incremented
      BY <1>4, SameIncremented DEF Load
    <2> QED
      BY <1>4, <2>1, <2>2 DEF Load
  <1>5. ASSUME NEW t \in Threads, Store(t) PROVE LockInv'
    <2>1. global_value' = global_value + 1
      BY <1>5 DEF Store, RegisterCurrent
    <2>2. TypeOK' /\ MutualExclusion'
      BY <1>5, <2>1 DEF Store, TypeOK, MutualExclusion, Holds
    <2>3. RegisterCurrent'
      BY <1>5 DEF Store, TypeOK, RegisterCurrent, MutualExclusion, Holds
    <2>4. Cardinality(Incremented') = Cardinality(Incremented) + 1
      BY <1>5, StoreIncrements, IncrementedFinite, FS_AddElement
    <2> QED
      BY <2>1, <2>2, <2>3, <2>4
  <1>6. ASSUME NEW t \in Threads, Unlock(t) PROVE LockInv'
    <2>1. TypeOK'
      BY <1>6, ITERATIONSAssumption DEF Unlock, TypeOK
    <2>2. MutualExclusion' /\ RegisterCurrent'
      BY <1>6 DEF Unlock, TypeOK, MutualExclusion, Holds, RegisterCurrent
    <2>3. Incremented' = Incremented
      BY <1>6, UnlockKeeps
    <2> QED
      BY <1>6, <2>1, <2>2, <2>3 DEF Unlock
  <1>7. CASE UNCHANGED vars
    BY <1>7 DEF vars, TypeOK, MutualExclusion, Holds, RegisterCurrent, Incremented
  <1> QED
    BY <1>1, <1>2, <1>3, <1>4, <1>5, <1>6, <1>7 DEF Next, ex3_fn

(* Types, mutual exclusion, the holder's register and the count of          *)
(* increments hold in every state.                                          *)
THEOREM LockSafe == Spec => []LockInv
  BY InitInv, StepInv, PTL DEF Spec

(* The compare-and-swap loop and the plain store of spinlock_unlock give    *)
(* mutual exclusion for any number of threads.                              *)
THEOREM SpinLockMutualExclusion == Spec => []MutualExclusion
  <1>1. LockInv => MutualExclusion
    BY DEF LockInv
  <1> QED
    BY <1>1, LockSafe, PTL

(* No increment of ex3_fn is lost, and the driver's final comparison with   *)
(* ITERATIONS * num_threads succeeds.                                       *)
THEOREM SpinLockNoLostUpdate == Spec => []NoLostUpdate
  <1>1. LockInv => NoLostUpdate
    <2> SUFFICES ASSUME LockInv, \A t \in Threads : pc[t] = "done"
                 PROVE  global_value = Cardinality(Threads) * ITERATIONS
      BY DEF LockInv, NoLostUpdate
    <2>1. \A t \in Threads : i[t] = ITERATIONS
      BY DEF LockInv, TypeOK
    <2>2. Incremented = Pairs
      BY <2>1, ITERATIONSAssumption DEF Incremented, Pairs
    <2> QED
      BY <2>2, PairsFinite DEF LockInv
  <1> QED
    BY <1>1, LockSafe, PTL

============================================================================
