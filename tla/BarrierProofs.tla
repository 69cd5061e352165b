--------------------------- MODULE BarrierProofs ---------------------------
(***************************************************************************)
(* Proofs about barrier_wait and the barrier exercise, for any number of   *)
(* threads, any number of rounds and any width of int.                     *)
(***************************************************************************)
EXTENDS BarrierTest, FiniteSetTheorems, TLAPS

(* An int and its successor differ, also where the successor wraps around. *)
LEMMA IncChanges ==
    ASSUME NEW x \in Ints
    PROVE  Inc(x) \in Ints /\ Inc(x) # x
  BY IntModAssumption DEF Ints, Inc

(* init_count is the number of threads, at least one. *)
LEMMA CountType == init_count \in Nat /\ init_count >= 1
  <1>1. init_count \in Nat
    BY ThreadsAssumption, FS_CardinalityType DEF init_count
  <1>2. init_count # 0
    BY ThreadsAssumption, FS_EmptySet DEF init_count
  <1> QED
    BY <1>1, <1>2

(* The threads inside are finitely many. *)
LEMMA InsideFinite ==
    IsFiniteSet(Inside) /\ Cardinality(Inside) \in Nat
                        /\ Cardinality(Inside) <= init_count
  <1>1. Inside \in SUBSET Threads
    BY DEF Inside
  <1> QED
    BY <1>1, ThreadsAssumption, FS_Subset, FS_CardinalityType DEF init_count

----------------------------------------------------------------------------

LEMMA BarrierInitInv == BarrierInit => BarrierInv
  <1> SUFFICES ASSUME BarrierInit PROVE BarrierInv
    OBVIOUS
  <1>1. BarrierTypeOK
    BY IntModAssumption DEF BarrierInit, BarrierTypeOK, Ints, PCs
  <1>2. \A t \in Threads : Position(t)
    BY DEF BarrierInit, Position, Closing
  <1>3. OthersWait
    BY DEF BarrierInit, OthersWait, Closing
  <1>4. Inside = {}
    BY DEF BarrierInit, Inside
  <1>5. CountIsInside
    BY <1>4, FS_EmptySet DEF BarrierInit, CountIsInside
  <1> QED
    BY <1>1, <1>2, <1>3, <1>5 DEF BarrierInv

(* One more arrival: the threads inside are those before and t. *)
LEMMA ArriveInv ==
    ASSUME BarrierInv, NEW t \in Threads, Arrive(t)
    PROVE  BarrierInv'
  <1> USE DEF BarrierInv
  <1>1. /\ pc[t] = "arrive" /\ calls[t] = rounds + 1 /\ my_iter[t] = iterations
        /\ t \notin Inside
        /\ ~ \E u \in Threads : Closing(u)
    BY DEF Arrive, Position, OthersWait, Inside, Closing, BarrierTypeOK
  <1>2. cur_count = Cardinality(Inside)
    BY <1>1 DEF CountIsInside, Closing
  <1>3. pc' = [pc EXCEPT ![t] = IF cur_count = init_count - 1
                                THEN "reset" ELSE "spin"]
    BY DEF Arrive
  <1>4. Inside' = Inside \cup {t}
    BY <1>1, <1>3 DEF Arrive, Inside, BarrierTypeOK
  <1>5. cur_count' = Cardinality(Inside')
    BY <1>1, <1>2, <1>4, InsideFinite, FS_AddElement DEF Arrive
  <1>6. BarrierTypeOK'
    BY DEF Arrive, BarrierTypeOK, PCs
  <1>7. ASSUME NEW u \in Threads PROVE Position(u)'
    BY <1>1 DEF Arrive, Position, Closing, BarrierTypeOK
  <1>8. OthersWait'
    <2>1. CASE cur_count = init_count - 1
      <3>1. Cardinality(Inside') = Cardinality(Threads)
        BY <2>1, <1>2, <1>1, <1>4, InsideFinite, FS_AddElement, CountType, SMTT(20)
           DEF init_count
      <3>2. Inside' \in SUBSET Threads
        BY DEF Inside
      <3>3. Inside' = Threads
        BY <3>1, <3>2, ThreadsAssumption, FS_Subset
      <3>4. \A u \in Threads \ {t} : pc[u] = "spin" /\ calls[u] = rounds + 1
        BY <3>3, <1>4, <1>1 DEF Inside, Closing
      <3> QED
        BY <3>4, <1>1 DEF OthersWait, Arrive, Closing, BarrierTypeOK
    <2>2. CASE cur_count # init_count - 1
      BY <2>2, <1>1 DEF OthersWait, Arrive, Closing, BarrierTypeOK
    <2> QED
      BY <2>1, <2>2
  <1>9. CountIsInside'
    BY <1>1, <1>3, <1>5 DEF CountIsInside, Closing, BarrierTypeOK
  <1> QED
    BY <1>6, <1>7, <1>8, <1>9

(* The opening: every other thread waits, and all of them are released. *)
LEMMA StoreInv ==
    ASSUME BarrierInv, NEW t \in Threads, StoreIterations(t)
    PROVE  BarrierInv'
  <1> USE DEF BarrierInv
  <1>1. /\ pc[t] = "store" /\ calls[t] = rounds + 1 /\ loaded[t] = iterations
        /\ cur_count = 0
        /\ \A u \in Threads \ {t} : pc[u] = "spin" /\ calls[u] = rounds + 1
    BY DEF StoreIterations, Position, OthersWait, CountIsInside, Closing
  <1>2. iterations' = Inc(iterations) /\ Inc(iterations) \in Ints
    BY <1>1, IncChanges DEF StoreIterations, BarrierTypeOK
  <1>3. BarrierTypeOK'
    BY <1>2 DEF StoreIterations, BarrierTypeOK, PCs
  <1>4. ASSUME NEW u \in Threads PROVE Position(u)'
    <2>1. CASE u = t
      BY <2>1, <1>1 DEF StoreIterations, Position, Closing, BarrierTypeOK
    <2>2. CASE u # t
      <3>1. pc[u] = "spin" /\ calls[u] = rounds + 1 /\ my_iter[u] = iterations
        BY <2>2, <1>1 DEF Position, BarrierTypeOK
      <3> QED
        BY <3>1, <2>2, <1>2
           DEF StoreIterations, Position, Closing, BarrierTypeOK
    <2> QED
      BY <2>1, <2>2
  <1>5. \A u \in Threads : pc'[u] \in {"out", "spin"} /\ calls'[u] = rounds'
    BY <1>1 DEF StoreIterations, BarrierTypeOK
  <1>6. OthersWait'
    BY <1>5 DEF OthersWait, Closing
  <1>7. Inside' = {}
    BY <1>5, <1>3 DEF Inside, BarrierTypeOK
  <1>8. CountIsInside'
    BY <1>1, <1>5, <1>7, FS_EmptySet DEF StoreIterations, CountIsInside
  <1> QED
    BY <1>3, <1>4, <1>6, <1>8

(* BarrierInv is inductive: one step per action of barrier_wait. *)
LEMMA BarrierStepInv == BarrierInv /\ [BarrierNext]_bvars => BarrierInv'
  <1> SUFFICES ASSUME BarrierInv, [BarrierNext]_bvars PROVE BarrierInv'
    OBVIOUS
  <1> USE DEF BarrierInv
  <1>1. ASSUME NEW t \in Threads, Enter(t) PROVE BarrierInv'
    <2>1. pc[t] = "out" /\ calls[t] = rounds /\ returns[t] = rounds
          /\ ~ \E u \in Threads : Closing(u)
      BY <1>1 DEF Enter, Position, OthersWait, Closing, BarrierTypeOK
    <2>2. BarrierTypeOK'
      BY <1>1 DEF Enter, BarrierTypeOK, PCs
    <2>3. \A u \in Threads : Position(u)'
      BY <1>1, <2>1 DEF Enter, Position, Closing, BarrierTypeOK
    <2>4. OthersWait'
      BY <1>1, <2>1 DEF Enter, OthersWait, Closing, BarrierTypeOK
    <2>5. Inside' = Inside
      BY <1>1, <2>1 DEF Enter, Inside, BarrierTypeOK
    <2>6. CountIsInside'
      BY <1>1, <2>1, <2>5 DEF Enter, CountIsInside, Closing, BarrierTypeOK
    <2> QED
      BY <2>2, <2>3, <2>4, <2>6
  <1>2. ASSUME NEW t \in Threads, Arrive(t) PROVE BarrierInv'
    BY <1>2, ArriveInv
  <1>3. ASSUME NEW t \in Threads, Reset(t) PROVE BarrierInv'
    <2>1. BarrierTypeOK'
      BY <1>3 DEF Reset, BarrierTypeOK, PCs
    <2>2. \A u \in Threads : Position(u)'
      BY <1>3 DEF Reset, Position, Closing, BarrierTypeOK
    <2>3. OthersWait'
      BY <1>3 DEF Reset, OthersWait, Closing, BarrierTypeOK
    <2>4. CountIsInside'
      BY <1>3 DEF Reset, CountIsInside, BarrierTypeOK
    <2> QED
      BY <2>1, <2>2, <2>3, <2>4
  <1>4. ASSUME NEW t \in Threads, LoadIterations(t) PROVE BarrierInv'
    <2>1. BarrierTypeOK'
      BY <1>4 DEF LoadIterations, BarrierTypeOK, PCs
    <2>2. \A u \in Threads : Position(u)'
      BY <1>4 DEF LoadIterations, Position, Closing, BarrierTypeOK
    <2>3. OthersWait'
      BY <1>4 DEF LoadIterations, OthersWait, Closing, BarrierTypeOK
    <2>4. CountIsInside'
      BY <1>4 DEF LoadIterations, CountIsInside, BarrierTypeOK
    <2> QED
      BY <2>1, <2>2, <2>3, <2>4
  <1>5. ASSUME NEW t \in Threads, StoreIterations(t) PROVE BarrierInv'
    BY <1>5, StoreInv
  <1>6. ASSUME NEW t \in Threads, Spin(t) PROVE BarrierInv'
    <2>1. pc[t] = "spin" /\ calls[t] = rounds
          /\ ~ \E u \in Threads : Closing(u)
      BY <1>6, IncChanges DEF Spin, Position, OthersWait, Closing, BarrierTypeOK
    <2>2. BarrierTypeOK'
      BY <1>6 DEF Spin, BarrierTypeOK, PCs
    <2>3. \A u \in Threads : Position(u)'
      BY <1>6, <2>1 DEF Spin, Position, Closing, BarrierTypeOK
    <2>4. OthersWait'
      BY <1>6, <2>1 DEF Spin, OthersWait, Closing, BarrierTypeOK
    <2>5. Inside' = Inside
      BY <1>6, <2>1 DEF Spin, Inside, BarrierTypeOK
    <2>6. CountIsInside'
      BY <1>6, <2>1, <2>5 DEF Spin, CountIsInside, Closing, BarrierTypeOK
    <2> QED
      BY <2>2, <2>3, <2>4, <2>6
  <1>7. CASE UNCHANGED bvars
    BY <1>7 DEF bvars, BarrierTypeOK, Position, OthersWait, Closing,
                CountIsInside, Inside
  <1> QED
    BY <1>1, <1>2, <1>3, <1>4, <1>5, <1>6, <1>7 DEF BarrierNext, Wait

(* The counter, the saved round numbers and the threads' places agree in    *)
(* every state of every execution of barrier_wait.                          *)
THEOREM BarrierSafe == BarrierSpec => []BarrierInv
  BY BarrierInitInv, BarrierStepInv, PTL DEF BarrierSpec

----------------------------------------------------------------------------
(* Refinement: the steps that return are Return steps of the contract, the  *)
(* first load of a call is a Call step, and the rest are stuttering.        *)

LEMMA ContractInit == BarrierInit => Abstract!Init
  BY DEF BarrierInit, Abstract!Init

LEMMA ContractStep ==
    BarrierInv /\ [BarrierNext]_bvars => [Abstract!Next]_(Abstract!vars)
  <1> SUFFICES ASSUME BarrierInv, [BarrierNext]_bvars
               PROVE  [Abstract!Next]_(Abstract!vars)
    OBVIOUS
  <1> USE DEF BarrierInv
  <1>1. ASSUME NEW t \in Threads, Enter(t) PROVE Abstract!Call(t)
    BY <1>1 DEF Enter, Position, BarrierTypeOK, Abstract!Call
  <1>2. ASSUME NEW t \in Threads, StoreIterations(t) PROVE Abstract!Return(t)
    <2>1. pc[t] = "store" /\ calls[t] = rounds + 1 /\ calls[t] = returns[t] + 1
      BY <1>2 DEF StoreIterations, Position, Closing
    <2>2. \A u \in Threads : calls[u] = rounds + 1
      BY <2>1 DEF OthersWait, Closing
    <2> QED
      BY <1>2, <2>1, <2>2 DEF StoreIterations, BarrierTypeOK, Abstract!Return
  <1>3. ASSUME NEW t \in Threads, Spin(t) PROVE Abstract!Return(t)
    <2>1. pc[t] = "spin" /\ calls[t] = rounds /\ calls[t] = returns[t] + 1
      BY <1>3, IncChanges DEF Spin, Position, BarrierTypeOK
    <2>2. \A u \in Threads : calls[u] \in {rounds, rounds + 1}
      BY DEF Position, Closing, BarrierTypeOK, PCs
    <2> QED
      BY <1>3, <2>1, <2>2 DEF Spin, BarrierTypeOK, Abstract!Return
  <1>4. ASSUME NEW t \in Threads, Arrive(t) \/ Reset(t) \/ LoadIterations(t)
        PROVE  UNCHANGED Abstract!vars
    BY <1>4 DEF Arrive, Reset, LoadIterations, Abstract!vars
  <1>5. CASE UNCHANGED bvars
    BY <1>5 DEF bvars, Abstract!vars
  <1> QED
    BY <1>1, <1>2, <1>3, <1>4, <1>5 DEF BarrierNext, Wait, Abstract!Next

(* barrier_wait implements a reusable barrier: no thread leaves its k-th    *)
(* wait before every thread has entered its own k-th, whatever the          *)
(* interleaving of loads and stores and however often iterations wraps.     *)
THEOREM BarrierImplementsContract == BarrierSpec => BarrierContract
  <1>1. BarrierInit => Abstract!Init
    BY ContractInit
  <1>2. BarrierInv /\ [BarrierNext]_bvars => [Abstract!Next]_(Abstract!vars)
    BY ContractStep
  <1>3. BarrierSpec => []BarrierInv
    BY BarrierSafe
  <1> QED
    BY <1>1, <1>2, <1>3, PTL DEF BarrierSpec, BarrierContract, Abstract!Spec

----------------------------------------------------------------------------
(* The exercise of driver.c: global_value between the barriers. *)

LEMMA NumThreadsType == num_threads \in Nat
  BY ThreadsAssumption, FS_CardinalityType DEF num_threads

LEMMA AddedFinite == IsFiniteSet(Added) /\ Cardinality(Added) \in Nat
  <1>1. Added \in SUBSET Threads
    BY DEF Added
  <1> QED
    BY <1>1, ThreadsAssumption, FS_Subset, FS_CardinalityType

LEMMA TestInitInv == TestInit => TestInv
  <1> SUFFICES ASSUME TestInit PROVE TestInv
    OBVIOUS
  <1>1. BarrierInv
    BY BarrierInitInv DEF TestInit
  <1>2. TestTypeOK /\ \A t \in Threads : Script(t)
    BY DEF TestInit, BarrierInit, TestTypeOK, Script
  <1>3. rounds = 2 * 0 /\ global_value = num_threads * 0
    BY NumThreadsType DEF TestInit, BarrierInit
  <1>4. ValueInv
    BY <1>3 DEF ValueInv, TestInit, BarrierInit
  <1> QED
    BY <1>1, <1>2, <1>4 DEF TestInv

(* A step of ex2_fn is a step of the barrier or leaves the barrier alone. *)
LEMMA TestStepIsBarrierStep == [TestNext]_vars => [BarrierNext]_bvars
  BY DEF TestNext, vars, ex2_fn, Check, CallWait, InWait, AddOne, EndIteration,
         BarrierNext, Wait

(* A step that leaves rounds, global_value and Added alone keeps ValueInv. *)
LEMMA ValueFrame ==
    ASSUME ValueInv, UNCHANGED <<rounds, global_value>>, Added' = Added
    PROVE  ValueInv'
  BY DEF ValueInv, num_threads

(* Opening an even round starts the increments; opening an odd one ends     *)
(* them, when every thread has made its own.                                *)
LEMMA OpeningValue ==
    ASSUME TestInv, NEW t \in Threads, StoreIterations(t), UNCHANGED tvars
    PROVE  ValueInv'
  <1> USE DEF TestInv, BarrierInv
  <1>1. \A u \in Threads : pc[u] # "out" /\ calls[u] = rounds + 1
    BY DEF StoreIterations, Position, OthersWait, Closing
  <1>2. \A u \in Threads : \/ at[u] = "in1" /\ calls[u] = 2 * i[u] + 1
                           \/ at[u] = "in2" /\ calls[u] = 2 * i[u] + 2
    BY <1>1 DEF Script, TestTypeOK
  <1>3. Added' = Added /\ rounds' = rounds + 1 /\ global_value' = global_value
    BY DEF StoreIterations, tvars, Added
  <1>4. PICK k \in 0 .. rounds :
            \/ rounds = 2 * k /\ global_value = num_threads * k
            \/ rounds = 2 * k + 1
               /\ global_value = num_threads * k + Cardinality(Added)
    BY DEF ValueInv
  <1>5. CASE rounds = 2 * k /\ global_value = num_threads * k
    <2>1. \A u \in Threads : at[u] = "in1"
      BY <1>5, <1>4, <1>1, <1>2 DEF TestTypeOK, BarrierTypeOK
    <2>2. Cardinality(Added) = 0
      BY <2>1, FS_EmptySet DEF Added
    <2>3. /\ k \in 0 .. rounds'
          /\ rounds' = 2 * k + 1
          /\ global_value' = num_threads * k + Cardinality(Added')
      BY <2>2, <1>3, <1>4, <1>5, NumThreadsType DEF BarrierTypeOK, TestTypeOK
    <2> QED
      BY <2>3 DEF ValueInv, num_threads
  <1>6. CASE /\ rounds = 2 * k + 1
             /\ global_value = num_threads * k + Cardinality(Added)
    <2>1. \A u \in Threads : at[u] = "in2"
      BY <1>6, <1>4, <1>1, <1>2 DEF TestTypeOK, BarrierTypeOK
    <2>2. Added = Threads
      BY <2>1 DEF Added
    <2>3. num_threads * k + num_threads = num_threads * (k + 1)
      BY <1>4, NumThreadsType DEF BarrierTypeOK
    <2>4. /\ k + 1 \in 0 .. rounds'
          /\ rounds' = 2 * (k + 1)
          /\ global_value' = num_threads * (k + 1)
      BY <2>2, <2>3, <1>3, <1>4, <1>6 DEF BarrierTypeOK, num_threads
    <2> QED
      BY <2>4 DEF ValueInv, num_threads
  <1> QED
    BY <1>4, <1>5, <1>6

(* One more increment: t joins Added. *)
LEMMA AddOneValue ==
    ASSUME TestInv, NEW t \in Threads, AddOne(t)
    PROVE  ValueInv'
  <1> USE DEF TestInv, BarrierInv
  <1>1. t \notin Added /\ Added' = Added \cup {t}
    BY DEF AddOne, Added, TestTypeOK
  <1>2. Cardinality(Added') = Cardinality(Added) + 1
    BY <1>1, AddedFinite, FS_AddElement
  <1>3. rounds = 2 * i[t] + 1
    BY DEF AddOne, Script, Position
  <1>4. PICK k \in 0 .. rounds :
            \/ rounds = 2 * k /\ global_value = num_threads * k
            \/ rounds = 2 * k + 1
               /\ global_value = num_threads * k + Cardinality(Added)
    BY DEF ValueInv
  <1>5. /\ rounds = 2 * k + 1
        /\ global_value = num_threads * k + Cardinality(Added)
    BY <1>3, <1>4 DEF BarrierTypeOK, TestTypeOK
  <1>6. num_threads * k \in Nat
    BY <1>4, NumThreadsType DEF BarrierTypeOK
  <1>7. /\ rounds' = 2 * k + 1
        /\ global_value' = num_threads * k + Cardinality(Added')
    BY <1>2, <1>5, <1>6, AddedFinite DEF AddOne, bvars
  <1> QED
    BY <1>7, <1>4 DEF ValueInv, AddOne, bvars, num_threads

(* TestInv is inductive: one step per action of ex2_fn. *)
LEMMA TestStepInv == TestInv /\ [TestNext]_vars => TestInv'
  <1> SUFFICES ASSUME TestInv, [TestNext]_vars PROVE TestInv'
    OBVIOUS
  <1> USE DEF TestInv
  <1>0. BarrierInv'
    BY BarrierStepInv, TestStepIsBarrierStep
  <1>1. ASSUME NEW t \in Threads, Check(t) PROVE TestInv'
    <2>1. TestTypeOK' /\ \A u \in Threads : Script(u)'
      BY <1>1 DEF Check, TestTypeOK, Script, bvars
    <2>2. Added' = Added
      BY <1>1 DEF Check, Added, TestTypeOK
    <2> QED
      BY <1>0, <1>1, <2>1, <2>2, ValueFrame DEF Check, bvars
  <1>2. ASSUME NEW t \in Threads, CallWait(t) PROVE TestInv'
    <2>1. TestTypeOK'
      BY <1>2 DEF CallWait, TestTypeOK
    <2>2. \A u \in Threads : Script(u)'
      BY <1>2 DEF CallWait, Enter, TestTypeOK, Script, BarrierInv, BarrierTypeOK
    <2>3. Added' = Added
      BY <1>2 DEF CallWait, Added, TestTypeOK
    <2> QED
      BY <1>0, <1>2, <2>1, <2>2, <2>3, ValueFrame DEF CallWait, Enter
  <1>3. ASSUME NEW t \in Threads, InWait(t) PROVE TestInv'
    <2>1. TestTypeOK' /\ Added' = Added
      BY <1>3 DEF InWait, tvars, TestTypeOK, Added
    <2>2. pc[t] # "out" /\ calls' = calls
          /\ \E q \in PCs : pc' = [pc EXCEPT ![t] = q]
      BY <1>3 DEF InWait, Arrive, Reset, LoadIterations, StoreIterations, Spin, PCs
    <2>3. \A u \in Threads : Script(u)'
      BY <1>3, <2>2 DEF InWait, tvars, Script, TestTypeOK, BarrierInv, BarrierTypeOK
    <2>4. CASE StoreIterations(t)
      BY <1>0, <1>3, <2>1, <2>3, <2>4, OpeningValue DEF InWait
    <2>5. CASE ~StoreIterations(t)
      BY <1>0, <1>3, <2>1, <2>3, <2>5, ValueFrame
         DEF InWait, tvars, Arrive, Reset, LoadIterations, Spin
    <2> QED
      BY <2>4, <2>5
  <1>4. ASSUME NEW t \in Threads, AddOne(t) PROVE TestInv'
    <2>1. TestTypeOK' /\ \A u \in Threads : Script(u)'
      BY <1>4 DEF AddOne, TestTypeOK, Script, bvars
    <2> QED
      BY <1>0, <1>4, <2>1, AddOneValue
  <1>5. ASSUME NEW t \in Threads, EndIteration(t) PROVE TestInv'
    <2>1. TestTypeOK'
      BY <1>5 DEF EndIteration, TestTypeOK
    <2>2. ASSUME NEW u \in Threads PROVE Script(u)'
      <3>1. CASE u = t
        <4>1. /\ pc'[t] = "out" /\ calls'[t] = 2 * (i[t] + 1)
              /\ i'[t] = i[t] + 1 /\ at'[t] \in {"check", "done"}
          BY <1>5 DEF EndIteration, TestTypeOK, Script, bvars
        <4> QED
          BY <4>1, <3>1 DEF Script
      <3>2. CASE u # t
        BY <1>5, <3>2 DEF EndIteration, TestTypeOK, Script, bvars
      <3> QED
        BY <3>1, <3>2
    <2>3. rounds = 2 * (i[t] + 1)
      BY <1>5 DEF EndIteration, Script, Position, BarrierInv, TestTypeOK
    <2>4. ValueInv'
      BY <1>5, <2>3
         DEF ValueInv, EndIteration, bvars, BarrierInv, BarrierTypeOK,
             TestTypeOK, num_threads
    <2> QED
      BY <1>0, <2>1, <2>2, <2>4
  <1>6. CASE UNCHANGED vars
    <2>1. TestTypeOK' /\ Added' = Added /\ \A u \in Threads : Script(u)'
      BY <1>6 DEF vars, bvars, tvars, TestTypeOK, Script, Added
    <2> QED
      BY <1>0, <1>6, <2>1, ValueFrame DEF vars, bvars, tvars
  <1> QED
    BY <1>1, <1>2, <1>3, <1>4, <1>5, <1>6 DEF TestNext, ex2_fn

(* global_value is what the passed barriers imply, for any number of        *)
(* threads and iterations of ex2_fn.                                        *)
THEOREM TestSafe == TestSpec => []TestInv
  BY TestInitInv, TestStepInv, PTL DEF TestSpec

(* A thread that compares global_value with num_threads * i finds it equal. *)
LEMMA CheckSucceeds ==
    ASSUME TestInv, NEW t \in Threads, at[t] = "check"
    PROVE  global_value = num_threads * i[t]
  <1>1. rounds = 2 * i[t]
    BY DEF TestInv, BarrierInv, Script, Position
  <1> QED
    BY <1>1 DEF TestInv, ValueInv, BarrierInv, BarrierTypeOK, TestTypeOK

(* The barrier exercise of the driver never fails: for any number of        *)
(* threads and iterations, no ex2_fn sees a half-done round of increments.  *)
THEOREM TestNoError == TestSpec => []NoError
  <1>1. TestInit => NoError
    BY DEF TestInit, NoError
  <1>2. TestInv /\ NoError /\ [TestNext]_vars => NoError'
    <2> SUFFICES ASSUME TestInv, NoError, [TestNext]_vars PROVE NoError'
      OBVIOUS
    <2>1. ASSUME NEW t \in Threads, Check(t) PROVE NoError'
      BY <2>1, CheckSucceeds DEF Check, NoError, TestInv, TestTypeOK
    <2>2. CASE UNCHANGED ret
      BY <2>2 DEF NoError
    <2> QED
      BY <2>1, <2>2 DEF TestNext, ex2_fn, CallWait, InWait, AddOne, EndIteration,
                        vars, tvars
  <1> QED
    BY <1>1, <1>2, TestSafe, PTL DEF TestSpec

(* The exercise's use of the barrier keeps the barrier's contract too. *)
THEOREM TestImplementsContract == TestSpec => BarrierContract
  <1>1. TestSpec => BarrierSpec
    BY TestStepIsBarrierStep, PTL DEF TestSpec, TestInit, BarrierSpec
  <1> QED
    BY <1>1, BarrierImplementsContract

============================================================================
