---------------------------- MODULE PetMemProofs ----------------------------
(***************************************************************************)
(* Proofs about the page pools and the utility that fills them, for any    *)
(* memory, any number of blocks asked for, any requests and any number of  *)
(* runs: what is given is offline, the pools of a call partition it, and,  *)
(* while sysfs calls no block of the driver removable, no two pools and no *)
(* two callers have a page in common.                                      *)
(***************************************************************************)
EXTENDS PetMem, FiniteSetTheorems, WellFoundedInduction, TLAPS

----------------------------------------------------------------------------
(* Induction over the naturals, and functions defined by it.  A predicate   *)
(* is given as the set of numbers that satisfy it.                          *)

LEMMA SetInduction ==
    ASSUME NEW P \in SUBSET Nat, 0 \in P, \A n \in P : n + 1 \in P
    PROVE  P = Nat
  <1> SUFFICES ASSUME Nat \ P # {} PROVE FALSE
    OBVIOUS
  <1>1. PICK x \in Nat \ P : \A y \in Nat \ P : <<y, x>> \notin OpToRel(<, Nat)
    BY NatLessThanWellFounded, WFMin
  <1>2. \A y \in Nat \ P : ~(y < x)
    BY <1>1 DEF OpToRel
  <1>3. x # 0 /\ x - 1 \in Nat /\ x - 1 < x
    OBVIOUS
  <1>4. x - 1 \in P
    BY <1>2, <1>3
  <1>5. (x - 1) + 1 = x
    OBVIOUS
  <1> QED
    BY <1>4, <1>5

(* g is the iteration of step from x0, up to n *)
IteratesTo(S, x0, step, g, n) ==
    /\ g \in [0 .. n -> S] /\ g[0] = x0
    /\ \A m \in 0 .. n - 1 : g[m + 1] = step[g[m]]

Iterates(f, S, x0, step) ==
    /\ f \in [Nat -> S] /\ f[0] = x0
    /\ \A n \in Nat : f[n + 1] = step[f[n]]

LEMMA Iteration ==
    ASSUME NEW S, NEW x0 \in S, NEW step \in [S -> S]
    PROVE  \E f : Iterates(f, S, x0, step)
  <1>1. ASSUME NEW n \in Nat, NEW k \in Nat, NEW g, NEW h, n <= k,
               IteratesTo(S, x0, step, g, n), IteratesTo(S, x0, step, h, k)
        PROVE  \A m \in 0 .. n : g[m] = h[m]
    <2> DEFINE P == {m \in Nat : m <= n => g[m] = h[m]}
    <2>1. 0 \in P
      BY <1>1 DEF IteratesTo
    <2>2. ASSUME NEW m \in P PROVE m + 1 \in P
      BY <1>1, <2>2 DEF IteratesTo
    <2>3. P = Nat
      <3>1. P \in SUBSET Nat
        OBVIOUS
      <3> HIDE DEF P
      <3> QED
        BY <2>1, <2>2, <3>1, SetInduction
    <2> QED
      BY <2>3
  <1>2. \A n \in Nat : \E g : IteratesTo(S, x0, step, g, n)
    <2> DEFINE P == {n \in Nat : \E g : IteratesTo(S, x0, step, g, n)}
    <2>1. 0 \in P
      <3>1. IteratesTo(S, x0, step, [m \in 0 .. 0 |-> x0], 0)
        BY DEF IteratesTo
      <3> QED
        BY <3>1
    <2>2. ASSUME NEW n \in P PROVE n + 1 \in P
      <3>1. PICK g : IteratesTo(S, x0, step, g, n)
        BY <2>2
      <3> DEFINE h == [m \in 0 .. n + 1 |-> IF m <= n THEN g[m] ELSE step[g[n]]]
      <3>2. h \in [0 .. n + 1 -> S] /\ h[0] = x0
        BY <3>1 DEF IteratesTo
      <3>3. ASSUME NEW m \in 0 .. (n + 1) - 1 PROVE h[m + 1] = step[h[m]]
        BY <3>1 DEF IteratesTo
      <3> HIDE DEF h
      <3>4. IteratesTo(S, x0, step, h, n + 1)
        BY <3>2, <3>3 DEF IteratesTo
      <3> QED
        BY <3>4
    <2>3. P = Nat
      <3>1. P \in SUBSET Nat
        OBVIOUS
      <3> HIDE DEF P
      <3> QED
        BY <2>1, <2>2, <3>1, SetInduction
    <2> QED
      BY <2>3
  <1> DEFINE G(n) == CHOOSE g : IteratesTo(S, x0, step, g, n)
             f == [n \in Nat |-> G(n)[n]]
  <1>3. \A n \in Nat : IteratesTo(S, x0, step, G(n), n)
    BY <1>2
  <1> HIDE DEF G
  <1>4. f \in [Nat -> S] /\ f[0] = x0
    BY <1>3 DEF IteratesTo
  <1>5. ASSUME NEW n \in Nat PROVE f[n + 1] = step[f[n]]
    <2>1. G(n + 1)[n] = G(n)[n]
      <3>1. n + 1 \in Nat /\ n <= n + 1 /\ n \in 0 .. n
        OBVIOUS
      <3> QED
        BY <1>1, <1>3, <3>1
    <2>2. G(n + 1)[n + 1] = step[G(n + 1)[n]]
      BY <1>3 DEF IteratesTo
    <2> QED
      BY <2>1, <2>2
  <1> HIDE DEF f
  <1>6. Iterates(f, S, x0, step)
    BY <1>4, <1>5 DEF Iterates
  <1> QED
    BY <1>6

----------------------------------------------------------------------------
(* Powers of two, and the orders that the driver computes. *)

LEMMA Pow2Equation ==
    /\ Pow2[0] = 1
    /\ \A n \in Nat : Pow2[n + 1] = 2 * Pow2[n]
  <1> DEFINE step == [x \in Nat |-> 2 * x]
             Entry(w, n) == IF n = 0 THEN 1 ELSE 2 * w[n - 1]
  <1>1. step \in [Nat -> Nat] /\ 1 \in Nat
    OBVIOUS
  <1>2. PICK g : Iterates(g, Nat, 1, step)
    <2> HIDE DEF step
    <2> QED
      BY <1>1, Iteration
  <1>3. g = [n \in Nat |-> Entry(g, n)]
    <2>1. g \in [Nat -> Nat] /\ g[0] = 1
      BY <1>2 DEF Iterates
    <2>2. ASSUME NEW n \in Nat PROVE g[n] = Entry(g, n)
      <3>1. CASE n = 0
        BY <2>1, <3>1
      <3>2. CASE n # 0
        <4>1. n - 1 \in Nat /\ (n - 1) + 1 = n
          BY <3>2
        <4>2. g[(n - 1) + 1] = step[g[n - 1]] /\ g[n - 1] \in Nat
          BY <1>2, <4>1 DEF Iterates
        <4> QED
          BY <3>2, <4>1, <4>2
      <3> QED
        BY <3>1, <3>2
    <2> HIDE DEF Entry
    <2> QED
      BY <2>1, <2>2
  <1>4. Pow2 = [n \in Nat |-> Entry(Pow2, n)]
    BY <1>3, Zenon DEF Pow2
  <1>5. \A n \in Nat : Pow2[n] = Entry(Pow2, n)
    <2> HIDE DEF Entry
    <2> QED
      BY <1>4, Zenon
  <1>6. Pow2[0] = 1
    BY <1>5
  <1>7. ASSUME NEW n \in Nat PROVE Pow2[n + 1] = 2 * Pow2[n]
    <2>1. n + 1 \in Nat /\ n + 1 # 0 /\ (n + 1) - 1 = n
      OBVIOUS
    <2> QED
      BY <1>5, <2>1
  <1> QED
    BY <1>6, <1>7

LEMMA Pow2Grows == \A n \in Nat : Pow2[n] \in Nat /\ n < Pow2[n]
  <1> DEFINE P == {n \in Nat : Pow2[n] \in Nat /\ n < Pow2[n]}
  <1>1. 0 \in P
    BY Pow2Equation
  <1>2. ASSUME NEW n \in P PROVE n + 1 \in P
    <2>1. Pow2[n + 1] = 2 * Pow2[n] /\ n \in Nat /\ Pow2[n] \in Nat /\ n < Pow2[n]
      BY Pow2Equation
    <2> QED
      BY <2>1
  <1>3. P = Nat
    <2>1. P \in SUBSET Nat
      OBVIOUS
    <2> HIDE DEF P
    <2> QED
      BY <1>1, <1>2, <2>1, SetInduction
  <1> QED
    BY <1>3

LEMMA LeastExists ==
    ASSUME NEW S \in SUBSET Nat, S # {}
    PROVE  \E x \in S : \A y \in S : x <= y
  <1>1. PICK x \in S : \A y \in S : <<y, x>> \notin OpToRel(<, Nat)
    BY NatLessThanWellFounded, WFMin
  <1>2. \A y \in S : ~(y < x)
    BY <1>1 DEF OpToRel
  <1> QED
    BY <1>2

LEMMA Min2IsLeast ==
    ASSUME NEW S \in SUBSET Nat, S # {}
    PROVE  Min2(S) \in S /\ \A y \in S : Min2(S) <= y
  BY LeastExists DEF Min2

LEMMA GreatestExists ==
    ASSUME NEW n \in Nat, NEW S \in SUBSET (0 .. n), S # {}
    PROVE  \E x \in S : \A y \in S : y <= x
  <1> DEFINE T == {k \in 0 .. n : n - k \in S}
  <1>1. PICK s \in S : TRUE
    OBVIOUS
  <1>2. n - s \in 0 .. n /\ n - (n - s) = s
    OBVIOUS
  <1>3. n - s \in T
    BY <1>1, <1>2
  <1>4. PICK z \in T : \A y \in T : z <= y
    <2>1. T \in SUBSET Nat
      OBVIOUS
    <2> HIDE DEF T
    <2> QED
      BY <1>3, <2>1, LeastExists
  <1>5. ASSUME NEW y \in S PROVE y <= n - z
    <2>1. n - y \in 0 .. n /\ n - (n - y) = y
      OBVIOUS
    <2>2. n - y \in T
      BY <2>1
    <2>3. z <= n - y
      BY <1>4, <2>2
    <2> QED
      BY <1>4, <2>3
  <1> QED
    BY <1>4, <1>5

(* ADD_MEMORY's order: the pool it makes is not larger than the range. *)
LEMMA PoolFits ==
    ASSUME NEW n \in Nat \ {0}
    PROVE  /\ fls(n) - 1 \in Nat
           /\ Pow2[fls(n) - 1] \in Nat \ {0} /\ Pow2[fls(n) - 1] <= n
  <1> DEFINE B == {b \in 1 .. n : n < Pow2[b]}
             m == Min2(B)
  <1>1. B \in SUBSET Nat /\ n \in B
    BY Pow2Grows
  <1>2. m \in B /\ \A y \in B : m <= y
    <2> HIDE DEF B
    <2> QED
      BY <1>1, Min2IsLeast
  <1>3. fls(n) = m
    BY DEF fls
  <1>4. m \in 1 .. n /\ m - 1 \in Nat /\ Pow2[m - 1] \in Nat /\ m - 1 < Pow2[m - 1]
    BY <1>2, Pow2Grows
  <1>5. m - 1 \notin B
    BY <1>2, <1>4
  <1> HIDE DEF m
  <1>6. Pow2[m - 1] <= n
    <2>1. CASE m = 1
      <3>1. m - 1 = 0
        BY <2>1
      <3> QED
        BY <3>1, Pow2Equation
    <2>2. CASE m # 1
      <3>1. m - 1 \in 1 .. n
        BY <1>4, <2>2
      <3> QED
        BY <1>4, <1>5, <3>1
    <2> QED
      BY <2>1, <2>2
  <1> QED
    BY <1>3, <1>4, <1>6

(* get_order rounds up. *)
LEMMA OrderFits ==
    ASSUME NEW n \in Nat
    PROVE  get_order(n) \in Nat /\ n <= Pow2[get_order(n)]
  <1> DEFINE B == {o \in 0 .. n : n <= Pow2[o]}
  <1>1. B \in SUBSET Nat /\ n \in B
    BY Pow2Grows
  <1>2. Min2(B) \in B
    <2> HIDE DEF B
    <2> QED
      BY <1>1, Min2IsLeast
  <1> QED
    BY <1>2 DEF get_order

----------------------------------------------------------------------------
(* The search of the utility. *)

(* A scan whose clear bits end at k, or that has met none, has counted the  *)
(* blocks behind it.                                                        *)
LEMMA RunBehind ==
    ASSUME NEW n \in Nat, NEW k \in -1 .. n, k = -1 \/ k \notin bitmap,
           k + 1 .. n \subseteq bitmap
    PROVE  Cardinality(RunAt(n)) = n - k
  <1>1. RunAt(n) = k + 1 .. n
    <2>1. ASSUME NEW b \in RunAt(n) PROVE b \in k + 1 .. n
      <3>1. b \in 0 .. n /\ b .. n \subseteq bitmap
        BY DEF RunAt
      <3>2. CASE k \in b .. n
        BY <3>1, <3>2
      <3> QED
        BY <3>1, <3>2
    <2>2. ASSUME NEW b \in k + 1 .. n PROVE b \in RunAt(n)
      BY DEF RunAt
    <2> QED
      BY <2>1, <2>2
  <1>2. k + 1 \in Int /\ n \in Int
    OBVIOUS
  <1>3. Cardinality(k + 1 .. n) = IF k + 1 > n THEN 0 ELSE n - (k + 1) + 1
    BY <1>2, FS_Interval
  <1> QED
    BY <1>1, <1>3

(* When the first blocks are all removable, the scan breaks there. *)
LEMMA FirstBlocksBreak ==
    ASSUME bitmap \subseteq Blocks, num_blocks > 0, 0 .. num_blocks - 1 \subseteq bitmap
    PROVE  num_blocks - 1 \in Breaks
  <1> DEFINE n == num_blocks - 1
  <1>1. n \in Nat /\ -1 \in -1 .. n /\ (-1) + 1 .. n \subseteq bitmap /\ num_blocks \in Nat
    BY BlocksAssumption
  <1>2. Cardinality(RunAt(n)) = n - (-1)
    <2> HIDE DEF n
    <2> QED
      BY <1>1, RunBehind
  <1>3. n \in bitmap /\ n \in Blocks
    BY <1>1
  <1> QED
    BY <1>1, <1>2, <1>3 DEF Breaks

(* The first break of a scan names a region that is removable, although     *)
(* reg_start may be from an earlier scan.                                   *)
LEMMA ScanFinds ==
    ASSUME SearchInv, NEW n \in Breaks, \A m \in Breaks : n <= m
    PROVE  /\ RegStart(n) \in Nat
           /\ RegStart(n) .. RegStart(n) + num_blocks - 1 \subseteq bitmap
           /\ num_blocks > 0 /\ 0 .. num_blocks - 1 \subseteq bitmap => RegStart(n) = 0
  <1> DEFINE clear == (0 .. n) \ bitmap
  <1>1. /\ n \in Nat /\ n \in bitmap /\ n <= bitmap_entries - 1 /\ reg_start \in Nat
        /\ num_blocks \in Nat /\ bitmap_entries \in Nat /\ Cardinality(RunAt(n)) >= num_blocks
    BY BlocksAssumption DEF Breaks, Blocks, SearchInv
  <1>2. CASE clear = {}
    <2>1. RegStart(n) = reg_start
      BY <1>2 DEF RegStart
    <2>2. 0 .. n \subseteq bitmap
      BY <1>2
    <2>3. -1 \in -1 .. n /\ (-1) + 1 .. n \subseteq bitmap
      BY <1>1, <2>2
    <2>4. Cardinality(RunAt(n)) = n - (-1)
      BY <1>1, <2>3, RunBehind
    <2>5. num_blocks <= n + 1
      BY <1>1, <2>4
    <2>6. 0 .. num_blocks - 1 \subseteq bitmap
      BY <1>1, <2>2, <2>5
    <2>7. num_blocks > 0 => reg_start = 0
      BY <2>6 DEF SearchInv
    <2> QED
      BY <1>1, <2>1, <2>6, <2>7
  <1>3. CASE clear # {}
    <2>1. clear \in SUBSET (0 .. n)
      OBVIOUS
    <2>2. PICK l \in clear : \A c \in clear : c <= l
      <3> HIDE DEF clear
      <3> QED
        BY <1>1, <1>3, <2>1, GreatestExists
    <2> DEFINE k == CHOOSE b \in clear : \A c \in clear : c <= b
    <2>3. k \in clear /\ \A c \in clear : c <= k
      <3> HIDE DEF clear
      <3> QED
        BY <2>2
    <2>4. RegStart(n) = k + 1
      BY <1>3 DEF RegStart
    <2> HIDE DEF k
    <2>5. k \in 0 .. n /\ k \notin bitmap /\ k \in -1 .. n
      BY <1>1, <2>3
    <2>6. k + 1 .. n \subseteq bitmap
      <3> SUFFICES ASSUME NEW b \in k + 1 .. n, b \notin bitmap PROVE FALSE
        OBVIOUS
      <3>1. b \in clear
        BY <1>1, <2>5
      <3> QED
        BY <1>1, <2>3, <2>5, <3>1
    <2>7. Cardinality(RunAt(n)) = n - k
      BY <1>1, <2>5, <2>6, RunBehind
    <2>8. num_blocks <= n - k
      BY <1>1, <2>7
    <2>9. k + 1 .. k + 1 + num_blocks - 1 \subseteq bitmap
      BY <1>1, <2>5, <2>6, <2>8
    <2>10. ~ (num_blocks > 0 /\ 0 .. num_blocks - 1 \subseteq bitmap)
      <3> SUFFICES ASSUME num_blocks > 0, 0 .. num_blocks - 1 \subseteq bitmap PROVE FALSE
        OBVIOUS
      <3>1. num_blocks - 1 \in Breaks
        BY FirstBlocksBreak DEF SearchInv
      <3>2. n <= num_blocks - 1
        BY <3>1
      <3> QED
        BY <1>1, <2>5, <3>2
    <2> QED
      BY <1>1, <2>4, <2>5, <2>9, <2>10
  <1> QED
    BY <1>2, <1>3

(* Every step of the utility keeps what it knows. *)
LEMMA SearchSteps ==
    ASSUME SearchInv, Next
    PROVE  SearchInv'
  <1> USE BlocksAssumption
  <1>1. CASE Scan
    <2> DEFINE n == CHOOSE n \in Breaks : \A m \in Breaks : n <= m
    <2>1. Breaks \in SUBSET Nat /\ Breaks # {}
      BY <1>1 DEF Breaks, Blocks, Scan
    <2>2. n \in Breaks /\ \A m \in Breaks : n <= m
      <3>1. \E x \in Breaks : \A m \in Breaks : x <= m
        BY <2>1, LeastExists
      <3> QED
        BY <3>1
    <2>3. reg_start' = RegStart(n)
      BY <1>1 DEF Scan
    <2> HIDE DEF n
    <2>4. /\ RegStart(n) \in Nat
          /\ RegStart(n) .. RegStart(n) + num_blocks - 1 \subseteq bitmap
          /\ num_blocks > 0 /\ 0 .. num_blocks - 1 \subseteq bitmap => RegStart(n) = 0
      BY <2>2, ScanFinds
    <2>5. /\ phase' = "offline" /\ i' = 0 /\ bitmap' = bitmap /\ j' = j
      BY <1>1 DEF Scan
    <2> HIDE DEF RegStart
    <2>6. Region' = RegStart(n) .. RegStart(n) + num_blocks - 1
      BY <2>3 DEF Region
    <2> QED
      BY <2>3, <2>4, <2>5, <2>6 DEF SearchInv
  <1>2. CASE ScanFails
    <2>1. RegStart(bitmap_entries - 1) \in Nat
      <3> DEFINE clear == (0 .. bitmap_entries - 1) \ bitmap
      <3>1. CASE clear = {}
        BY <3>1 DEF RegStart, SearchInv
      <3>2. CASE clear # {}
        <4>1. bitmap_entries - 1 \in Nat /\ clear \in SUBSET (0 .. bitmap_entries - 1)
          BY <3>2
        <4>2. \E b \in clear : \A c \in clear : c <= b
          <5> HIDE DEF clear
          <5> QED
            BY <3>2, <4>1, GreatestExists
        <4> DEFINE k == CHOOSE b \in clear : \A c \in clear : c <= b
        <4>3. k \in clear
          <5> HIDE DEF clear
          <5> QED
            BY <4>2
        <4>4. RegStart(bitmap_entries - 1) = k + 1
          BY <3>2 DEF RegStart
        <4> HIDE DEF k
        <4> QED
          BY <4>1, <4>3, <4>4
      <3> QED
        BY <3>1, <3>2
    <2>2. ~ (num_blocks > 0 /\ 0 .. num_blocks - 1 \subseteq bitmap)
      BY <1>2, FirstBlocksBreak DEF ScanFails, SearchInv
    <2>3. /\ reg_start' = RegStart(bitmap_entries - 1) /\ bitmap' = bitmap /\ i' = 0 /\ j' = j
          /\ phase' = "failed" \/ (phase' = "offline" /\ num_blocks = 0)
      BY <1>2 DEF ScanFails
    <2> QED
      BY <2>1, <2>2, <2>3 DEF SearchInv, Region
  <1>3. CASE OfflineBlock
    BY <1>3 DEF OfflineBlock, SearchInv, Region
  <1>4. CASE OfflineDone
    BY <1>4 DEF OfflineDone, SearchInv, Region
  <1>5. CASE CheckBlock
    <2>1. CASE reg_start + i \in online
      <3>1. /\ bitmap' = bitmap \ {reg_start + i} /\ phase' = "online" /\ j' = 0 /\ i' = i
            /\ reg_start' = reg_start /\ phase = "check" /\ i < num_blocks
        BY <1>5, <2>1 DEF CheckBlock
      <3>2. ASSUME NEW k \in 0 .. i - 1 PROVE reg_start + k \in bitmap'
        <4>1. reg_start + k \in Region /\ reg_start + k # reg_start + i
          BY <3>1 DEF Region, SearchInv
        <4> QED
          BY <3>1, <4>1 DEF SearchInv
      <3> QED
        BY <3>1, <3>2 DEF SearchInv
    <2>2. CASE reg_start + i \notin online
      BY <1>5, <2>2 DEF CheckBlock, SearchInv, Region
    <2> QED
      BY <2>1, <2>2
  <1>6. CASE OnlineBlock
    BY <1>6 DEF OnlineBlock, SearchInv, Region
  <1>7. CASE Again
    BY <1>7 DEF Again, SearchInv, Region
  <1>8. CASE AddMemory
    <2>1. /\ phase = "check" /\ i = num_blocks /\ phase' = "given"
          /\ UNCHANGED <<online, bitmap, reg_start, i, j>>
      BY <1>8 DEF AddMemory
    <2>2. Region \cap online = {}
      <3> SUFFICES ASSUME NEW b \in Region, b \in online PROVE FALSE
        OBVIOUS
      <3>1. b - reg_start \in 0 .. i - 1 /\ reg_start + (b - reg_start) = b
        BY <2>1 DEF Region, SearchInv
      <3> QED
        BY <2>1, <3>1 DEF SearchInv
    <2> QED
      BY <2>1, <2>2 DEF SearchInv, Region
  <1>9. CASE OpenFails
    BY <1>9 DEF OpenFails, SearchInv, Region
  <1> QED
    BY <1>1, <1>2, <1>3, <1>4, <1>5, <1>6, <1>7, <1>8, <1>9 DEF Next, Search

(* A step that is not its own *)
LEMMA SearchStutters ==
    ASSUME SearchInv, UNCHANGED vars
    PROVE  SearchInv'
  BY DEF SearchInv, Region, vars

----------------------------------------------------------------------------
(* Pages and memory blocks. *)

LEMMA TimesMonotone ==
    ASSUME NEW a \in Int, NEW b \in Int, NEW d \in Nat, a <= b
    PROVE  a * d <= b * d
  OBVIOUS

LEMMA Quotient ==
    ASSUME NEW x \in Nat, NEW d \in Nat \ {0}, NEW q \in Int
    PROVE  (x \div d = q) <=> (q * d <= x /\ x < (q + 1) * d)
  OBVIOUS

(* x is in the blocks a .. b - 1 of d pages each *)
LEMMA QuotientBetween ==
    ASSUME NEW x \in Nat, NEW d \in Nat \ {0}, NEW a \in Nat, NEW b \in Nat
    PROVE  x \div d \in a .. b - 1 <=> (a * d <= x /\ x < b * d)
  <1> DEFINE q == x \div d
  <1>1. q \in Int
    OBVIOUS
  <1>2. q * d <= x /\ x < (q + 1) * d
    <2>1. q = q
      OBVIOUS
    <2> QED
      BY <1>1, <2>1, Quotient
  <1> HIDE DEF q
  <1>3. a <= q => a * d <= q * d
    BY <1>1, TimesMonotone
  <1>4. q + 1 <= a => (q + 1) * d <= a * d
    BY <1>1, TimesMonotone
  <1>5. q + 1 <= b => (q + 1) * d <= b * d
    BY <1>1, TimesMonotone
  <1>6. b <= q => b * d <= q * d
    BY <1>1, TimesMonotone
  <1>7. a * d \in Int /\ b * d \in Int /\ q * d \in Int /\ (q + 1) * d \in Int
    BY <1>1
  <1>8. q \in a .. b - 1 <=> (a * d <= x /\ x < b * d)
    BY <1>1, <1>2, <1>3, <1>4, <1>5, <1>6, <1>7
  <1> QED
    BY <1>8 DEF q

(* The pages that the ioctl names are those of the blocks of the region. *)
LEMMA RegionPages ==
    ASSUME NEW a \in Nat, NEW c \in Nat, a + c <= bitmap_entries, NEW page \in Int
    PROVE  page \in PagesFrom(__va(a * BlockPages), c * BlockPages)
              <=> page \in AllPages /\ BlockOf(page) \in a .. a + c - 1
  <1> DEFINE d == BlockPages
             x == page - PAGE_OFFSET
  <1>1. /\ d \in Nat \ {0} /\ PAGE_OFFSET \in Nat /\ bitmap_entries \in Nat
        /\ x \in Int /\ a + c \in Nat /\ x + PAGE_OFFSET = page
    BY PagesAssumption, BlocksAssumption
  <1> HIDE DEF d, x
  <1>2. a * d \in Nat /\ c * d \in Nat /\ bitmap_entries * d \in Nat /\ (a + c) * d = a * d + c * d
    BY <1>1
  <1>3. (a + c) * d <= bitmap_entries * d
    BY <1>1, TimesMonotone
  <1>4. page \in AllPages <=> 0 <= x /\ x < bitmap_entries * d
    BY <1>1, <1>2 DEF AllPages, PagesFrom, d
  <1>5. page \in PagesFrom(__va(a * d), c * d) <=> a * d <= x /\ x < (a + c) * d
    BY <1>1, <1>2 DEF PagesFrom, __va
  <1>6. 0 <= x => (x \div d \in a .. (a + c) - 1 <=> a * d <= x /\ x < (a + c) * d)
    BY <1>1, QuotientBetween
  <1>7. BlockOf(page) = x \div d /\ (a + c) - 1 = a + c - 1
    BY DEF BlockOf, x, d
  <1>8. page \in PagesFrom(__va(a * d), c * d)
              <=> page \in AllPages /\ x \div d \in a .. (a + c) - 1
    BY <1>1, <1>2, <1>3, <1>4, <1>5, <1>6
  <1> QED
    BY <1>7, <1>8 DEF d

----------------------------------------------------------------------------
(* What the invariant says of pools and of the blocks held of them. *)

LEMMA MemInvParts ==
    ASSUME MemInv
    PROVE  /\ SearchInv /\ MemTypeOK /\ BlocksApart /\ HandedRight
           /\ \A k \in DOMAIN given : Tiled(k)
           /\ \A n \in DOMAIN petmem_pool_list : HeldRight(petmem_pool_list[n])
  BY DEF MemInv

(* A pool lies in the pages of its call, and so in memory. *)
LEMMA PoolIn ==
    ASSUME MemInv, NEW n \in DOMAIN petmem_pool_list
    PROVE  /\ petmem_pool_list[n] \in Pools /\ petmem_pool_list[n].call \in DOMAIN given
           /\ Pow2[petmem_pool_list[n].order] \in Nat \ {0}
           /\ PoolPages(n) \subseteq PagesGiven(petmem_pool_list[n].call)
           /\ PoolPages(n) \subseteq AllPages
           /\ petmem_pool_list[n].base_addr >= PAGE_OFFSET
  <1> DEFINE pool == petmem_pool_list[n]
             k == pool.call
  <1>1. pool \in Pools /\ k \in DOMAIN given /\ Tiled(k)
    BY MemInvParts DEF MemTypeOK
  <1>2. n \in PoolsOf(k)
    BY DEF PoolsOf
  <1>3. PoolPages(n) \subseteq PagesGiven(k) /\ PagesGiven(k) \subseteq AllPages
    BY <1>1, <1>2 DEF Tiled, PagesGiven
  <1>4. /\ pool.base_addr \in Int /\ pool.order \in Nat
        /\ Pow2[pool.order] \in Nat /\ Pow2[pool.order] > 0
    BY <1>1, Pow2Grows DEF Pools
  <1>5. pool.base_addr \in PoolPages(n)
    BY <1>4 DEF PoolPages, PagesOf, PagesFrom
  <1>6. pool.base_addr >= PAGE_OFFSET
    BY <1>3, <1>4, <1>5, PagesAssumption, BlocksAssumption DEF AllPages, PagesFrom
  <1> QED
    BY <1>1, <1>3, <1>4, <1>6

(* Blocks held of a pool lie in it. *)
LEMMA HeldIn ==
    ASSUME MemInv, NEW n \in DOMAIN petmem_pool_list, NEW b \in petmem_pool_list[n].held
    PROVE  Held(n, b) \subseteq PoolPages(n)
  <1> DEFINE pool == petmem_pool_list[n]
  <1>1. pool \in Pools /\ HeldRight(pool)
    BY PoolIn, MemInvParts
  <1>2. /\ pool.base_addr \in Int /\ pool.order \in Nat /\ b.addr \in Nat /\ b.order \in Nat
        /\ b.addr + Pow2[b.order] <= Pow2[pool.order]
    BY <1>1 DEF Pools, PoolBlock, HeldRight
  <1>3. Pow2[b.order] \in Nat /\ Pow2[pool.order] \in Nat
    BY <1>2, Pow2Grows
  <1>4. PagesFrom(pool.base_addr + b.addr, Pow2[b.order]) \subseteq
           PagesFrom(pool.base_addr, Pow2[pool.order])
    <2> HIDE DEF pool
    <2> QED
      BY <1>2, <1>3 DEF PagesFrom
  <1> QED
    BY <1>4 DEF Held, PoolPages, PagesOf

(* While sysfs is right, pools do not overlap. *)
LEMMA Apart ==
    ASSUME MemInv, trusted, NEW m \in DOMAIN petmem_pool_list,
           NEW n \in DOMAIN petmem_pool_list, m # n
    PROVE  PoolPages(m) \cap PoolPages(n) = {}
  <1> DEFINE k == petmem_pool_list[m].call
             l == petmem_pool_list[n].call
  <1>1. /\ k \in DOMAIN given /\ l \in DOMAIN given
        /\ PoolPages(m) \subseteq PagesGiven(k) /\ PoolPages(n) \subseteq PagesGiven(l)
    BY PoolIn
  <1>2. m \in PoolsOf(k) /\ n \in PoolsOf(l)
    BY DEF PoolsOf
  <1> HIDE DEF k, l
  <1>3. CASE k = l
    <2>1. Tiled(k)
      BY <1>1, MemInvParts
    <2> QED
      BY <1>2, <1>3, <2>1 DEF Tiled
  <1>4. CASE k # l
    <2>1. given[k] \cap given[l] = {}
      BY <1>1, <1>4, MemInvParts DEF BlocksApart
    <2> QED
      BY <1>1, <2>1 DEF PagesGiven
  <1> QED
    BY <1>3, <1>4

----------------------------------------------------------------------------
(* The steps. *)

LEMMA PoolsKept ==
    ASSUME MemInv, UNCHANGED <<petmem_pool_list, range, given, result>>,
           trusted' => trusted, trusted' \in BOOLEAN
    PROVE  /\ MemTypeOK' /\ HandedRight'
           /\ (\A k \in DOMAIN given : Tiled(k))'
           /\ (\A n \in DOMAIN petmem_pool_list : HeldRight(petmem_pool_list[n]))'
  <1>1. MemTypeOK'
    BY MemInvParts DEF MemTypeOK
  <1>2. HandedRight'
    BY MemInvParts DEF HandedRight, Handed, Held
  <1>3. ASSUME NEW k \in DOMAIN given PROVE Tiled(k)'
    BY MemInvParts DEF Tiled, PoolsOf, PoolPages, Waiting, PagesGiven, RangePages
  <1>4. ASSUME NEW n \in DOMAIN petmem_pool_list PROVE HeldRight(petmem_pool_list[n])
    BY MemInvParts
  <1> QED
    BY <1>1, <1>2, <1>3, <1>4

LEMMA MemInitially == MemInit => MemInv
  <1> SUFFICES ASSUME MemInit PROVE MemInv
    OBVIOUS
  <1>1. SearchInv
    BY BlocksAssumption DEF MemInit, Init, SearchInv, Region
  <1>2. /\ petmem_pool_list = <<>> /\ given = <<>> /\ trusted = TRUE
        /\ range = [base_addr |-> 0, num_pages |-> 0]
        /\ result = [c \in Callers |-> Nothing]
    BY DEF MemInit
  <1>3. GivenBlocks = {}
    BY <1>2 DEF GivenBlocks
  <1>4. BlocksApart
    BY <1>2, <1>3 DEF BlocksApart
  <1>5. MemTypeOK
    BY <1>2 DEF MemTypeOK, Nothing
  <1>6. HandedRight
    <2>1. \A c \in Callers : result[c].paddr = 0 /\ result[c].pages = 0
      BY <1>2 DEF Nothing
    <2>2. \A c \in Callers : Handed(c) = {}
      BY <2>1, PagesAssumption DEF Handed, PagesFrom, __va
    <2>3. 0 < PAGE_OFFSET
      BY PagesAssumption, BlocksAssumption
    <2> QED
      BY <2>1, <2>2, <2>3 DEF HandedRight
  <1> QED
    BY <1>1, <1>2, <1>4, <1>5, <1>6 DEF MemInv

(* A step of the utility takes no block from the driver. *)
LEMMA UtilitySteps ==
    ASSUME MemInv, Search \/ OpenFails, UNCHANGED memVars
    PROVE  MemInv'
  <1> USE MemInvParts
  <1>1. SearchInv'
    BY SearchSteps DEF Next
  <1>2. UNCHANGED <<petmem_pool_list, range, given, trusted, result>>
    BY DEF memVars, clientVars
  <1>3. bitmap' \subseteq bitmap /\ GivenBlocks' = GivenBlocks
    BY <1>2 DEF Search, Scan, ScanFails, OfflineBlock, OfflineDone, CheckBlock, OnlineBlock,
           Again, OpenFails, GivenBlocks
  <1>4. phase \notin {"given", "failed"} /\ phase' # "given"
    BY DEF Search, Scan, ScanFails, OfflineBlock, OfflineDone, CheckBlock, OnlineBlock,
           Again, OpenFails
  <1>5. ASSUME trusted PROVE bitmap \cap GivenBlocks = {} /\ GivenBlocks \cap online' = {}
    <2>0. bitmap \cap GivenBlocks = {} /\ GivenBlocks \cap online = {}
      BY <1>4, <1>5 DEF BlocksApart
    <2>1. CASE OnlineBlock
      <3>1. phase = "online" /\ j \in 0 .. i - 1
        BY <2>1 DEF OnlineBlock, SearchInv
      <3>2. reg_start + j \in bitmap
        BY <3>1 DEF SearchInv
      <3> QED
        BY <2>0, <2>1, <3>2 DEF OnlineBlock
    <2>2. CASE ~OnlineBlock
      <3>1. online' \subseteq online
        BY <2>2 DEF Search, Scan, ScanFails, OfflineBlock, OfflineDone, CheckBlock,
                    Again, OpenFails
      <3> QED
        BY <2>0, <3>1
    <2> QED
      BY <2>1, <2>2
  <1>6. range.num_pages = 0
    BY <1>4 DEF BlocksApart
  <1>7. BlocksApart'
    BY <1>2, <1>3, <1>5, <1>6 DEF BlocksApart
  <1>8. trusted' \in BOOLEAN
    BY <1>2 DEF MemTypeOK
  <1> QED
    BY <1>1, <1>2, <1>7, <1>8, PoolsKept DEF MemInv

(* The pages of a new call all wait for ADD_MEMORY's loop. *)
LEMMA CallAddMemorySteps ==
    ASSUME MemInv, CallAddMemory
    PROVE  MemInv'
  <1> USE MemInvParts
  <1> DEFINE r == reg_start
             base == __va(r * BlockPages)
             size == num_blocks * BlockPages
             new == PagesFrom(base, size)
  <1>1. /\ AddMemory /\ given' = Append(given, Region)
        /\ range' = [base_addr |-> base, num_pages |-> size]
        /\ UNCHANGED <<petmem_pool_list, trusted, result>>
    BY DEF CallAddMemory, clientVars, Region
  <1>2. SearchInv'
    BY <1>1, SearchSteps DEF Next
  <1>3. /\ phase = "check" /\ phase' = "given"
        /\ bitmap' = bitmap /\ online' = online /\ reg_start' = reg_start
    BY <1>1 DEF AddMemory
  <1>4. /\ Region = r .. r + num_blocks - 1 /\ Region \subseteq bitmap
        /\ bitmap \subseteq Blocks /\ r \in Nat
    BY <1>3 DEF SearchInv, Region
  <1>5. Region \cap online = {}
    <2>1. Region' = Region
      BY <1>3 DEF Region
    <2>2. Region' \cap online' = {}
      BY <1>2, <1>3 DEF SearchInv
    <2> QED
      BY <1>3, <2>1, <2>2
  <1>6. /\ num_blocks \in Nat /\ BlockPages \in Nat /\ PAGE_OFFSET \in Nat
        /\ bitmap_entries \in Nat /\ given \in Seq(SUBSET Blocks)
    BY BlocksAssumption, PagesAssumption DEF MemTypeOK
  <1>k. PICK K \in Nat : K = Len(given) + 1
    BY <1>6
  <1>7. /\ K \in Nat /\ DOMAIN given' = DOMAIN given \cup {K} /\ K \notin DOMAIN given
        /\ Len(given') = K /\ given'[K] = Region
        /\ \A k \in DOMAIN given : given'[k] = given[k]
        /\ given' \in Seq(SUBSET Blocks) /\ given' # <<>>
    BY <1>1, <1>4, <1>6, <1>k
  <1>8. range.num_pages = 0 /\ range.base_addr \in Int /\ RangePages = {}
    BY <1>3 DEF BlocksApart, MemTypeOK, RangePages, PagesFrom
  <1>9. base \in Int /\ size \in Nat
    BY <1>4, <1>6 DEF __va
  <1>10. range' \in [base_addr : Int, num_pages : Nat] /\ RangePages' = new
    BY <1>1, <1>9 DEF RangePages
  <1>11. MemTypeOK'
    BY <1>1, <1>7, <1>10 DEF MemTypeOK
  <1>12. GivenBlocks' = GivenBlocks \cup Region
    BY <1>7 DEF GivenBlocks
  <1>13. ASSUME trusted, NEW k \in DOMAIN given PROVE given[k] \cap Region = {}
    <2>1. given[k] \subseteq GivenBlocks
      BY <1>13 DEF GivenBlocks
    <2>2. bitmap \cap GivenBlocks = {}
      BY <1>3, <1>13 DEF BlocksApart
    <2> QED
      BY <1>4, <2>1, <2>2
  <1>14. BlocksApart'
    <2>1. ASSUME trusted, NEW k \in DOMAIN given', NEW l \in DOMAIN given', k # l
          PROVE  given'[k] \cap given'[l] = {}
      <3>1. CASE k \in DOMAIN given /\ l \in DOMAIN given
        BY <1>7, <2>1, <3>1 DEF BlocksApart
      <3> QED
        BY <1>7, <1>13, <2>1, <3>1
    <2>2. trusted => GivenBlocks' \cap online' = {}
      BY <1>3, <1>5, <1>12 DEF BlocksApart
    <2> QED
      BY <1>1, <1>3, <1>7, <2>1, <2>2 DEF BlocksApart
  <1>15. HandedRight'
    BY <1>1 DEF HandedRight, Handed, Held
  <1>16. PagesGiven(K)' = new
    <2>1. PagesGiven(K)' = {page \in AllPages : BlockOf(page) \in Region}
      BY <1>7 DEF PagesGiven
    <2>2. new \subseteq Int /\ AllPages \subseteq Int
      BY <1>6, <1>9 DEF PagesFrom, AllPages
    <2>3. CASE num_blocks = 0
      <3>1. Region = {} /\ new = {}
        BY <1>4, <1>6, <1>9, <2>3 DEF PagesFrom
      <3> HIDE DEF new
      <3> QED
        BY <2>1, <3>1
    <2>4. CASE num_blocks # 0
      <3>1. r + num_blocks <= bitmap_entries
        <4>1. r + num_blocks - 1 \in Region
          BY <1>4, <1>6, <2>4
        <4> QED
          BY <1>4, <1>6, <4>1 DEF Blocks
      <3>2. \A page \in Int : page \in new
                 <=> page \in AllPages /\ BlockOf(page) \in r .. r + num_blocks - 1
        BY <1>4, <1>6, <3>1, RegionPages
      <3> HIDE DEF new
      <3> QED
        BY <1>4, <2>1, <2>2, <3>2
    <2> QED
      BY <2>3, <2>4
  <1> HIDE DEF new, base, size
  <1>17. Tiled(K)'
    <2>1. PoolsOf(K)' = {}
      BY <1>1, <1>7 DEF PoolsOf, MemTypeOK
    <2>2. Waiting(K)' = new
      BY <1>7, <1>10 DEF Waiting
    <2> QED
      BY <1>16, <2>1, <2>2 DEF Tiled
  <1>18. ASSUME NEW k \in DOMAIN given PROVE Tiled(k)'
    <2>1. Tiled(k)
      OBVIOUS
    <2>2. Waiting(k) = {} /\ Waiting(k)' = {}
      BY <1>7, <1>8 DEF Waiting
    <2>3. PagesGiven(k)' = PagesGiven(k) /\ PoolsOf(k)' = PoolsOf(k)
      BY <1>1, <1>7 DEF PagesGiven, PoolsOf
    <2>4. \A n : PoolPages(n)' = PoolPages(n)
      BY <1>1 DEF PoolPages
    <2> QED
      BY <2>1, <2>2, <2>3, <2>4 DEF Tiled
  <1>19. \A n \in DOMAIN petmem_pool_list' : HeldRight(petmem_pool_list'[n])
    BY <1>1
  <1> QED
    BY <1>2, <1>7, <1>11, <1>14, <1>15, <1>17, <1>18, <1>19 DEF MemInv

(* A new pool is taken from the front of the pages that wait. *)
LEMMA AddPoolSteps ==
    ASSUME MemInv, AddPool
    PROVE  MemInv'
  <1> USE MemInvParts
  <1> DEFINE n == range.num_pages
             order == fls(n) - 1
             pool == [base_addr |-> range.base_addr, order |-> order, held |-> {},
                      call |-> Len(given)]
             list == <<pool>> \o petmem_pool_list
  <1>1. /\ range.base_addr \in Int /\ n \in Nat \ {0} /\ petmem_pool_list \in Seq(Pools)
        /\ petmem_pool_list' = list /\ range' = Advance(range, order)
        /\ UNCHANGED <<vars, given, trusted, result>>
    BY DEF AddPool, MemTypeOK, clientVars
  <1>2. order \in Nat /\ Pow2[order] \in Nat /\ Pow2[order] <= n
    <2> HIDE DEF n
    <2> QED
      BY <1>1, PoolFits
  <1>3. phase = "given" /\ given # <<>> /\ given \in Seq(SUBSET Blocks)
    BY <1>1 DEF BlocksApart, MemTypeOK
  <1>k. PICK K \in Nat : K = Len(given)
    BY <1>3
  <1>4. K \in DOMAIN given
    BY <1>3, <1>k
  <1>5. pool \in Pools
    <2> HIDE DEF order
    <2> QED
      BY <1>1, <1>2, <1>3, <1>k DEF Pools
  <1>6. /\ pool.base_addr = range.base_addr /\ pool.order = order /\ pool.held = {}
        /\ pool.call = K
    BY <1>k
  <1> HIDE DEF order, n, pool
  <1>7. /\ range'.base_addr = range.base_addr + Pow2[order]
        /\ range'.num_pages = n - Pow2[order]
        /\ range' \in [base_addr : Int, num_pages : Nat]
    BY <1>1, <1>2 DEF Advance, n
  <1>8. /\ DOMAIN list = 1 .. Len(petmem_pool_list) + 1 /\ list[1] = pool
        /\ DOMAIN petmem_pool_list = 1 .. Len(petmem_pool_list)
        /\ \A m \in DOMAIN list : m # 1 =>
              m - 1 \in DOMAIN petmem_pool_list /\ list[m] = petmem_pool_list[m - 1]
        /\ \A m \in DOMAIN petmem_pool_list :
              m \in Nat /\ m + 1 \in DOMAIN list /\ m + 1 # 1 /\ list[m + 1] = petmem_pool_list[m]
        /\ list \in Seq(Pools)
    BY <1>1, <1>5
  <1> HIDE DEF list
  <1>9. /\ RangePages = PagesOf(pool) \cup RangePages'
        /\ PagesOf(pool) \cap RangePages' = {}
    <2>1. /\ RangePages = PagesFrom(range.base_addr, n)
          /\ RangePages' = PagesFrom(range.base_addr + Pow2[order], n - Pow2[order])
          /\ PagesOf(pool) = PagesFrom(range.base_addr, Pow2[order])
      BY <1>6, <1>7 DEF RangePages, PagesOf, n
    <2>2. \A base \in Int, u, v \in Nat : v <= u =>
             /\ PagesFrom(base, u) = PagesFrom(base, v) \cup PagesFrom(base + v, u - v)
             /\ PagesFrom(base, v) \cap PagesFrom(base + v, u - v) = {}
      BY DEF PagesFrom
    <2>3. range.base_addr \in Int /\ n \in Nat /\ Pow2[order] \in Nat /\ Pow2[order] <= n
      BY <1>1, <1>2
    <2> QED
      BY <2>1, <2>2, <2>3
  <1>10. /\ PoolPages(1)' = PagesOf(pool)
         /\ \A m \in DOMAIN petmem_pool_list : PoolPages(m + 1)' = PoolPages(m)
    BY <1>1, <1>8 DEF PoolPages
  <1>11. ASSUME NEW k \in DOMAIN given
         PROVE  /\ \A m \in PoolsOf(k)' : m # 1 => m - 1 \in PoolsOf(k) /\ PoolPages(m)' = PoolPages(m - 1)
                /\ \A m \in PoolsOf(k) : m \in Nat /\ m + 1 \in PoolsOf(k)' /\ PoolPages(m + 1)' = PoolPages(m)
                /\ 1 \in PoolsOf(k)' <=> k = K
    <2>1. PoolsOf(k)' = {m \in DOMAIN list : list[m].call = k}
      BY <1>1 DEF PoolsOf
    <2>2. ASSUME NEW m \in PoolsOf(k)', m # 1
          PROVE  m - 1 \in PoolsOf(k) /\ PoolPages(m)' = PoolPages(m - 1)
      <3>1. m - 1 \in DOMAIN petmem_pool_list /\ list[m] = petmem_pool_list[m - 1]
        BY <1>8, <2>1, <2>2
      <3> QED
        BY <1>1, <2>1, <3>1 DEF PoolsOf, PoolPages
    <2>3. ASSUME NEW m \in PoolsOf(k)
          PROVE  m \in Nat /\ m + 1 \in PoolsOf(k)' /\ PoolPages(m + 1)' = PoolPages(m)
      BY <1>8, <1>10, <2>1 DEF PoolsOf
    <2>4. 1 \in PoolsOf(k)' <=> k = K
      <3>1. 1 \in DOMAIN list
        BY <1>1, <1>8
      <3> QED
        BY <1>6, <1>8, <2>1, <3>1
    <2> QED
      BY <2>2, <2>3, <2>4
  <1>12. ASSUME NEW k \in DOMAIN given PROVE Tiled(k)'
    <2>1. PagesGiven(k)' = PagesGiven(k)
      BY <1>1 DEF PagesGiven
    <2>2. /\ Waiting(k) \subseteq PagesGiven(k)
          /\ \A m \in PoolsOf(k) : PoolPages(m) \subseteq PagesGiven(k) \ Waiting(k)
          /\ \A l, m \in PoolsOf(k) : l # m => PoolPages(l) \cap PoolPages(m) = {}
          /\ \A page \in PagesGiven(k) \ Waiting(k) : \E m \in PoolsOf(k) : page \in PoolPages(m)
      BY DEF Tiled
    <2>3. /\ Waiting(k)' \subseteq Waiting(k)
          /\ k = K => Waiting(k) = PagesOf(pool) \cup Waiting(k)' /\ PagesOf(pool) \cap Waiting(k)' = {}
          /\ k # K => Waiting(k)' = Waiting(k)
      BY <1>1, <1>9, <1>k DEF Waiting
    <2>4. ASSUME NEW m \in PoolsOf(k)' PROVE PoolPages(m)' \subseteq PagesGiven(k) \ Waiting(k)'
      <3>1. CASE m = 1
        BY <1>10, <1>11, <2>2, <2>3, <2>4, <3>1
      <3>2. CASE m # 1
        BY <1>11, <2>2, <2>3, <2>4, <3>2
      <3> QED
        BY <3>1, <3>2
    <2>5. ASSUME NEW m \in PoolsOf(k)', 1 \in PoolsOf(k)', m # 1
          PROVE  PoolPages(1)' \cap PoolPages(m)' = {}
      <3>1. k = K /\ PoolPages(1)' \subseteq Waiting(k)
        BY <1>10, <1>11, <2>3, <2>5
      <3>2. PoolPages(m)' \cap Waiting(k) = {}
        BY <1>11, <2>2, <2>5
      <3> QED
        BY <3>1, <3>2
    <2>6. ASSUME NEW l \in PoolsOf(k)', NEW m \in PoolsOf(k)', l # m
          PROVE  PoolPages(l)' \cap PoolPages(m)' = {}
      <3>1. CASE l # 1 /\ m # 1
        <4>1. /\ l - 1 \in PoolsOf(k) /\ m - 1 \in PoolsOf(k)
              /\ PoolPages(l)' = PoolPages(l - 1) /\ PoolPages(m)' = PoolPages(m - 1)
          BY <1>11, <2>6, <3>1
        <4>2. l - 1 # m - 1
          <5>1. l \in Nat /\ m \in Nat
            BY <1>1, <1>8, <2>6 DEF PoolsOf
          <5> QED
            BY <2>6, <5>1
        <4> QED
          BY <2>2, <4>1, <4>2
      <3> QED
        BY <2>5, <2>6, <3>1
    <2>7. ASSUME NEW page \in PagesGiven(k) \ Waiting(k)'
          PROVE  \E m \in PoolsOf(k)' : page \in PoolPages(m)'
      <3>1. CASE page \in Waiting(k)
        <4>1. k = K /\ page \in PagesOf(pool)
          BY <2>3, <2>7, <3>1
        <4> QED
          BY <1>10, <1>11, <4>1
      <3>2. CASE page \notin Waiting(k)
        <4>1. PICK m \in PoolsOf(k) : page \in PoolPages(m)
          BY <2>2, <2>7, <3>2
        <4> QED
          BY <1>11, <4>1
      <3> QED
        BY <3>1, <3>2
    <2>8. Waiting(k)' \subseteq PagesGiven(k)
      BY <2>2, <2>3
    <2> QED
      BY <2>1, <2>4, <2>6, <2>7, <2>8 DEF Tiled
  <1>13. ASSUME NEW m \in DOMAIN list
         PROVE  HeldRight(list[m]) /\ list[m].call \in DOMAIN given
    <2>1. CASE m = 1
      BY <1>4, <1>6, <1>8, <2>1 DEF HeldRight
    <2>2. CASE m # 1
      BY <1>8, <2>2 DEF MemTypeOK
    <2> QED
      BY <2>1, <2>2
  <1>14. MemTypeOK'
    BY <1>1, <1>7, <1>8, <1>13 DEF MemTypeOK
  <1>15. HandedRight'
    <2>1. \A c \in Callers : Handed(c)' = Handed(c)
      BY <1>1 DEF Handed
    <2>2. ASSUME NEW c \in Callers, Handed(c) # {}
          PROVE  \E m \in DOMAIN list : \E b \in list[m].held : Handed(c) \subseteq Held(m, b)'
      <3>1. PICK m \in DOMAIN petmem_pool_list : \E b \in petmem_pool_list[m].held :
               Handed(c) \subseteq Held(m, b)
        BY <2>2 DEF HandedRight
      <3>2. PICK b \in petmem_pool_list[m].held : Handed(c) \subseteq Held(m, b)
        BY <3>1
      <3>3. m + 1 \in DOMAIN list /\ list[m + 1] = petmem_pool_list[m]
        BY <1>8
      <3>4. Held(m + 1, b)' = Held(m, b)
        BY <1>1, <3>3 DEF Held
      <3> QED
        BY <3>2, <3>3, <3>4
    <2> QED
      BY <1>1, <2>1, <2>2 DEF HandedRight
  <1>16. SearchInv'
    BY <1>1, SearchStutters
  <1>17. BlocksApart'
    <2>1. GivenBlocks' = GivenBlocks
      BY <1>1 DEF GivenBlocks
    <2> QED
      BY <1>1, <1>3, <2>1 DEF BlocksApart, vars
  <1> QED
    BY <1>1, <1>12, <1>13, <1>14, <1>15, <1>16, <1>17 DEF MemInv

(* A new run of the utility, whatever sysfs says. *)
LEMMA RerunSteps ==
    ASSUME MemInv, Rerun
    PROVE  MemInv'
  <1> USE MemInvParts
  <1>1. SearchInv'
    BY BlocksAssumption DEF Rerun, SearchInv, Region
  <1>2. /\ UNCHANGED <<online, petmem_pool_list, range, given, result>>
        /\ range.num_pages = 0
        /\ trusted' = (trusted /\ bitmap' \cap GivenBlocks = {})
    BY DEF Rerun, clientVars
  <1>3. trusted' \in BOOLEAN /\ (trusted' => trusted /\ bitmap' \cap GivenBlocks = {})
    BY <1>2, Zenon
  <1>4. GivenBlocks' = GivenBlocks
    BY <1>2 DEF GivenBlocks
  <1>5. BlocksApart'
    BY <1>2, <1>3, <1>4 DEF BlocksApart
  <1> QED
    BY <1>1, <1>2, <1>3, <1>5, PoolsKept DEF MemInv

----------------------------------------------------------------------------
(* The callers. *)

(* the same pool, with more of it held *)
Grown(new, old) ==
    /\ new \in Pools /\ HeldRight(new) /\ old.held \subseteq new.held
    /\ new.base_addr = old.base_addr /\ new.order = old.order /\ new.call = old.call

GrownList(new) ==
    /\ new \in Seq(Pools) /\ DOMAIN new = DOMAIN petmem_pool_list
    /\ \A n \in DOMAIN petmem_pool_list : Grown(new[n], petmem_pool_list[n])

(* A step of a caller that takes blocks of pools, if any *)
LEMMA ClientSteps ==
    ASSUME MemInv, UNCHANGED <<vars, range, given, trusted>>, GrownList(petmem_pool_list'),
           result' \in [Callers -> [paddr : Int, pages : Nat]], HandedRight'
    PROVE  MemInv'
  <1> USE MemInvParts
  <1>1. /\ DOMAIN petmem_pool_list' = DOMAIN petmem_pool_list /\ petmem_pool_list' \in Seq(Pools)
        /\ \A n \in DOMAIN petmem_pool_list :
              /\ petmem_pool_list'[n].base_addr = petmem_pool_list[n].base_addr
              /\ petmem_pool_list'[n].order = petmem_pool_list[n].order
              /\ petmem_pool_list'[n].call = petmem_pool_list[n].call
              /\ HeldRight(petmem_pool_list'[n])
    BY DEF GrownList, Grown
  <1>2. MemTypeOK'
    BY <1>1 DEF MemTypeOK
  <1>3. \A n \in DOMAIN petmem_pool_list : PoolPages(n)' = PoolPages(n)
    BY <1>1 DEF PoolPages, PagesOf
  <1>4. ASSUME NEW k \in DOMAIN given PROVE Tiled(k)'
    <2>1. PoolsOf(k)' = PoolsOf(k) /\ PoolsOf(k) \subseteq DOMAIN petmem_pool_list
      BY <1>1 DEF PoolsOf
    <2>2. PagesGiven(k)' = PagesGiven(k) /\ Waiting(k)' = Waiting(k)
      BY DEF PagesGiven, Waiting, RangePages
    <2>3. Tiled(k)
      OBVIOUS
    <2> QED
      BY <1>3, <2>1, <2>2, <2>3 DEF Tiled
  <1>5. SearchInv'
    BY SearchStutters
  <1>6. BlocksApart'
    <2>1. GivenBlocks' = GivenBlocks
      BY DEF GivenBlocks
    <2> QED
      BY <2>1 DEF BlocksApart, vars
  <1> QED
    BY <1>1, <1>2, <1>4, <1>5, <1>6 DEF MemInv

(* What callers have stays where it is when more is held. *)
LEMMA HandedKept ==
    ASSUME MemInv, GrownList(petmem_pool_list'), NEW c \in Callers, Handed(c) # {}
    PROVE  \E n \in DOMAIN petmem_pool_list' : \E b \in petmem_pool_list'[n].held :
              Handed(c) \subseteq Held(n, b)'
  <1>1. PICK n \in DOMAIN petmem_pool_list : \E b \in petmem_pool_list[n].held :
           Handed(c) \subseteq Held(n, b)
    BY MemInvParts DEF HandedRight
  <1>2. PICK b \in petmem_pool_list[n].held : Handed(c) \subseteq Held(n, b)
    BY <1>1
  <1>3. /\ n \in DOMAIN petmem_pool_list' /\ b \in petmem_pool_list'[n].held
        /\ petmem_pool_list'[n].base_addr = petmem_pool_list[n].base_addr
    BY DEF GrownList, Grown
  <1>4. Held(n, b)' = Held(n, b)
    BY <1>3 DEF Held
  <1> QED
    BY <1>2, <1>3, <1>4

(* a pool with one more block held, one that was unused *)
LEMMA TakeGrows ==
    ASSUME NEW pool \in Pools, HeldRight(pool), NEW o \in Nat,
           NEW b \in Unused(pool.held, pool.order, o)
    PROVE  /\ Grown([pool EXCEPT !.held = @ \cup {b}], pool)
           /\ b \in PoolBlock /\ b.order = o /\ b.addr + Pow2[o] <= Pow2[pool.order]
           /\ \A d \in pool.held : UnitsOf(b) \cap UnitsOf(d) = {}
  <1> DEFINE new == [pool EXCEPT !.held = @ \cup {b}]
  <1>1. /\ b \in [addr : 0 .. Pow2[pool.order] - Pow2[o], order : {o}]
        /\ \A d \in pool.held : UnitsOf(b) \cap UnitsOf(d) = {}
    BY DEF Unused
  <1>2. /\ pool.order \in Nat /\ pool.held \in SUBSET PoolBlock
        /\ Pow2[o] \in Nat /\ Pow2[pool.order] \in Nat
    BY Pow2Grows DEF Pools
  <1>3. b \in PoolBlock /\ b.order = o /\ b.addr + Pow2[o] <= Pow2[pool.order]
    BY <1>1, <1>2 DEF PoolBlock
  <1>4. /\ new \in Pools /\ new.held = pool.held \cup {b} /\ new.base_addr = pool.base_addr
        /\ new.order = pool.order /\ new.call = pool.call
    BY <1>3 DEF Pools
  <1> HIDE DEF new
  <1>5. HeldRight(new)
    <2>1. ASSUME NEW d \in new.held PROVE d.addr + Pow2[d.order] <= Pow2[new.order]
      BY <1>3, <1>4 DEF HeldRight
    <2>2. ASSUME NEW d \in new.held, NEW e \in new.held, e # d
          PROVE  UnitsOf(d) \cap UnitsOf(e) = {}
      <3>1. CASE d \in pool.held /\ e \in pool.held
        BY <2>2, <3>1 DEF HeldRight
      <3> QED
        BY <1>1, <1>4, <2>2, <3>1
    <2> QED
      BY <2>1, <2>2 DEF HeldRight
  <1> QED
    BY <1>1, <1>3, <1>4, <1>5 DEF Grown, new

(* Nothing taken *)
LEMMA GrownItself ==
    ASSUME MemInv
    PROVE  GrownList(petmem_pool_list)
  BY MemInvParts, PoolIn DEF GrownList, Grown, MemTypeOK

(* The pools that the loop of petmem_alloc_pages has come past. *)
LEMMA PassedGrows ==
    ASSUME MemInv, NEW order \in Nat, NEW n \in 1 .. Len(petmem_pool_list) + 1, Passes(n, order)
    PROVE  GrownList(Passed(n, order))
  <1> USE MemInvParts
  <1>1. petmem_pool_list \in Seq(Pools) /\ DOMAIN petmem_pool_list = 1 .. Len(petmem_pool_list)
    BY DEF MemTypeOK
  <1>2. ASSUME NEW m \in DOMAIN petmem_pool_list
        PROVE  Grown(Passed(n, order)[m], petmem_pool_list[m])
    <2> DEFINE pool == petmem_pool_list[m]
    <2>1. pool \in Pools /\ HeldRight(pool)
      BY <1>1
    <2>2. CASE m < n
      <3>1. m \in 1 .. n - 1
        BY <1>1, <2>2
      <3>2. First(order) \in Unused(pool.held, pool.order, order)
        BY <3>1 DEF Passes, UnusedIn
      <3>3. Passed(n, order)[m] = [pool EXCEPT !.held = @ \cup {First(order)}]
        BY <2>2 DEF Passed
      <3> HIDE DEF pool
      <3>4. Grown([pool EXCEPT !.held = @ \cup {First(order)}], pool)
        BY <2>1, <3>2, TakeGrows
      <3> QED
        BY <3>3, <3>4 DEF pool
    <2>3. CASE ~(m < n)
      <3>1. Passed(n, order)[m] = pool
        BY <2>3 DEF Passed
      <3> QED
        BY <2>1, <3>1 DEF Grown
    <2> QED
      BY <2>2, <2>3
  <1>3. Passed(n, order) = [m \in 1 .. Len(petmem_pool_list) |-> Passed(n, order)[m]]
    BY <1>1 DEF Passed
  <1>4. Passed(n, order) \in Seq(Pools) /\ DOMAIN Passed(n, order) = DOMAIN petmem_pool_list
    <2>1. \A m \in 1 .. Len(petmem_pool_list) : Passed(n, order)[m] \in Pools
      BY <1>1, <1>2 DEF Grown
    <2> HIDE DEF Passed
    <2> QED
      BY <1>1, <1>3, <2>1
  <1> QED
    BY <1>2, <1>4 DEF GrownList

(* One caller gets a new result, the others keep theirs. *)
LEMMA HandedTo ==
    ASSUME MemInv, GrownList(petmem_pool_list'), trusted' = trusted,
           NEW c \in Callers, NEW res \in [paddr : Int, pages : Nat],
           result' = [result EXCEPT ![c] = res], res.paddr < PAGE_OFFSET,
           Handed(c)' # {} =>
              \E n \in DOMAIN petmem_pool_list' : \E b \in petmem_pool_list'[n].held :
                  Handed(c)' \subseteq Held(n, b)',
           trusted => \A d \in Callers \ {c} : Handed(c)' \cap Handed(d) = {}
    PROVE  HandedRight' /\ result' \in [Callers -> [paddr : Int, pages : Nat]]
  <1> USE MemInvParts
  <1>1. /\ result \in [Callers -> [paddr : Int, pages : Nat]] /\ result'[c] = res
        /\ \A d \in Callers \ {c} : result'[d] = result[d]
    BY DEF MemTypeOK
  <1>2. \A d \in Callers \ {c} : Handed(d)' = Handed(d)
    BY <1>1 DEF Handed
  <1>3. ASSUME NEW d \in Callers PROVE result'[d].paddr < PAGE_OFFSET
    BY <1>1 DEF HandedRight
  <1>4. ASSUME NEW d \in Callers, Handed(d)' # {}
        PROVE  \E n \in DOMAIN petmem_pool_list' : \E b \in petmem_pool_list'[n].held :
                  Handed(d)' \subseteq Held(n, b)'
    BY <1>2, <1>4, HandedKept
  <1>5. ASSUME trusted, NEW d \in Callers, NEW e \in Callers \ {d}
        PROVE  Handed(d)' \cap Handed(e)' = {}
    <2>1. CASE d = c
      BY <1>2, <1>5, <2>1
    <2>2. CASE e = c
      BY <1>2, <1>5, <2>2
    <2>3. CASE d # c /\ e # c
      <3>1. Handed(d) \cap Handed(e) = {}
        BY <1>5 DEF HandedRight
      <3> QED
        BY <1>2, <2>3, <3>1
    <2> QED
      BY <2>1, <2>2, <2>3
  <1>6. result' \in [Callers -> [paddr : Int, pages : Nat]]
    BY <1>1
  <1> QED
    BY <1>3, <1>4, <1>5, <1>6 DEF HandedRight

(* petmem_alloc_pages hands out pages of an unused block of a pool. *)
LEMMA AllocSteps ==
    ASSUME MemInv, NEW c \in Callers, NEW num_pages \in Requests,
           petmem_alloc_pages(c, num_pages)
    PROVE  MemInv'
  <1> USE MemInvParts
  <1>1. PICK order \in Nat : order = get_order(num_pages) /\ num_pages <= Pow2[order]
    BY PagesAssumption, OrderFits
  <1>2. num_pages \in Nat /\ Pow2[order] \in Nat /\ UNCHANGED <<vars, range, given, trusted>>
    BY PagesAssumption, Pow2Grows DEF petmem_alloc_pages
  <1>3. PICK n \in DOMAIN petmem_pool_list : \E b \in UnusedIn(n, order) :
           /\ Passes(n, order)
           /\ petmem_pool_list' = [Passed(n, order) EXCEPT ![n].held = @ \cup {b}]
           /\ result' = [result EXCEPT ![c] =
                 [paddr |-> __pa(petmem_pool_list[n].base_addr + b.addr), pages |-> num_pages]]
    BY <1>1 DEF petmem_alloc_pages
  <1>4. PICK b \in UnusedIn(n, order) :
           /\ Passes(n, order)
           /\ petmem_pool_list' = [Passed(n, order) EXCEPT ![n].held = @ \cup {b}]
           /\ result' = [result EXCEPT ![c] =
                 [paddr |-> __pa(petmem_pool_list[n].base_addr + b.addr), pages |-> num_pages]]
    BY <1>3
  <1> DEFINE pool == petmem_pool_list[n]
             res == [paddr |-> __pa(pool.base_addr + b.addr), pages |-> num_pages]
             new == [pool EXCEPT !.held = @ \cup {b}]
  <1>5. /\ petmem_pool_list \in Seq(Pools) /\ DOMAIN petmem_pool_list = 1 .. Len(petmem_pool_list)
        /\ n \in 1 .. Len(petmem_pool_list) + 1
    BY DEF MemTypeOK
  <1>6. GrownList(Passed(n, order))
    BY <1>4, <1>5, PassedGrows
  <1>7. pool \in Pools /\ HeldRight(pool) /\ b \in Unused(pool.held, pool.order, order)
    BY PoolIn DEF UnusedIn
  <1>8. Passed(n, order)[n] = pool
    BY <1>5 DEF Passed
  <1>9. petmem_pool_list' = [Passed(n, order) EXCEPT ![n] = new]
    BY <1>4, <1>8
  <1> HIDE DEF pool, new
  <1>10. /\ Grown(new, pool) /\ b \in PoolBlock /\ b.order = order
         /\ b.addr + Pow2[order] <= Pow2[pool.order]
         /\ \A d \in pool.held : UnitsOf(b) \cap UnitsOf(d) = {}
    BY <1>7, TakeGrows DEF new
  <1>11. GrownList(petmem_pool_list') /\ petmem_pool_list'[n] = new
    <2>1. /\ Passed(n, order) \in Seq(Pools) /\ DOMAIN Passed(n, order) = DOMAIN petmem_pool_list
          /\ \A m \in DOMAIN petmem_pool_list : Grown(Passed(n, order)[m], petmem_pool_list[m])
      BY <1>6 DEF GrownList
    <2>2. new \in Pools
      BY <1>10 DEF Grown
    <2> HIDE DEF Passed
    <2>3. petmem_pool_list' \in Seq(Pools) /\ DOMAIN petmem_pool_list' = DOMAIN petmem_pool_list
      BY <1>9, <2>1, <2>2
    <2>4. \A m \in DOMAIN petmem_pool_list :
             petmem_pool_list'[m] = IF m = n THEN new ELSE Passed(n, order)[m]
      BY <1>9, <2>1
    <2> QED
      BY <1>10, <2>1, <2>3, <2>4 DEF GrownList, pool
  <1>12. b \in petmem_pool_list'[n].held /\ petmem_pool_list'[n].base_addr = pool.base_addr
    BY <1>7, <1>11 DEF new, Pools
  <1>13. pool.base_addr \in Int /\ pool.order \in Nat /\ Pow2[pool.order] \in Nat /\ b.addr \in Nat
    BY <1>7, <1>10, Pow2Grows DEF Pools, PoolBlock
  <1> DEFINE at == pool.base_addr + b.addr
             block == PagesFrom(at, Pow2[order])
  <1>14. Held(n, b)' = block
    BY <1>10, <1>12 DEF Held
  <1>15. block \subseteq PoolPages(n)
    <2>1. PoolPages(n) = PagesFrom(pool.base_addr, Pow2[pool.order])
      BY DEF PoolPages, PagesOf, pool
    <2>2. PagesFrom(pool.base_addr + b.addr, Pow2[order])
             \subseteq PagesFrom(pool.base_addr, Pow2[pool.order])
      <3>1. \A base \in Int, a, u, v \in Nat :
               a + u <= v => PagesFrom(base + a, u) \subseteq PagesFrom(base, v)
        BY DEF PagesFrom
      <3> QED
        BY <1>2, <1>10, <1>13, <3>1
    <2> QED
      BY <2>1, <2>2
  <1>16. at \in Int /\ PAGE_OFFSET \in Nat
    BY <1>13, PagesAssumption
  <1>17. Handed(c)' \subseteq block
    <2>1. /\ result'[c] = res /\ res.pages = num_pages /\ res.paddr = at - PAGE_OFFSET
      BY <1>4 DEF MemTypeOK, __pa, pool
    <2>2. __va(at - PAGE_OFFSET) = at
      BY <1>16 DEF __va
    <2>3. Handed(c)' \subseteq PagesFrom(at, num_pages)
      BY <2>1, <2>2 DEF Handed
    <2> HIDE DEF at
    <2> QED
      BY <1>1, <1>2, <1>16, <2>3 DEF PagesFrom
  <1>18. res \in [paddr : Int, pages : Nat] /\ res.paddr < PAGE_OFFSET
    <2>1. at \in PoolPages(n)
      <3>1. at \in block
        <4>1. Pow2[order] > 0
          BY <1>1, Pow2Grows
        <4> HIDE DEF at
        <4> QED
          BY <1>2, <1>16, <4>1 DEF PagesFrom
      <3> QED
        BY <1>15, <3>1
    <2>2. at \in AllPages
      BY <2>1, PoolIn
    <2>3. bitmap_entries * BlockPages \in Nat /\ PAGE_OFFSET > bitmap_entries * BlockPages
      BY PagesAssumption, BlocksAssumption
    <2> HIDE DEF at
    <2>4. at - PAGE_OFFSET \in Int /\ at - PAGE_OFFSET < PAGE_OFFSET
      BY <1>16, <2>2, <2>3 DEF AllPages, PagesFrom
    <2>5. __pa(at) = at - PAGE_OFFSET
      BY DEF __pa
    <2> QED
      BY <1>2, <2>4, <2>5 DEF at
  <1>19. ASSUME trusted, NEW d \in Callers \ {c} PROVE Handed(c)' \cap Handed(d) = {}
    <2> SUFFICES ASSUME Handed(d) # {} PROVE Handed(c)' \cap Handed(d) = {}
      OBVIOUS
    <2>1. PICK m \in DOMAIN petmem_pool_list : \E e \in petmem_pool_list[m].held :
             Handed(d) \subseteq Held(m, e)
      BY DEF HandedRight
    <2>2. PICK e \in petmem_pool_list[m].held : Handed(d) \subseteq Held(m, e)
      BY <2>1
    <2>3. CASE m # n
      <3>1. PoolPages(m) \cap PoolPages(n) = {} /\ Held(m, e) \subseteq PoolPages(m)
        BY <1>19, <2>3, Apart, HeldIn
      <3> QED
        BY <1>15, <1>17, <2>2, <3>1
    <2>4. CASE m = n
      <3>1. e \in pool.held /\ UnitsOf(b) \cap UnitsOf(e) = {}
        BY <1>10, <2>4 DEF pool
      <3>2. e.addr \in Nat /\ e.order \in Nat
        BY <1>7, <3>1 DEF Pools, PoolBlock
      <3>3. Pow2[e.order] \in Nat
        BY <3>2, Pow2Grows
      <3>4. Held(m, e) = PagesFrom(pool.base_addr + e.addr, Pow2[e.order])
        BY <2>4 DEF Held, pool
      <3>5. block \cap Held(m, e) = {}
        <4> SUFFICES ASSUME NEW page \in block, page \in Held(m, e) PROVE FALSE
          OBVIOUS
        <4>1. page \in Int
          BY <1>2, <1>16 DEF PagesFrom
        <4>2. \A base, x \in Int, a, u \in Nat :
                 x \in PagesFrom(base + a, u) => x - base \in a .. a + u - 1
          BY DEF PagesFrom
        <4>3. page - pool.base_addr \in b.addr .. b.addr + Pow2[order] - 1
          BY <1>2, <1>13, <4>1, <4>2
        <4>4. page - pool.base_addr \in e.addr .. e.addr + Pow2[e.order] - 1
          BY <1>13, <3>2, <3>3, <3>4, <4>1, <4>2
        <4> QED
          BY <1>10, <3>1, <4>3, <4>4 DEF UnitsOf
      <3> QED
        BY <1>17, <2>2, <3>5
    <2> QED
      BY <2>3, <2>4
  <1>20. result' = [result EXCEPT ![c] = res] /\ trusted' = trusted
    BY <1>2, <1>4 DEF pool
  <1>21. \E m \in DOMAIN petmem_pool_list' : \E e \in petmem_pool_list'[m].held :
            Handed(c)' \subseteq Held(m, e)'
    <2>1. n \in DOMAIN petmem_pool_list'
      BY <1>11 DEF GrownList
    <2> QED
      BY <1>12, <1>14, <1>17, <2>1
  <1> HIDE DEF res
  <1>22. HandedRight' /\ result' \in [Callers -> [paddr : Int, pages : Nat]]
    BY <1>11, <1>18, <1>19, <1>20, <1>21, HandedTo
  <1> QED
    BY <1>2, <1>11, <1>22, ClientSteps

(* petmem_alloc_pages with __pa(NULL): the caller has no page of memory. *)
LEMMA AllocNowhereSteps ==
    ASSUME MemInv, NEW c \in Callers, NEW num_pages \in Requests, AllocNowhere(c, num_pages)
    PROVE  MemInv'
  <1> USE MemInvParts
  <1> DEFINE res == [paddr |-> __pa(NULL), pages |-> num_pages]
  <1>1. get_order(num_pages) \in Nat /\ num_pages \in Nat
    BY PagesAssumption, OrderFits
  <1>2. /\ result' = [result EXCEPT ![c] = res] /\ UNCHANGED <<vars, range, given, trusted>>
        /\ \E n \in DOMAIN petmem_pool_list :
              Passes(n, get_order(num_pages)) /\ petmem_pool_list' = Passed(n, get_order(num_pages))
    BY DEF AllocNowhere
  <1>3. DOMAIN petmem_pool_list \subseteq 1 .. Len(petmem_pool_list) + 1
    BY DEF MemTypeOK
  <1>4. GrownList(petmem_pool_list')
    BY <1>1, <1>2, <1>3, PassedGrows
  <1>5. res \in [paddr : Int, pages : Nat] /\ res.paddr = __pa(NULL) /\ res.paddr < PAGE_OFFSET
    BY <1>1, PagesAssumption, BlocksAssumption DEF __pa, NULL
  <1>6. Handed(c)' = {}
    <2>1. result'[c] = res
      BY <1>2 DEF MemTypeOK
    <2> QED
      BY <1>5, <2>1 DEF Handed
  <1> HIDE DEF res
  <1>7. HandedRight' /\ result' \in [Callers -> [paddr : Int, pages : Nat]]
    BY <1>2, <1>4, <1>5, <1>6, HandedTo
  <1> QED
    BY <1>2, <1>4, <1>7, ClientSteps

(* petmem_alloc_pages that returns 0 or ends in a BUG_ON: only the pools    *)
(* that the loop has come past change.                                      *)
LEMMA NoResultSteps ==
    ASSUME MemInv, NEW num_pages \in Requests,
           NEW n \in 1 .. Len(petmem_pool_list) + 1, Passes(n, get_order(num_pages)),
           petmem_pool_list' = Passed(n, get_order(num_pages)),
           UNCHANGED <<vars, range, given, trusted, result>>
    PROVE  MemInv'
  <1> USE MemInvParts
  <1>1. get_order(num_pages) \in Nat
    BY PagesAssumption, OrderFits
  <1>2. GrownList(petmem_pool_list')
    BY <1>1, PassedGrows
  <1>3. \A c \in Callers : Handed(c)' = Handed(c)
    BY DEF Handed
  <1>4. \A c \in Callers : Handed(c) # {} =>
           \E m \in DOMAIN petmem_pool_list' : \E b \in petmem_pool_list'[m].held :
              Handed(c) \subseteq Held(m, b)'
    BY <1>2, HandedKept
  <1>5. HandedRight'
    BY <1>3, <1>4 DEF HandedRight
  <1>6. result' \in [Callers -> [paddr : Int, pages : Nat]]
    BY DEF MemTypeOK
  <1> QED
    BY <1>2, <1>5, <1>6, ClientSteps

LEMMA AllocFailsSteps ==
    ASSUME MemInv, NEW c \in Callers, NEW num_pages \in Requests, AllocFails(c, num_pages)
    PROVE  MemInv'
  <1> DEFINE n == Len(petmem_pool_list) + 1
  <1>1. /\ Passes(n, get_order(num_pages)) /\ petmem_pool_list' = Passed(n, get_order(num_pages))
        /\ UNCHANGED <<vars, range, given, trusted, result>>
    BY DEF AllocFails, clientVars
  <1>2. n \in 1 .. Len(petmem_pool_list) + 1
    BY MemInvParts DEF MemTypeOK
  <1> HIDE DEF n
  <1> QED
    BY <1>1, <1>2, NoResultSteps

LEMMA AllocBugSteps ==
    ASSUME MemInv, NEW c \in Callers, NEW num_pages \in Requests, AllocBug(c, num_pages)
    PROVE  MemInv'
  <1>1. PICK n \in DOMAIN petmem_pool_list :
          Passes(n, get_order(num_pages)) /\ petmem_pool_list' = Passed(n, get_order(num_pages))
    BY DEF AllocBug
  <1>2. UNCHANGED <<vars, range, given, trusted, result>>
    BY DEF AllocBug
  <1>3. n \in 1 .. Len(petmem_pool_list) + 1
    BY MemInvParts DEF MemTypeOK
  <1> QED
    BY <1>1, <1>2, <1>3, NoResultSteps

(* petmem_free_pages finds no pool, because it compares a physical address  *)
(* with kernel addresses: the caller has given its pages up, and they stay  *)
(* allocated.                                                               *)
LEMMA FreeSteps ==
    ASSUME MemInv, NEW c \in Callers, petmem_free_pages(c)
    PROVE  MemInv'
  <1> USE MemInvParts
  <1>1. PoolsWith(result[c].paddr) = {}
    <2> SUFFICES ASSUME NEW n \in PoolsWith(result[c].paddr) PROVE FALSE
      OBVIOUS
    <2>1. n \in DOMAIN petmem_pool_list /\ result[c].paddr >= petmem_pool_list[n].base_addr
      BY DEF PoolsWith
    <2>2. petmem_pool_list[n].base_addr >= PAGE_OFFSET /\ petmem_pool_list[n].base_addr \in Int
      BY <2>1, PoolIn DEF Pools
    <2>3. result[c].paddr \in Int /\ result[c].paddr < PAGE_OFFSET
      BY DEF MemTypeOK, HandedRight
    <2> QED
      BY <2>1, <2>2, <2>3, PagesAssumption
  <1>2. /\ petmem_pool_list' = petmem_pool_list /\ result' = [result EXCEPT ![c] = Nothing]
        /\ UNCHANGED <<vars, range, given, trusted>>
    BY <1>1 DEF petmem_free_pages
  <1>3. GrownList(petmem_pool_list')
    BY <1>2, GrownItself
  <1>4. /\ Nothing \in [paddr : Int, pages : Nat] /\ Nothing.paddr = 0 /\ Nothing.pages = 0
        /\ Nothing.paddr < PAGE_OFFSET
    BY PagesAssumption, BlocksAssumption DEF Nothing
  <1>5. Handed(c)' = {}
    <2>1. result'[c] = Nothing
      BY <1>2 DEF MemTypeOK
    <2> QED
      BY <1>4, <2>1, PagesAssumption DEF Handed, PagesFrom, __va
  <1> HIDE DEF Nothing
  <1>6. HandedRight' /\ result' \in [Callers -> [paddr : Int, pages : Nat]]
    BY <1>2, <1>3, <1>4, <1>5, HandedTo
  <1> QED
    BY <1>2, <1>3, <1>6, ClientSteps

----------------------------------------------------------------------------
(* The inductive invariant of the utility and the pools, through any        *)
(* sequence of runs, whatever sysfs calls removable, refusals of Linux,     *)
(* rounds of ADD_MEMORY's loop and calls of petmem_alloc_pages and          *)
(* petmem_free_pages, the results __pa(NULL) and 0 included.                *)
THEOREM PetMemSafe == MemSpec => []MemInv
  <1>1. MemInit => MemInv
    BY MemInitially
  <1>2. MemInv /\ [MemNext]_<<vars, memVars>> => MemInv'
    <2> SUFFICES ASSUME MemInv, [MemNext]_<<vars, memVars>> PROVE MemInv'
      OBVIOUS
    <2>1. CASE Utility
      BY <2>1, UtilitySteps DEF Utility
    <2>2. CASE OpenFails /\ UNCHANGED memVars
      BY <2>2, UtilitySteps
    <2>3. CASE CallAddMemory
      BY <2>3, CallAddMemorySteps
    <2>4. CASE AddPool
      BY <2>4, AddPoolSteps
    <2>5. CASE Rerun
      BY <2>5, RerunSteps
    <2>6. ASSUME NEW c \in Callers, NEW num_pages \in Requests,
                 \/ petmem_alloc_pages(c, num_pages) \/ AllocNowhere(c, num_pages)
                 \/ AllocFails(c, num_pages) \/ AllocBug(c, num_pages)
          PROVE  MemInv'
      BY <2>6, AllocSteps, AllocNowhereSteps, AllocFailsSteps, AllocBugSteps
    <2>7. ASSUME NEW c \in Callers, petmem_free_pages(c) PROVE MemInv'
      BY <2>7, FreeSteps
    <2>8. CASE UNCHANGED <<vars, memVars>>
      <3>1. UNCHANGED <<petmem_pool_list, range, given, trusted, result>> /\ UNCHANGED vars
        BY <2>8 DEF memVars, clientVars
      <3>2. SearchInv'
        BY <3>1, SearchStutters, MemInvParts
      <3>3. BlocksApart'
        BY <3>1, MemInvParts DEF BlocksApart, vars, GivenBlocks
      <3>4. trusted' \in BOOLEAN
        BY <3>1, MemInvParts DEF MemTypeOK
      <3> QED
        BY <3>1, <3>2, <3>3, <3>4, PoolsKept DEF MemInv
    <2> QED
      BY <2>1, <2>2, <2>3, <2>4, <2>5, <2>6, <2>7, <2>8 DEF MemNext, Kernel, Client
  <1> QED
    BY <1>1, <1>2, PTL DEF MemSpec

(* What the utility gives to the driver is offline and was removable, after *)
(* any number of refusals and new starts of the search in any run.          *)
THEOREM PetMemGivenIsOffline == MemSpec => []GivenIsOffline
  <1>1. MemInv => GivenIsOffline
    BY DEF MemInv, SearchInv, GivenIsOffline
  <1> QED
    BY <1>1, PetMemSafe, PTL

(* Every page that a call of ADD_MEMORY is given is in exactly one pool of  *)
(* the call or still waits for its loop, and these pools have no other      *)
(* page, whatever is given in other calls.                                  *)
THEOREM PetMemPoolsTile == MemSpec => []PoolsTile
  <1>1. MemInv => PoolsTile
    <2> SUFFICES ASSUME MemInv, NEW k \in DOMAIN given
                 PROVE  /\ \A n \in PoolsOf(k) : PoolPages(n) \subseteq PagesGiven(k)
                        /\ \A page \in PagesGiven(k) :
                              Cardinality({n \in PoolsOf(k) : page \in PoolPages(n)}) =
                                  IF page \in Waiting(k) THEN 0 ELSE 1
      BY DEF PoolsTile
    <2>1. Tiled(k)
      BY MemInvParts
    <2>2. ASSUME NEW page \in PagesGiven(k), page \in Waiting(k)
          PROVE  Cardinality({n \in PoolsOf(k) : page \in PoolPages(n)}) = 0
      <3>1. {n \in PoolsOf(k) : page \in PoolPages(n)} = {}
        BY <2>1, <2>2 DEF Tiled
      <3> QED
        BY <3>1, FS_EmptySet
    <2>3. ASSUME NEW page \in PagesGiven(k), page \notin Waiting(k)
          PROVE  Cardinality({n \in PoolsOf(k) : page \in PoolPages(n)}) = 1
      <3>1. PICK n \in PoolsOf(k) : page \in PoolPages(n)
        BY <2>1, <2>3 DEF Tiled
      <3>2. {m \in PoolsOf(k) : page \in PoolPages(m)} = {n}
        BY <2>1, <3>1 DEF Tiled
      <3> QED
        BY <3>2, FS_Singleton
    <2>4. \A n \in PoolsOf(k) : PoolPages(n) \subseteq PagesGiven(k)
      BY <2>1 DEF Tiled
    <2> QED
      BY <2>2, <2>3, <2>4
  <1> QED
    BY <1>1, PetMemSafe, PTL

(* While sysfs calls no block removable that the driver has, no two pools   *)
(* overlap and no block of the driver is online.                            *)
THEOREM PetMemPoolsApart == MemSpec => []PoolsApart
  <1>1. MemInv => PoolsApart
    BY Apart, MemInvParts DEF PoolsApart, BlocksApart
  <1> QED
    BY <1>1, PetMemSafe, PTL

(* A caller gets pages of the driver or __pa(NULL); while sysfs calls no    *)
(* block removable that the driver has, no two callers have a page in       *)
(* common.                                                                  *)
THEOREM PetMemHandedOutOnce == MemSpec => []HandedOutOnce
  <1>1. MemInv => HandedOutOnce
    <2> SUFFICES ASSUME MemInv, NEW c \in Callers
                 PROVE  /\ \A page \in Handed(c) : page \in AllPages /\ BlockOf(page) \in GivenBlocks
                        /\ trusted => \A d \in Callers \ {c} : Handed(c) \cap Handed(d) = {}
      BY DEF HandedOutOnce
    <2>1. HandedRight
      BY MemInvParts
    <2>2. ASSUME NEW page \in Handed(c)
          PROVE  page \in AllPages /\ BlockOf(page) \in GivenBlocks
      <3>1. PICK n \in DOMAIN petmem_pool_list : \E b \in petmem_pool_list[n].held :
               Handed(c) \subseteq Held(n, b)
        BY <2>1, <2>2 DEF HandedRight
      <3>2. PICK b \in petmem_pool_list[n].held : Handed(c) \subseteq Held(n, b)
        BY <3>1
      <3>3. Held(n, b) \subseteq PoolPages(n)
        BY HeldIn
      <3> DEFINE k == petmem_pool_list[n].call
      <3>4. k \in DOMAIN given /\ PoolPages(n) \subseteq PagesGiven(k)
        BY PoolIn
      <3>5. page \in PagesGiven(k)
        BY <2>2, <3>2, <3>3, <3>4
      <3> HIDE DEF k
      <3> QED
        BY <3>4, <3>5 DEF PagesGiven, GivenBlocks
    <2> QED
      BY <2>1, <2>2 DEF HandedRight
  <1> QED
    BY <1>1, PetMemSafe, PTL

=============================================================================
