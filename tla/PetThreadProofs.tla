-------------------------- MODULE PetThreadProofs --------------------------
(***************************************************************************)
(* Proofs about the user-level threads, for any number of threads and any  *)
(* calls, as long as main does not join and nobody joins main: a thread is *)
(* in the one list its state names, no wake-up is lost, a join returns the *)
(* right value, no assertion fails, and ready_list is a queue.             *)
(*                                                                         *)
(* And about the library's hash table, for any sizes, load limits, keys,   *)
(* hashes and values: its fields are right and its entries are linked      *)
(* once, in the chain of their hash; an iterator at the end has been at    *)
(* every entry once; and the calls are those on one stack per key.         *)
(***************************************************************************)
EXTENDS PetThread, HashTable, FiniteSetTheorems, SequenceTheorems, WellFoundedInduction, TLAPS

----------------------------------------------------------------------------
(* list_del: what Without returns. *)

(* Induction over the naturals; a predicate is the set of numbers that      *)
(* satisfy it.                                                              *)
LEMMA SetInduction ==
    ASSUME NEW P \in SUBSET Nat, 0 \in P, \A n \in P : n + 1 \in P
    PROVE  P = Nat
  <1> SUFFICES ASSUME Nat \ P # {} PROVE FALSE
    OBVIOUS
  <1>1. PICK x \in Nat \ P : \A y \in Nat \ P : <<y, x>> \notin OpToRel(<, Nat)
    BY NatLessThanWellFounded, WFMin
  <1>2. \A y \in Nat \ P : ~(y < x)
    BY <1>1 DEF OpToRel
  <1>3. x # 0 /\ x - 1 \in Nat /\ x - 1 < x
    OBVIOUS
  <1>4. x - 1 \in P
    BY <1>2, <1>3
  <1>5. (x - 1) + 1 = x
    OBVIOUS
  <1> QED
    BY <1>4, <1>5

(* one pass of the recursion *)
Keep(list, S, before, n) ==
    IF list[n] \in S THEN before ELSE Append(before, list[n])

(* g has gone through the first n entries *)
KeptTo(list, S, g, n) ==
    /\ g \in [0 .. n -> Seq(Threads)] /\ g[0] = <<>>
    /\ \A m \in 1 .. n : g[m] = Keep(list, S, g[m - 1], m)

LEMMA KeepType ==
    ASSUME NEW list \in Seq(Threads), NEW S, NEW s \in Seq(Threads), NEW n \in 1 .. Len(list)
    PROVE  Keep(list, S, s, n) \in Seq(Threads)
  <1>1. list[n] \in Threads
    OBVIOUS
  <1> QED
    BY <1>1 DEF Keep

LEMMA KeptExists ==
    ASSUME NEW list \in Seq(Threads), NEW S
    PROVE  \E g : KeptTo(list, S, g, Len(list))
  <1> DEFINE P == {n \in Nat : n <= Len(list) => \E g : KeptTo(list, S, g, n)}
  <1>1. 0 \in P
    <2>1. KeptTo(list, S, [m \in 0 .. 0 |-> <<>>], 0)
      BY DEF KeptTo
    <2> QED
      BY <2>1
  <1>2. ASSUME NEW n \in P PROVE n + 1 \in P
    <2> SUFFICES ASSUME n + 1 <= Len(list) PROVE \E g : KeptTo(list, S, g, n + 1)
      OBVIOUS
    <2>1. PICK g : KeptTo(list, S, g, n)
      <3>1. n <= Len(list)
        OBVIOUS
      <3> QED
        BY <3>1
    <2> DEFINE new == Keep(list, S, g[n], n + 1)
               h == [m \in 0 .. n + 1 |-> IF m <= n THEN g[m] ELSE new]
    <2>2. new \in Seq(Threads)
      <3>1. n + 1 \in 1 .. Len(list) /\ g[n] \in Seq(Threads)
        BY <2>1 DEF KeptTo
      <3> QED
        BY <3>1, KeepType
    <2> HIDE DEF new
    <2>3. h \in [0 .. n + 1 -> Seq(Threads)] /\ h[0] = <<>>
      BY <2>1, <2>2 DEF KeptTo
    <2>4. ASSUME NEW m \in 1 .. n + 1 PROVE h[m] = Keep(list, S, h[m - 1], m)
      <3>1. CASE m = n + 1
        <4>1. h[m] = new /\ h[m - 1] = g[n]
          BY <3>1
        <4> QED
          BY <3>1, <4>1 DEF new
      <3>2. CASE m # n + 1
        <4>1. m \in 1 .. n /\ h[m] = g[m] /\ h[m - 1] = g[m - 1]
          BY <3>2
        <4> QED
          BY <2>1, <4>1 DEF KeptTo
      <3> QED
        BY <3>1, <3>2
    <2> HIDE DEF h
    <2>5. KeptTo(list, S, h, n + 1)
      BY <2>3, <2>4 DEF KeptTo
    <2> QED
      BY <2>5
  <1>3. P = Nat
    <2>1. P \in SUBSET Nat
      OBVIOUS
    <2> HIDE DEF P
    <2> QED
      BY <1>1, <1>2, <2>1, SetInduction
  <1>4. Len(list) \in Nat /\ Len(list) <= Len(list)
    OBVIOUS
  <1> QED
    BY <1>3, <1>4

(* w is what remains of the first k entries, in their order *)
Remains(list, S, w, k) ==
    /\ w \in Seq(Threads)
    /\ \A n \in 1 .. Len(w) : \E a \in 1 .. k : w[n] = list[a] /\ list[a] \notin S
    /\ \A a \in 1 .. k : list[a] \notin S => \E n \in 1 .. Len(w) : w[n] = list[a]
    /\ \A m, n \in 1 .. Len(w) : m < n =>
          \E a, b \in 1 .. k : a < b /\ w[m] = list[a] /\ w[n] = list[b]

LEMMA RemainsGrows ==
    ASSUME NEW list \in Seq(Threads), NEW S, NEW k \in Nat, k + 1 <= Len(list), NEW w,
           Remains(list, S, w, k)
    PROVE  Remains(list, S, Keep(list, S, w, k + 1), k + 1)
  <1>1. k + 1 \in 1 .. Len(list) /\ list[k + 1] \in Threads /\ w \in Seq(Threads)
    BY DEF Remains
  <1>2. \A a \in 1 .. k : a \in 1 .. k + 1
    OBVIOUS
  <1>3. CASE list[k + 1] \in S
    <2>1. Keep(list, S, w, k + 1) = w
      BY <1>3 DEF Keep
    <2>2. \A a \in 1 .. k + 1 : list[a] \notin S => a \in 1 .. k
      BY <1>3
    <2>3. \A n \in 1 .. Len(w) :
             \E a \in 1 .. k + 1 : w[n] = list[a] /\ list[a] \notin S
      BY <1>2 DEF Remains
    <2>4. \A m, n \in 1 .. Len(w) : m < n =>
             \E a, b \in 1 .. k + 1 : a < b /\ w[m] = list[a] /\ w[n] = list[b]
      BY <1>2 DEF Remains
    <2>5. \A a \in 1 .. k + 1 : list[a] \notin S => \E n \in 1 .. Len(w) : w[n] = list[a]
      BY <2>2 DEF Remains
    <2>6. Remains(list, S, w, k + 1)
      BY <1>1, <2>3, <2>4, <2>5 DEF Remains
    <2> QED
      BY <2>1, <2>6
  <1>4. CASE list[k + 1] \notin S
    <2> DEFINE v == Append(w, list[k + 1])
    <2>1. Keep(list, S, w, k + 1) = v
      BY <1>4 DEF Keep
    <2>2. /\ v \in Seq(Threads) /\ Len(v) = Len(w) + 1 /\ v[Len(w) + 1] = list[k + 1]
          /\ \A n \in 1 .. Len(w) : v[n] = w[n] /\ n \in 1 .. Len(v)
          /\ Len(w) \in Nat /\ Len(w) + 1 \in 1 .. Len(v)
      BY <1>1
    <2> HIDE DEF v
    <2>3. \A n \in 1 .. Len(v) : n \in 1 .. Len(w) \/ n = Len(w) + 1
      BY <2>2
    <2>4. ASSUME NEW n \in 1 .. Len(v)
          PROVE  \E a \in 1 .. k + 1 : v[n] = list[a] /\ list[a] \notin S
      <3>1. CASE n = Len(w) + 1
        <4>1. k + 1 \in 1 .. k + 1
          OBVIOUS
        <4> QED
          BY <1>4, <2>2, <3>1, <4>1
      <3>2. CASE n \in 1 .. Len(w)
        <4>1. PICK a \in 1 .. k : w[n] = list[a] /\ list[a] \notin S
          BY <3>2 DEF Remains
        <4> QED
          BY <1>2, <2>2, <3>2, <4>1
      <3> QED
        BY <2>3, <3>1, <3>2
    <2>5. ASSUME NEW a \in 1 .. k + 1, list[a] \notin S
          PROVE  \E n \in 1 .. Len(v) : v[n] = list[a]
      <3>1. CASE a = k + 1
        BY <2>2, <3>1
      <3>2. CASE a # k + 1
        <4>1. a \in 1 .. k
          BY <3>2
        <4>2. PICK n \in 1 .. Len(w) : w[n] = list[a]
          BY <2>5, <4>1 DEF Remains
        <4> QED
          BY <2>2, <4>2
      <3> QED
        BY <3>1, <3>2
    <2>6. ASSUME NEW m \in 1 .. Len(v), NEW n \in 1 .. Len(v), m < n
          PROVE  \E a, b \in 1 .. k + 1 : a < b /\ v[m] = list[a] /\ v[n] = list[b]
      <3>1. m \in 1 .. Len(w)
        BY <2>2, <2>6
      <3>2. CASE n = Len(w) + 1
        <4>1. PICK a \in 1 .. k : w[m] = list[a]
          BY <3>1 DEF Remains
        <4>2. a < k + 1 /\ a \in 1 .. k + 1 /\ k + 1 \in 1 .. k + 1
          OBVIOUS
        <4> QED
          BY <2>2, <3>1, <3>2, <4>1, <4>2
      <3>3. CASE n # Len(w) + 1
        <4>1. n \in 1 .. Len(w)
          BY <2>3, <3>3
        <4>2. PICK a \in 1 .. k, b \in 1 .. k : a < b /\ w[m] = list[a] /\ w[n] = list[b]
          BY <2>6, <3>1, <4>1 DEF Remains
        <4> QED
          BY <1>2, <2>2, <3>1, <4>1, <4>2
      <3> QED
        BY <3>2, <3>3
    <2>7. Remains(list, S, v, k + 1)
      BY <2>2, <2>4, <2>5, <2>6 DEF Remains
    <2> QED
      BY <2>1, <2>7
  <1> QED
    BY <1>3, <1>4

LEMMA WithoutRemains ==
    ASSUME NEW list \in Seq(Threads), NEW S
    PROVE  Remains(list, S, Without(list, S), Len(list))
  <1> DEFINE F(w, n) == IF n = 0 THEN <<>>
                            ELSE IF list[n] \in S THEN w[n - 1]
                                 ELSE Append(w[n - 1], list[n])
             w == CHOOSE w : w = [n \in 0 .. Len(list) |-> F(w, n)]
  <1>1. ASSUME NEW g, KeptTo(list, S, g, Len(list))
        PROVE  g = [n \in 0 .. Len(list) |-> F(g, n)]
    <2>1. ASSUME NEW n \in 0 .. Len(list) PROVE g[n] = F(g, n)
      <3>1. CASE n = 0
        BY <1>1, <3>1 DEF KeptTo
      <3>2. CASE n # 0
        <4>1. n \in 1 .. Len(list)
          BY <3>2
        <4> QED
          BY <1>1, <3>2, <4>1 DEF KeptTo, Keep
      <3> QED
        BY <3>1, <3>2
    <2>2. g = [n \in 0 .. Len(list) |-> g[n]]
      BY <1>1 DEF KeptTo
    <2> HIDE DEF F
    <2> QED
      BY <2>1, <2>2
  <1>2. w = [n \in 0 .. Len(list) |-> F(w, n)]
    <2> HIDE DEF F
    <2> QED
      BY <1>1, KeptExists, Zenon
  <1>3. Without(list, S) = w[Len(list)]
    BY Zenon DEF Without
  <1> HIDE DEF w
  <1>4. /\ w[0] = <<>> /\ Len(list) \in Nat
        /\ \A n \in Nat : n + 1 <= Len(list) => w[n + 1] = Keep(list, S, w[n], n + 1)
    <2>1. \A n \in 0 .. Len(list) : w[n] = F(w, n)
      BY <1>2, Zenon
    <2>2. w[0] = <<>>
      BY <2>1
    <2>3. ASSUME NEW n \in Nat, n + 1 <= Len(list)
          PROVE  w[n + 1] = Keep(list, S, w[n], n + 1)
      <3>1. n + 1 \in 0 .. Len(list) /\ n + 1 # 0 /\ (n + 1) - 1 = n
        BY <2>3
      <3> QED
        BY <2>1, <3>1 DEF Keep
    <2> QED
      BY <2>2, <2>3
  <1> DEFINE P == {n \in Nat : n <= Len(list) => Remains(list, S, w[n], n)}
  <1>5. 0 \in P
    <2>1. Remains(list, S, <<>>, 0)
      BY DEF Remains
    <2> QED
      BY <1>4, <2>1
  <1>6. ASSUME NEW n \in P PROVE n + 1 \in P
    <2> SUFFICES ASSUME n + 1 <= Len(list) PROVE Remains(list, S, w[n + 1], n + 1)
      OBVIOUS
    <2>1. Remains(list, S, w[n], n)
      BY <1>4
    <2> QED
      BY <1>4, <2>1, RemainsGrows
  <1>7. P = Nat
    <2>1. P \in SUBSET Nat
      OBVIOUS
    <2> HIDE DEF P
    <2> QED
      BY <1>5, <1>6, <2>1, SetInduction
  <1>8. Len(list) \in P /\ Len(list) <= Len(list)
    BY <1>4, <1>7
  <1> QED
    BY <1>3, <1>8
----------------------------------------------------------------------------
(* Lists without duplicates. *)

Tidy(s) == s \in Seq(Threads) /\ NoDuplicates(s)

LEMMA TidyEmpty ==
    /\ Tidy(<<>>) /\ ToSet(<<>>) = {}
    /\ \A s \in Seq(Threads) : s # <<>> => Head(s) \in ToSet(s) /\ Head(s) \in Threads
  <1>1. Tidy(<<>>) /\ ToSet(<<>>) = {}
    BY DEF Tidy, NoDuplicates, ToSet
  <1>2. ASSUME NEW s \in Seq(Threads), s # <<>>
        PROVE  Head(s) \in ToSet(s) /\ Head(s) \in Threads
    <2>1. 1 \in DOMAIN s /\ Head(s) = s[1] /\ s[1] \in Threads
      BY <1>2
    <2> QED
      BY <2>1 DEF ToSet
  <1> QED
    BY <1>1, <1>2

LEMMA TidyMembers ==
    ASSUME NEW s, Tidy(s)
    PROVE  ToSet(s) \subseteq Threads /\ s \in Seq(Threads)
  BY DEF Tidy, ToSet

LEMMA TidyWithout ==
    ASSUME NEW s, Tidy(s), NEW S
    PROVE  Tidy(Without(s, S)) /\ ToSet(Without(s, S)) = ToSet(s) \ S
  <1> DEFINE w == Without(s, S)
  <1>1. s \in Seq(Threads) /\ DOMAIN s = 1 .. Len(s) /\ Len(s) \in Nat
    BY DEF Tidy
  <1>2. Remains(s, S, w, Len(s))
    BY <1>1, WithoutRemains
  <1> HIDE DEF w
  <1>3. w \in Seq(Threads) /\ DOMAIN w = 1 .. Len(w) /\ Len(w) \in Nat
    BY <1>2 DEF Remains
  <1>4. ToSet(w) = ToSet(s) \ S
    <2>1. ASSUME NEW n \in 1 .. Len(w) PROVE w[n] \in ToSet(s) \ S
      BY <1>1, <1>2 DEF Remains, ToSet
    <2>2. ASSUME NEW a \in 1 .. Len(s), s[a] \notin S PROVE s[a] \in ToSet(w)
      BY <1>2, <1>3, <2>2 DEF Remains, ToSet
    <2>3. ToSet(w) \subseteq ToSet(s) \ S
      BY <1>3, <2>1 DEF ToSet
    <2>4. ToSet(s) \ S \subseteq ToSet(w)
      BY <1>1, <2>2 DEF ToSet
    <2> QED
      BY <2>3, <2>4
  <1>5. ASSUME NEW m \in 1 .. Len(w), NEW n \in 1 .. Len(w), m < n PROVE w[m] # w[n]
    <2>1. PICK a \in 1 .. Len(s), b \in 1 .. Len(s) : a < b /\ w[m] = s[a] /\ w[n] = s[b]
      BY <1>2, <1>5 DEF Remains
    <2>2. a # b
      BY <2>1
    <2> QED
      BY <1>1, <2>1, <2>2 DEF Tidy, NoDuplicates
  <1>6. NoDuplicates(w)
    BY <1>3, <1>5 DEF NoDuplicates
  <1> QED
    BY <1>3, <1>4, <1>6 DEF Tidy, w

LEMMA TidyConcat ==
    ASSUME NEW s, Tidy(s), NEW r, Tidy(r), ToSet(s) \cap ToSet(r) = {}
    PROVE  Tidy(s \o r) /\ ToSet(s \o r) = ToSet(s) \cup ToSet(r)
  <1> DEFINE c == s \o r
  <1>1. /\ s \in Seq(Threads) /\ DOMAIN s = 1 .. Len(s) /\ Len(s) \in Nat
        /\ r \in Seq(Threads) /\ DOMAIN r = 1 .. Len(r) /\ Len(r) \in Nat
    BY DEF Tidy
  <1>2. /\ c \in Seq(Threads) /\ Len(c) = Len(s) + Len(r) /\ DOMAIN c = 1 .. Len(s) + Len(r)
        /\ \A k \in 1 .. Len(s) : c[k] = s[k]
        /\ \A k \in 1 .. Len(r) : c[Len(s) + k] = r[k]
    BY <1>1
  <1> HIDE DEF c
  <1>3. ASSUME NEW k \in DOMAIN c
        PROVE  \/ k \in 1 .. Len(s) /\ c[k] = s[k] /\ c[k] \in ToSet(s)
               \/ k - Len(s) \in 1 .. Len(r) /\ c[k] = r[k - Len(s)] /\ c[k] \in ToSet(r)
    <2>1. CASE k <= Len(s)
      <3>1. k \in 1 .. Len(s)
        BY <1>1, <1>2, <2>1
      <3> QED
        BY <1>1, <1>2, <3>1 DEF ToSet
    <2>2. CASE k > Len(s)
      <3>1. k - Len(s) \in 1 .. Len(r) /\ k = Len(s) + (k - Len(s))
        BY <1>1, <1>2, <2>2
      <3> QED
        BY <1>1, <1>2, <3>1 DEF ToSet
    <2> QED
      BY <1>1, <1>2, <2>1, <2>2
  <1>4. ToSet(c) = ToSet(s) \cup ToSet(r)
    <2>1. ToSet(c) \subseteq ToSet(s) \cup ToSet(r)
      BY <1>3 DEF ToSet
    <2>2. ASSUME NEW k \in 1 .. Len(s) PROVE s[k] \in ToSet(c)
      <3>1. k \in DOMAIN c
        BY <1>1, <1>2
      <3> QED
        BY <1>2, <3>1 DEF ToSet
    <2>3. ASSUME NEW k \in 1 .. Len(r) PROVE r[k] \in ToSet(c)
      <3>1. Len(s) + k \in DOMAIN c
        BY <1>1, <1>2
      <3> QED
        BY <1>2, <3>1 DEF ToSet
    <2> QED
      BY <1>1, <2>1, <2>2, <2>3 DEF ToSet
  <1>5. ASSUME NEW m \in DOMAIN c, NEW n \in DOMAIN c, c[m] = c[n] PROVE m = n
    <2>1. CASE m \in 1 .. Len(s) /\ c[m] = s[m] /\ n \in 1 .. Len(s) /\ c[n] = s[n]
      BY <1>1, <1>5, <2>1 DEF Tidy, NoDuplicates
    <2>2. CASE /\ m - Len(s) \in 1 .. Len(r) /\ c[m] = r[m - Len(s)]
               /\ n - Len(s) \in 1 .. Len(r) /\ c[n] = r[n - Len(s)]
      <3>1. m - Len(s) = n - Len(s)
        BY <1>1, <1>5, <2>2 DEF Tidy, NoDuplicates
      <3> QED
        BY <1>1, <1>2, <3>1
    <2> QED
      BY <1>3, <1>5, <2>1, <2>2
  <1>6. NoDuplicates(c)
    BY <1>5 DEF NoDuplicates
  <1> QED
    BY <1>2, <1>4, <1>6 DEF Tidy, c

LEMMA TidyAppend ==
    ASSUME NEW s, Tidy(s), NEW e \in Threads, e \notin ToSet(s)
    PROVE  Tidy(Append(s, e)) /\ ToSet(Append(s, e)) = ToSet(s) \cup {e}
  <1> DEFINE r == <<e>>
  <1>1. s \in Seq(Threads) /\ r \in Seq(Threads) /\ DOMAIN r = 1 .. 1 /\ r[1] = e
    BY DEF Tidy
  <1>2. Append(s, e) = s \o r
    BY <1>1
  <1> HIDE DEF r
  <1>3. ToSet(r) = {e} /\ Tidy(r)
    BY <1>1 DEF ToSet, Tidy, NoDuplicates
  <1> QED
    BY <1>2, <1>3, TidyConcat

----------------------------------------------------------------------------
(* Switching. *)

(* the lists and states that a caller hands to the switch while r runs *)
Placed(st, rl, bl, r) ==
    /\ st \in [Threads -> {"UNBORN", "RUNNING", "READY", "BLOCKED", "STOPPED", "FREED"}]
    /\ r \in Threads /\ Tidy(rl) /\ Tidy(bl)
    /\ st[r] \in {"RUNNING", "BLOCKED", "STOPPED"} /\ (r = Master => st[r] = "RUNNING")
    /\ \A t \in Threads \ {r} : st[t] \notin {"RUNNING", "STOPPED"}
    /\ \A t \in Created : t \in ToSet(rl) <=> st[t] = "READY"
    /\ \A t \in Created : t \in ToSet(bl) <=> (st[t] = "BLOCKED" /\ t # r)
    /\ Master \notin ToSet(rl) /\ Master \notin ToSet(bl)
    /\ r # Master => st[Master] = "READY"

(* what the switch keeps of a thread's state *)
Alive == {"READY", "RUNNING"}
SameLife(before, after) ==
    /\ after = "BLOCKED" <=> before = "BLOCKED"
    /\ after \in Alive <=> before \in Alive
    /\ after = "FREED" <=> before \in {"STOPPED", "FREED"}
    /\ after = "UNBORN" <=> before = "UNBORN"

States == {"UNBORN", "RUNNING", "READY", "BLOCKED", "FREED"}

Lists ==
    /\ state \in [Threads -> States]
    /\ running \in Threads
    /\ Tidy(ready_list) /\ Tidy(blocked_list)
    /\ OnePlace /\ MainPlaced

Switched(st) ==
    /\ failed' = failed
    /\ Lists'
    /\ \A t \in Threads : SameLife(st[t], state'[t])

LEMMA MasterApart ==
    /\ Master \in Threads /\ Master \notin Created /\ Threads = Created \cup {Master}
    /\ \A t \in Threads : t # Master => t \in Created
    /\ NoThread \notin Threads
  BY MaxThreadsAssumption DEF Master, Threads, Created, NoThread

LEMMA InvokeSwitches ==
    ASSUME NEW st, NEW rl, NEW bl, Placed(st, rl, bl, running),
           NEW thread \in Threads, st[thread] = "READY",
           ThreadInvoker(thread, st, rl, bl)
    PROVE  Switched(st)
  <1> DEFINE old == running
             rest == IF thread = Master THEN rl ELSE Without(rl, {thread})
  <1>1. st[old] # "READY" /\ thread # old /\ old \in Threads
    BY DEF Placed
  <1>2. /\ running' = thread /\ failed' = failed
        /\ ready_list' = ReadyAfter(rest, st, old)
        /\ blocked_list' = IF st[old] = "BLOCKED" THEN Append(bl, old) ELSE bl
        /\ state' = [st EXCEPT ![old] = StateAfter(@), ![thread] = "RUNNING"]
    BY <1>1 DEF ThreadInvoker
  <1>3. Tidy(rest) /\ ToSet(rest) = ToSet(rl) \ {thread}
    <2>1. CASE thread = Master
      BY <2>1 DEF Placed
    <2>2. CASE thread # Master
      BY <2>2, TidyWithout DEF Placed
    <2> QED
      BY <2>1, <2>2
  <1> HIDE DEF rest
  <1>4. /\ state' \in [Threads -> States]
        /\ state'[thread] = "RUNNING" /\ state'[old] = StateAfter(st[old])
        /\ \A t \in Threads \ {thread, old} : state'[t] = st[t]
    BY <1>1, <1>2 DEF Placed, StateAfter, States
  <1>5. state'[old] = IF st[old] = "RUNNING" THEN "READY"
                      ELSE IF st[old] = "BLOCKED" THEN "BLOCKED" ELSE "FREED"
    BY <1>4 DEF Placed, StateAfter
  <1>6. old \notin ToSet(rl) /\ old \notin ToSet(bl)
    BY <1>1, MasterApart DEF Placed
  <1>7. /\ Tidy(ready_list')
        /\ ToSet(ready_list') = (ToSet(rl) \ {thread}) \cup
                                (IF st[old] = "RUNNING" /\ old # Master THEN {old} ELSE {})
    BY <1>1, <1>2, <1>3, <1>6, TidyAppend DEF ReadyAfter
  <1>8. /\ Tidy(blocked_list')
        /\ ToSet(blocked_list') = ToSet(bl) \cup (IF st[old] = "BLOCKED" THEN {old} ELSE {})
    BY <1>1, <1>2, <1>6, TidyAppend DEF Placed
  <1>9. MainPlaced'
    <2>1. Master \notin ToSet(ready_list') /\ Master \notin ToSet(blocked_list')
      BY <1>7, <1>8 DEF Placed
    <2>2. state'[Master] = IF running' = Master THEN "RUNNING" ELSE "READY"
      BY <1>1, <1>2, <1>4, <1>5, MasterApart DEF Placed
    <2> QED
      BY <2>1, <2>2 DEF MainPlaced, Master, ToSet
  <1>10. OnePlace'
    <2>1. ASSUME NEW t \in Created
          PROVE  /\ t \in ToSet(ready_list') <=> state'[t] = "READY"
                 /\ t \in ToSet(blocked_list') <=> state'[t] = "BLOCKED"
                 /\ t = running' <=> state'[t] = "RUNNING"
      <3>1. t \in Threads /\ t # Master
        BY MasterApart
      <3>2. /\ t \in ToSet(rl) <=> st[t] = "READY"
            /\ t \in ToSet(bl) <=> (st[t] = "BLOCKED" /\ t # old)
            /\ t # old => st[t] \notin {"RUNNING", "STOPPED"}
        BY <3>1 DEF Placed
      <3>3. CASE t = thread
        BY <1>1, <1>2, <1>4, <1>7, <1>8, <3>2, <3>3
      <3>4. CASE t = old
        BY <1>1, <1>2, <1>5, <1>6, <1>7, <1>8, <3>1, <3>4 DEF Placed
      <3>5. CASE t # thread /\ t # old
        BY <1>2, <1>4, <1>7, <1>8, <3>1, <3>2, <3>5
      <3> QED
        BY <3>3, <3>4, <3>5
    <2> QED
      BY <1>7, <1>8, <2>1 DEF OnePlace, Tidy, Created, NoDuplicates, ToSet
  <1>11. ASSUME NEW t \in Threads PROVE SameLife(st[t], state'[t])
    BY <1>1, <1>4, <1>5 DEF SameLife, Alive, Placed
  <1> QED
    BY <1>2, <1>4, <1>7, <1>8, <1>9, <1>10, <1>11 DEF Switched, Lists, Tidy, NoDuplicates

LEMMA ScheduleSwitches ==
    ASSUME NEW st, NEW rl, NEW bl, Placed(st, rl, bl, running),
           Schedule(st, rl, bl)
    PROVE  Switched(st)
  <1>1. CASE rl # <<>>
    <2>1. Head(rl) \in ToSet(rl) /\ Head(rl) \in Threads
      BY <1>1, TidyEmpty, TidyMembers DEF Placed
    <2>2. st[Head(rl)] = "READY"
      BY <2>1, MasterApart DEF Placed
    <2>3. ThreadInvoker(Head(rl), st, rl, bl)
      BY <1>1, <2>2 DEF Schedule
    <2> QED
      BY <2>1, <2>2, <2>3, InvokeSwitches
  <1>2. CASE rl = <<>> /\ running # Master
    <2>1. st[Master] = "READY" /\ ThreadInvoker(Master, st, rl, bl)
      BY <1>2 DEF Schedule, Placed
    <2> QED
      BY <2>1, InvokeSwitches, MasterApart
  <1>3. CASE rl = <<>> /\ running = Master
    <2>1. /\ state' = st /\ ready_list' = rl /\ blocked_list' = bl
          /\ running' = running /\ failed' = failed
      BY <1>3 DEF Schedule
    <2>2. st[Master] = "RUNNING" /\ \A t \in Created : st[t] \notin {"RUNNING", "STOPPED"}
      BY <1>3, MasterApart DEF Placed
    <2>3. MainPlaced'
      BY <1>3, <2>1, <2>2 DEF MainPlaced, Placed, Master, ToSet
    <2>4. OnePlace'
      <3>1. \A t \in Created : t # running
        BY <1>3, MasterApart
      <3> QED
        BY <2>1, <2>2, <3>1 DEF OnePlace, Placed, Tidy, Created, NoDuplicates, ToSet
    <2>5. st \in [Threads -> States]
      BY <2>2, MasterApart DEF Placed, States
    <2>6. \A t \in Threads : SameLife(st[t], state'[t])
      BY <2>1, <2>5 DEF SameLife, Alive, States
    <2> QED
      BY <2>1, <2>3, <2>4, <2>5, <2>6 DEF Switched, Lists, Placed, Tidy, NoDuplicates
  <1> QED
    BY <1>1, <1>2, <1>3

(* The lists as they are between two calls can be handed to the switch. *)
LEMMA ListsPlaced ==
    ASSUME Lists
    PROVE  /\ Placed(state, ready_list, blocked_list, running)
           /\ state[running] = "RUNNING"
  <1>1. state[running] = "RUNNING"
    BY MasterApart DEF Lists, OnePlace, MainPlaced
  <1>2. \A t \in Threads \ {running} : state[t] \notin {"RUNNING", "STOPPED"}
    BY MasterApart DEF Lists, OnePlace, MainPlaced, States
  <1> QED
    BY <1>1, <1>2, MasterApart DEF Lists, OnePlace, MainPlaced, States, Placed

----------------------------------------------------------------------------
(* ThreadInv is inductive. *)

(* TypeOK of what the switch leaves alone *)
OtherTypes ==
    /\ waiting_for_me \in [Threads -> Seq(Threads)]
    /\ return_reciever \in [Threads -> Threads \cup {-1}]
    /\ thread_id_count \in 1 .. MaxThreads + 1
    /\ at \in [Threads -> {"user", "schedule", "return 9", "yield_to", "join",
                           "exit", "run"}]
    /\ joined \in [Threads -> Threads \cup {NoThread}]

LEMMA ThreadInvParts ==
    /\ ThreadInv <=> /\ Lists /\ OtherTypes /\ failed = FALSE
                     /\ IdsFresh /\ WaitersKept /\ JoinsRight
    /\ ThreadInv' <=> /\ Lists' /\ OtherTypes' /\ failed' = FALSE
                      /\ IdsFresh' /\ WaitersKept' /\ JoinsRight'
  <1>1. /\ TypeOK /\ NoFailure /\ OnePlace /\ MainPlaced <=>
              Lists /\ OtherTypes /\ failed = FALSE
        /\ TypeOK' /\ NoFailure' /\ OnePlace' /\ MainPlaced' <=>
              Lists' /\ OtherTypes' /\ failed' = FALSE
    <2>1. /\ ~failed /\ failed \in BOOLEAN <=> failed = FALSE
          /\ ~failed' /\ failed' \in BOOLEAN <=> failed' = FALSE
      OBVIOUS
    <2> QED
      BY <2>1 DEF TypeOK, NoFailure, OnePlace, Lists, OtherTypes, Tidy, States
  <1> QED
    BY <1>1 DEF ThreadInv

LEMMA InitInv == Init => ThreadInv
  <1> SUFFICES ASSUME Init PROVE ThreadInv
    OBVIOUS
  <1>1. Lists
    BY TidyEmpty, MasterApart DEF Init, Lists, OnePlace, MainPlaced, States, Tidy
  <1>2. OtherTypes /\ IdsFresh /\ failed = FALSE
    BY MaxThreadsAssumption, MasterApart
       DEF Init, OtherTypes, IdsFresh, Created, Threads, Master, NoThread
  <1>3. WaitersKept /\ JoinsRight
    BY TidyEmpty DEF Init, WaitersKept, JoinsRight, NoDuplicates
  <1> QED
    BY <1>1, <1>2, <1>3, ThreadInvParts

(* A call that only switches, and moves its caller's resume point. *)
LEMMA PlainSwitch ==
    ASSUME ThreadInv, Switched(state),
           UNCHANGED <<waiting_for_me, return_reciever, thread_id_count, joined>>,
           NEW l \in {"user", "schedule", "return 9", "yield_to", "exit", "run"},
           at' = [at EXCEPT ![running] = l]
    PROVE  ThreadInv'
  <1>1. Lists /\ OtherTypes /\ failed = FALSE /\ IdsFresh /\ WaitersKept /\ JoinsRight
    BY ThreadInvParts
  <1>2. Lists' /\ failed' = FALSE /\ \A t \in Threads : SameLife(state[t], state'[t])
    BY <1>1 DEF Switched
  <1>3. OtherTypes'
    BY <1>1 DEF OtherTypes
  <1>4. IdsFresh'
    <2>1. \A t \in Created : state'[t] = "UNBORN" <=> state[t] = "UNBORN"
      BY <1>2, MasterApart DEF SameLife
    <2>2. \A t \in Created : state[t] = "UNBORN" => at'[t] = at[t]
      BY <1>1, ListsPlaced, MasterApart DEF OtherTypes, Lists
    <2> QED
      BY <1>1, <2>1, <2>2 DEF IdsFresh, Created
  <1>5. WaitersKept'
    <2>1. \A t \in Threads : state'[t] = "BLOCKED" <=> state[t] = "BLOCKED"
      BY <1>2 DEF SameLife
    <2>2. \A t \in Threads : state[t] \in {"RUNNING", "READY", "BLOCKED"} =>
             state'[t] \in {"RUNNING", "READY", "BLOCKED"}
      BY <1>2 DEF SameLife, Alive
    <2> QED
      BY <1>1, <2>1, <2>2 DEF WaitersKept
  <1>6. JoinsRight'
    <2>1. state[running] = "RUNNING" /\ running \in Threads
      BY <1>1, ListsPlaced DEF Lists
    <2>2. \A t \in Threads : /\ at'[t] = "join" => at[t] = "join"
                             /\ t # running => at'[t] = at[t]
      BY <1>1 DEF OtherTypes
    <2>3. \A t \in Threads : /\ state'[t] = "BLOCKED" <=> state[t] = "BLOCKED"
                             /\ state'[t] \in {"READY", "RUNNING"} =>
                                   state[t] \in {"READY", "RUNNING"}
                             /\ state[t] = "FREED" => state'[t] = "FREED"
      BY <1>2 DEF SameLife, Alive
    <2> SUFFICES ASSUME NEW t \in Threads
                 PROVE  /\ state'[t] = "BLOCKED" =>
                              /\ at'[t] = "join" /\ joined[t] \in Threads
                              /\ t \in ToSet(waiting_for_me[joined[t]])
                        /\ at'[t] = "join" /\ state'[t] \in {"READY", "RUNNING"} =>
                              /\ joined[t] \in Threads
                              /\ return_reciever[t] = joined[t]
                              /\ state'[joined[t]] = "FREED"
      BY DEF JoinsRight
    <2>4. /\ state[t] = "BLOCKED" =>
                /\ at[t] = "join" /\ joined[t] \in Threads
                /\ t \in ToSet(waiting_for_me[joined[t]])
          /\ at[t] = "join" /\ state[t] \in {"READY", "RUNNING"} =>
                /\ joined[t] \in Threads
                /\ return_reciever[t] = joined[t]
                /\ state[joined[t]] = "FREED"
      BY <1>1 DEF JoinsRight
    <2> QED
      BY <2>1, <2>2, <2>3, <2>4
  <1> QED
    BY <1>2, <1>3, <1>4, <1>5, <1>6, ThreadInvParts

LEMMA CreateInv == ASSUME ThreadInv, NEW r \in Threads, Create(r) PROVE ThreadInv'
  <1>1. Lists /\ OtherTypes /\ failed = FALSE /\ IdsFresh /\ WaitersKept /\ JoinsRight
    BY ThreadInvParts
  <1> DEFINE new == thread_id_count
  <1>2. new \in Created /\ new \in Threads /\ new # Master /\ new \in Nat
    <2>1. new \in 1 .. MaxThreads + 1 /\ new <= MaxThreads
      BY <1>1 DEF Create, OtherTypes
    <2> HIDE DEF new
    <2> QED
      BY <2>1, MaxThreadsAssumption DEF Created, Threads, Master
  <1>3. state[new] = "UNBORN" /\ new \notin ToSet(ready_list) /\ new # running
    <2>1. state[new] = "UNBORN"
      BY <1>1, <1>2 DEF IdsFresh, Created
    <2> QED
      BY <1>1, <1>2, <2>1 DEF Lists, OnePlace
  <1>4. /\ state' = [state EXCEPT ![new] = "READY"]
        /\ ready_list' = Append(ready_list, new)
        /\ thread_id_count' = new + 1
        /\ UNCHANGED <<running, blocked_list, waiting_for_me, return_reciever, at, joined, failed>>
    BY DEF Create
  <1>5. /\ state' \in [Threads -> States] /\ state'[new] = "READY"
        /\ \A t \in Threads \ {new} : state'[t] = state[t]
    BY <1>1, <1>2, <1>4 DEF Lists, States
  <1>6. Tidy(ready_list') /\ ToSet(ready_list') = ToSet(ready_list) \cup {new}
    BY <1>1, <1>2, <1>3, <1>4, TidyAppend DEF Lists
  <1> HIDE DEF new
  <1>7. Lists'
    <2>1. OnePlace'
      BY <1>1, <1>2, <1>3, <1>4, <1>5, <1>6, MasterApart
         DEF Lists, OnePlace, Created, Tidy, NoDuplicates
    <2>2. MainPlaced'
      BY <1>1, <1>2, <1>4, <1>5, <1>6, MasterApart DEF Lists, MainPlaced, Master
    <2> QED
      BY <1>1, <1>4, <1>5, <1>6, <2>1, <2>2 DEF Lists, Tidy, NoDuplicates
  <1>8. OtherTypes'
    <2>1. new + 1 \in 1 .. MaxThreads + 1
      BY <1>2, MaxThreadsAssumption DEF Created
    <2> QED
      BY <1>1, <1>4, <2>1 DEF OtherTypes
  <1>9. IdsFresh'
    BY <1>1, <1>2, <1>4, <1>5, MasterApart DEF IdsFresh, Created, new
  <1>10. WaitersKept'
    <2>1. \A t \in Threads : state'[t] = "BLOCKED" <=> state[t] = "BLOCKED"
      BY <1>3, <1>5
    <2>2. \A t \in Threads : state[t] \in {"RUNNING", "READY", "BLOCKED"} =>
             state'[t] \in {"RUNNING", "READY", "BLOCKED"}
      BY <1>3, <1>5
    <2> QED
      BY <1>1, <1>4, <2>1, <2>2 DEF WaitersKept
  <1>11. JoinsRight'
    <2>1. at[new] = "user"
      BY <1>1, <1>2, <1>3 DEF IdsFresh, Created
    <2>2. \A t \in Threads : state[t] = "FREED" => state'[t] = "FREED"
      BY <1>3, <1>5
    <2> QED
      BY <1>1, <1>3, <1>4, <1>5, <2>1, <2>2 DEF JoinsRight
  <1> QED
    BY <1>1, <1>4, <1>7, <1>8, <1>9, <1>10, <1>11, ThreadInvParts

LEMMA SwitchingCallsInv ==
    ASSUME ThreadInv, NEW r \in Threads,
           CallSchedule(r) \/ Run(r) \/ \E id \in Threads : YieldTo(r, id)
    PROVE  ThreadInv'
  <1>1. Placed(state, ready_list, blocked_list, running) /\ r = running
    BY ThreadInvParts, ListsPlaced DEF CallSchedule, Run, YieldTo, Calling
  <1>2. UNCHANGED <<waiting_for_me, return_reciever, thread_id_count, joined>>
    BY DEF CallSchedule, Run, YieldTo
  <1>3. CASE CallSchedule(r)
    <2>1. Switched(state)
      BY <1>1, <1>3, ScheduleSwitches DEF CallSchedule
    <2>2. at' = [at EXCEPT ![running] = ResumePoint(ready_list)]
      BY <1>1, <1>3 DEF CallSchedule
    <2>3. ResumePoint(ready_list) \in {"return 9", "schedule"}
      BY DEF ResumePoint
    <2> QED
      BY <1>2, <2>1, <2>2, <2>3, PlainSwitch
  <1>4. CASE Run(r)
    <2>1. Switched(state)
      BY <1>1, <1>4, ScheduleSwitches DEF Run
    <2>2. at' = [at EXCEPT ![running] = "run"]
      BY <1>1, <1>4 DEF Run
    <2> QED
      BY <1>2, <2>1, <2>2, PlainSwitch
  <1>5. ASSUME NEW id \in Threads, YieldTo(r, id) PROVE ThreadInv'
    <2> DEFINE tgt == get_thread(id)
    <2>1. CASE tgt = NoThread \/ state[tgt] # "READY"
      <3>1. Switched(state)
        BY <1>1, <1>5, <2>1, ScheduleSwitches DEF YieldTo
      <3>2. at' = [at EXCEPT ![running] = ResumePoint(ready_list)]
        BY <1>1, <1>5, <2>1 DEF YieldTo
      <3>3. ResumePoint(ready_list) \in {"return 9", "schedule"}
        BY DEF ResumePoint
      <3> QED
        BY <1>2, <3>1, <3>2, <3>3, PlainSwitch
    <2>2. CASE ~(tgt = NoThread \/ state[tgt] # "READY")
      <3>1. tgt \in Threads
        BY <2>2 DEF get_thread
      <3>2. ThreadInvoker(tgt, state, ready_list, blocked_list)
            /\ at' = [at EXCEPT ![running] = "yield_to"]
        BY <1>1, <1>5, <2>2 DEF YieldTo
      <3> HIDE DEF tgt
      <3>3. Switched(state)
        BY <1>1, <2>2, <3>1, <3>2, InvokeSwitches
      <3> QED
        BY <1>2, <3>2, <3>3, PlainSwitch
    <2> QED
      BY <2>1, <2>2
  <1> QED
    BY <1>3, <1>4, <1>5

LEMMA ReturnInv == ASSUME ThreadInv, NEW r \in Threads, Return(r) PROVE ThreadInv'
  <1>1. Lists /\ failed = FALSE
    BY ThreadInvParts
  <1>2. UNCHANGED <<state, running, ready_list, blocked_list, failed>> /\ r = running
    BY DEF Return
  <1>3. Lists'
    BY <1>1, <1>2 DEF Lists, OnePlace, MainPlaced
  <1>4. \A t \in Threads : SameLife(state[t], state'[t])
    BY <1>1, <1>2 DEF SameLife, Lists, States, Alive
  <1>5. Switched(state)
    BY <1>2, <1>3, <1>4 DEF Switched
  <1>6. at' = [at EXCEPT ![running] = "user"]
        /\ UNCHANGED <<waiting_for_me, return_reciever, thread_id_count, joined>>
    BY DEF Return
  <1> QED
    BY <1>5, <1>6, PlainSwitch

(* What pet_thread_join hands to the scheduler. *)
LEMMA JoinPlaced ==
    ASSUME MainApart, ThreadInv, NEW r \in Threads, NEW id \in Joinable, Join(r, id)
    PROVE  /\ r = running /\ at[r] = "user" /\ r # Master /\ state[r] = "RUNNING"
           /\ id \in Threads /\ state[id] \in {"RUNNING", "READY", "BLOCKED"}
           /\ waiting_for_me' = [waiting_for_me EXCEPT ![id] = Append(@, r)]
           /\ joined' = [joined EXCEPT ![r] = id]
           /\ at' = [at EXCEPT ![r] = "join"]
           /\ UNCHANGED <<return_reciever, thread_id_count>>
           /\ Placed([state EXCEPT ![r] = "BLOCKED"], ready_list, blocked_list, running)
           /\ Schedule([state EXCEPT ![r] = "BLOCKED"], ready_list, blocked_list)
  <1> DEFINE tgt == get_thread(id)
             st == [state EXCEPT ![r] = "BLOCKED"]
  <1>1. Lists /\ OtherTypes /\ failed = FALSE /\ IdsFresh /\ WaitersKept /\ JoinsRight
    BY ThreadInvParts
  <1>2. r = running /\ at[r] = "user" /\ r # Master /\ tgt # NoThread
    BY DEF Join, Calling, MainApart
  <1>3. state[r] = "RUNNING" /\ Placed(state, ready_list, blocked_list, running)
    BY <1>1, <1>2, ListsPlaced
  <1>4. /\ tgt = id /\ tgt \in Created /\ tgt \in Threads
        /\ state[tgt] \in {"RUNNING", "READY", "BLOCKED"}
    <2>1. tgt = id /\ id \in {Master, running} \cup ToSet(ready_list) \cup ToSet(blocked_list)
      BY <1>2 DEF get_thread
    <2>2. id \in Threads /\ id # Master /\ id \in Created
      BY MainAssumption, MasterApart DEF MainApart, Threads
    <2> QED
      BY <1>1, <2>1, <2>2 DEF Lists, OnePlace
  <1>5. /\ waiting_for_me' = [waiting_for_me EXCEPT ![tgt] = Append(@, r)]
        /\ joined' = [joined EXCEPT ![r] = tgt]
        /\ Schedule(st, ready_list, blocked_list)
        /\ at' = [at EXCEPT ![r] = "join"]
        /\ UNCHANGED <<return_reciever, thread_id_count>>
    BY <1>3, <1>4, MasterApart DEF Join
  <1> HIDE DEF tgt
  <1>6. /\ st[r] = "BLOCKED" /\ \A t \in Threads \ {r} : st[t] = state[t]
        /\ st \in [Threads -> {"UNBORN", "RUNNING", "READY", "BLOCKED", "STOPPED", "FREED"}]
    BY <1>3 DEF Placed
  <1> HIDE DEF st
  <1>7. Placed(st, ready_list, blocked_list, running)
    <2>1. r \notin ToSet(ready_list) /\ r \notin ToSet(blocked_list)
      BY <1>1, <1>2, <1>3, MasterApart DEF Lists, OnePlace
    <2>2. ASSUME NEW t \in Created
          PROVE  /\ t \in ToSet(ready_list) <=> st[t] = "READY"
                 /\ t \in ToSet(blocked_list) <=> (st[t] = "BLOCKED" /\ t # running)
      BY <1>2, <1>3, <1>6, <2>1, MasterApart DEF Placed
    <2>3. st[Master] = "READY"
      BY <1>2, <1>3, <1>6, MasterApart DEF Placed
    <2>4. \A t \in Threads \ {running} : st[t] \notin {"RUNNING", "STOPPED"}
      BY <1>2, <1>3, <1>6 DEF Placed
    <2> QED
      BY <1>2, <1>3, <1>6, <2>2, <2>3, <2>4 DEF Placed
  <1> QED
    BY <1>2, <1>3, <1>4, <1>5, <1>7 DEF st

LEMMA JoinInv ==
    ASSUME MainApart, ThreadInv, NEW r \in Threads, NEW tgt \in Joinable, Join(r, tgt)
    PROVE  ThreadInv'
  <1> DEFINE st == [state EXCEPT ![r] = "BLOCKED"]
  <1>1. Lists /\ OtherTypes /\ failed = FALSE /\ IdsFresh /\ WaitersKept /\ JoinsRight
    BY ThreadInvParts
  <1>2. r = running /\ at[r] = "user" /\ r # Master /\ state[r] = "RUNNING"
    BY JoinPlaced
  <1>3. state[r] = "RUNNING" /\ Placed(state, ready_list, blocked_list, running)
    BY <1>1, <1>2, ListsPlaced
  <1>4. tgt \in Threads /\ state[tgt] \in {"RUNNING", "READY", "BLOCKED"}
    BY JoinPlaced
  <1>5. /\ waiting_for_me' = [waiting_for_me EXCEPT ![tgt] = Append(@, r)]
        /\ joined' = [joined EXCEPT ![r] = tgt]
        /\ at' = [at EXCEPT ![r] = "join"]
        /\ UNCHANGED <<return_reciever, thread_id_count>>
        /\ Schedule(st, ready_list, blocked_list)
    BY JoinPlaced
  <1>6. /\ st[r] = "BLOCKED" /\ \A t \in Threads \ {r} : st[t] = state[t]
        /\ st \in [Threads -> {"UNBORN", "RUNNING", "READY", "BLOCKED", "STOPPED", "FREED"}]
    BY <1>3 DEF Placed
  <1>7. Placed(st, ready_list, blocked_list, running)
    BY JoinPlaced
  <1> HIDE DEF st
  <1>8. Switched(st)
    BY <1>5, <1>7, ScheduleSwitches
  <1>9. Lists' /\ failed' = FALSE /\ \A t \in Threads : SameLife(st[t], state'[t])
    BY <1>1, <1>8 DEF Switched
  <1>10. /\ \A t \in Threads : state'[t] = "BLOCKED" <=> (t = r \/ state[t] = "BLOCKED")
         /\ \A t \in Threads : state'[t] = "FREED" <=> state[t] = "FREED"
         /\ \A t \in Threads : state'[t] \in Alive <=> (t # r /\ state[t] \in Alive)
         /\ \A t \in Threads : state'[t] = "UNBORN" <=> state[t] = "UNBORN"
    BY <1>3, <1>6, <1>9 DEF SameLife, Alive, Placed
  <1>11. \A u \in Threads : Tidy(waiting_for_me[u]) /\ r \notin ToSet(waiting_for_me[u])
    BY <1>1, <1>3 DEF WaitersKept, OtherTypes, Tidy
  <1>12. ASSUME NEW u \in Threads
         PROVE  /\ Tidy(waiting_for_me'[u])
                /\ ToSet(waiting_for_me'[u]) =
                      ToSet(waiting_for_me[u]) \cup (IF u = tgt THEN {r} ELSE {})
    <2>1. CASE u = tgt
      <3>1. waiting_for_me'[u] = Append(waiting_for_me[u], r)
        BY <1>1, <1>5, <2>1 DEF OtherTypes
      <3> QED
        BY <1>11, <2>1, <3>1, TidyAppend
    <2>2. CASE u # tgt
      <3>1. waiting_for_me'[u] = waiting_for_me[u]
        BY <1>1, <1>5, <2>2 DEF OtherTypes
      <3> QED
        BY <1>11, <2>2, <3>1
    <2> QED
      BY <2>1, <2>2
  <1>13. OtherTypes'
    <2>1. \A u \in Threads : waiting_for_me'[u] \in Seq(Threads)
      BY <1>12 DEF Tidy
    <2>2. waiting_for_me' \in [Threads -> Seq(Threads)]
      BY <1>1, <1>5, <2>1 DEF OtherTypes
    <2> QED
      BY <1>1, <1>4, <1>5, <2>2 DEF OtherTypes
  <1>14. IdsFresh'
    <2>1. \A t \in Created : state[t] = "UNBORN" => at'[t] = at[t]
      BY <1>1, <1>3, <1>5, MasterApart DEF OtherTypes
    <2> QED
      BY <1>1, <1>5, <1>10, <2>1, MasterApart DEF IdsFresh, Created
  <1>15. WaitersKept'
    <2>1. ASSUME NEW t \in Threads
          PROVE  state'[t] = "BLOCKED" <=>
                    \E u \in Threads : t \in ToSet(waiting_for_me'[u])
      <3>1. state[t] = "BLOCKED" <=> \E u \in Threads : t \in ToSet(waiting_for_me[u])
        BY <1>1 DEF WaitersKept
      <3>2. (\E u \in Threads : t \in ToSet(waiting_for_me'[u])) <=>
               (t = r \/ \E u \in Threads : t \in ToSet(waiting_for_me[u]))
        BY <1>4, <1>12
      <3> QED
        BY <1>10, <3>1, <3>2
    <2>2. ASSUME NEW u \in Threads
          PROVE  /\ NoDuplicates(waiting_for_me'[u])
                 /\ waiting_for_me'[u] # <<>> => state'[u] \in {"RUNNING", "READY", "BLOCKED"}
      <3>1. state[u] \in {"RUNNING", "READY", "BLOCKED"} =>
               state'[u] \in {"RUNNING", "READY", "BLOCKED"}
        BY <1>10 DEF Alive
      <3>2. u # tgt => waiting_for_me'[u] = waiting_for_me[u]
        BY <1>1, <1>5 DEF OtherTypes
      <3> QED
        BY <1>1, <1>4, <1>12, <3>1, <3>2 DEF WaitersKept, Tidy
    <2>3. ASSUME NEW u \in Threads, NEW v \in Threads, u # v
          PROVE  ToSet(waiting_for_me'[u]) \cap ToSet(waiting_for_me'[v]) = {}
      <3>1. ToSet(waiting_for_me[u]) \cap ToSet(waiting_for_me[v]) = {}
        BY <1>1, <2>3 DEF WaitersKept
      <3> QED
        BY <1>11, <1>12, <2>3, <3>1
    <2> QED
      BY <2>1, <2>2, <2>3 DEF WaitersKept, NoDuplicates, ToSet
  <1>16. JoinsRight'
    <2> SUFFICES ASSUME NEW t \in Threads
                 PROVE  /\ state'[t] = "BLOCKED" =>
                              /\ at'[t] = "join" /\ joined'[t] \in Threads
                              /\ t \in ToSet(waiting_for_me'[joined'[t]])
                        /\ at'[t] = "join" /\ state'[t] \in {"READY", "RUNNING"} =>
                              /\ joined'[t] \in Threads
                              /\ return_reciever'[t] = joined'[t]
                              /\ state'[joined'[t]] = "FREED"
      BY DEF JoinsRight, ToSet
    <2>1. CASE t = r
      <3>1. at'[t] = "join" /\ joined'[t] = tgt /\ state'[t] = "BLOCKED"
        BY <1>1, <1>5, <1>10, <2>1 DEF OtherTypes
      <3> QED
        BY <1>4, <1>12, <2>1, <3>1
    <2>2. CASE t # r
      <3>1. at'[t] = at[t] /\ joined'[t] = joined[t] /\ return_reciever'[t] = return_reciever[t]
        BY <1>1, <1>5, <2>2 DEF OtherTypes
      <3>2. /\ state[t] = "BLOCKED" =>
                  /\ at[t] = "join" /\ joined[t] \in Threads
                  /\ t \in ToSet(waiting_for_me[joined[t]])
            /\ at[t] = "join" /\ state[t] \in {"READY", "RUNNING"} =>
                  /\ joined[t] \in Threads
                  /\ return_reciever[t] = joined[t]
                  /\ state[joined[t]] = "FREED"
        BY <1>1 DEF JoinsRight
      <3> QED
        BY <1>10, <1>12, <2>2, <3>1, <3>2 DEF Alive
    <2> QED
      BY <2>1, <2>2
  <1> QED
    BY <1>9, <1>13, <1>14, <1>15, <1>16, ThreadInvParts

(* What pet_thread_exit hands to the scheduler. *)
LEMMA ExitPlaced ==
    ASSUME ThreadInv, NEW r \in Threads, Exit(r)
    PROVE  /\ r = running /\ r # Master /\ state[r] = "RUNNING"
           /\ Tidy(Waiters(r)) /\ r \notin ToSet(Waiters(r))
           /\ ToSet(ready_list) \cap ToSet(Waiters(r)) = {}
           /\ \A t \in ToSet(Waiters(r)) : state[t] = "BLOCKED" /\ t \in Created
           /\ Placed(ExitStates(r, Waiters(r)), ready_list \o Waiters(r),
                     Without(blocked_list, ToSet(Waiters(r))), running)
           /\ Schedule(ExitStates(r, Waiters(r)), ready_list \o Waiters(r),
                       Without(blocked_list, ToSet(Waiters(r))))
           /\ waiting_for_me' = [waiting_for_me EXCEPT ![r] = <<>>]
           /\ return_reciever' = Deliver(r, Waiters(r))
           /\ at' = [at EXCEPT ![r] = "exit"]
           /\ UNCHANGED <<thread_id_count, joined>>
  <1> DEFINE woken == Waiters(r)
             st == ExitStates(r, woken)
             rl == ready_list \o woken
             bl == Without(blocked_list, ToSet(woken))
  <1>1. Lists /\ OtherTypes /\ failed = FALSE /\ IdsFresh /\ WaitersKept /\ JoinsRight
    BY ThreadInvParts
  <1>2. r = running /\ r # Master
    BY MainAssumption DEF Exit, Calling
  <1>3. state[r] = "RUNNING" /\ Placed(state, ready_list, blocked_list, running)
    BY <1>1, <1>2, ListsPlaced
  <1>4. Tidy(woken)
    BY <1>1 DEF Waiters, WaitersKept, OtherTypes, Tidy
  <1>5. \A t \in ToSet(woken) : state[t] = "BLOCKED" /\ t \in Threads
    BY <1>1, <1>4, TidyMembers DEF Waiters, WaitersKept
  <1>6. /\ \A t \in ToSet(woken) : t \in Created
        /\ r \notin ToSet(woken) /\ Master \notin ToSet(woken)
        /\ ToSet(ready_list) \cap ToSet(woken) = {}
    <2>1. Master \notin ToSet(woken)
      BY <1>1, <1>5 DEF Lists, MainPlaced
    <2> QED
      BY <1>1, <1>3, <1>5, <2>1, MasterApart DEF Lists, OnePlace
  <1>7. /\ Schedule(st, rl, bl)
        /\ waiting_for_me' = [waiting_for_me EXCEPT ![r] = <<>>]
        /\ return_reciever' = Deliver(r, woken)
        /\ at' = [at EXCEPT ![r] = "exit"]
        /\ UNCHANGED <<thread_id_count, joined>>
    BY <1>3, <1>5 DEF Exit
  <1>8. /\ \A t \in Threads : st[t] = IF t \in ToSet(woken) THEN "READY"
                                      ELSE IF t = r THEN "STOPPED" ELSE state[t]
        /\ st \in [Threads -> {"UNBORN", "RUNNING", "READY", "BLOCKED", "STOPPED", "FREED"}]
    BY <1>3 DEF ExitStates, Placed
  <1>9. Tidy(rl) /\ ToSet(rl) = ToSet(ready_list) \cup ToSet(woken)
    BY <1>1, <1>4, <1>6, TidyConcat DEF Lists
  <1>10. Tidy(bl) /\ ToSet(bl) = ToSet(blocked_list) \ ToSet(woken)
    BY <1>1, TidyWithout DEF Lists
  <1> HIDE DEF woken, st, rl, bl
  <1>11. Placed(st, rl, bl, running)
    <2>1. \A t \in Threads \ {running} : st[t] \notin {"RUNNING", "STOPPED"}
      BY <1>2, <1>3, <1>8 DEF Placed
    <2>2. ASSUME NEW t \in Created
          PROVE  /\ t \in ToSet(rl) <=> st[t] = "READY"
                 /\ t \in ToSet(bl) <=> (st[t] = "BLOCKED" /\ t # running)
      <3>1. /\ t \in Threads
            /\ t \in ToSet(ready_list) <=> state[t] = "READY"
            /\ t \in ToSet(blocked_list) <=> state[t] = "BLOCKED"
        BY <1>1, MasterApart DEF Lists, OnePlace
      <3> QED
        BY <1>2, <1>3, <1>5, <1>6, <1>8, <1>9, <1>10, <3>1
    <2>3. Master \notin ToSet(rl) /\ Master \notin ToSet(bl)
      BY <1>3, <1>6, <1>9, <1>10 DEF Placed
    <2>4. st[Master] = "READY" /\ st[running] = "STOPPED"
      BY <1>2, <1>3, <1>6, <1>8, MasterApart DEF Placed
    <2> QED
      BY <1>2, <1>8, <1>9, <1>10, <2>1, <2>2, <2>3, <2>4 DEF Placed
  <1> QED
    BY <1>2, <1>3, <1>4, <1>5, <1>6, <1>7, <1>11 DEF woken, st, rl, bl

LEMMA ExitInv == ASSUME ThreadInv, NEW r \in Threads, Exit(r) PROVE ThreadInv'
  <1> DEFINE woken == ToSet(Waiters(r))
             st == ExitStates(r, Waiters(r))
  <1>1. Lists /\ OtherTypes /\ failed = FALSE /\ IdsFresh /\ WaitersKept /\ JoinsRight
    BY ThreadInvParts
  <1>2. /\ r = running /\ r # Master /\ state[r] = "RUNNING" /\ r \notin woken
        /\ \A t \in woken : state[t] = "BLOCKED"
        /\ waiting_for_me' = [waiting_for_me EXCEPT ![r] = <<>>]
        /\ return_reciever' = Deliver(r, Waiters(r))
        /\ at' = [at EXCEPT ![r] = "exit"]
        /\ UNCHANGED <<thread_id_count, joined>>
    BY ExitPlaced
  <1>3. Switched(st)
    BY ExitPlaced, ScheduleSwitches
  <1>4. Lists' /\ failed' = FALSE /\ \A t \in Threads : SameLife(st[t], state'[t])
    BY <1>1, <1>3 DEF Switched
  <1>5. \A t \in Threads : st[t] = IF t \in woken THEN "READY"
                                   ELSE IF t = r THEN "STOPPED" ELSE state[t]
    BY DEF ExitStates
  <1>6. woken = ToSet(waiting_for_me[r])
    BY DEF Waiters
  <1>7. /\ \A t \in Threads : return_reciever'[t] = IF t \in woken THEN r ELSE return_reciever[t]
        /\ return_reciever' \in [Threads -> Threads \cup {-1}]
    BY <1>1, <1>2 DEF Deliver, OtherTypes
  <1> HIDE DEF woken, st
  <1>8. /\ \A t \in Threads : state'[t] = "BLOCKED" <=> (state[t] = "BLOCKED" /\ t \notin woken)
        /\ \A t \in Threads : state'[t] = "FREED" <=> (t = r \/ state[t] = "FREED")
        /\ \A t \in Threads : state'[t] \in Alive <=> (t \in woken \/ (t # r /\ state[t] \in Alive))
        /\ \A t \in Threads : state'[t] = "UNBORN" <=> state[t] = "UNBORN"
    <2> SUFFICES ASSUME NEW t \in Threads
                 PROVE  /\ state'[t] = "BLOCKED" <=> (state[t] = "BLOCKED" /\ t \notin woken)
                        /\ state'[t] = "FREED" <=> (t = r \/ state[t] = "FREED")
                        /\ state'[t] \in Alive <=> (t \in woken \/ (t # r /\ state[t] \in Alive))
                        /\ state'[t] = "UNBORN" <=> state[t] = "UNBORN"
      OBVIOUS
    <2>1. state[t] \in States /\ SameLife(st[t], state'[t])
      BY <1>1, <1>4 DEF Lists
    <2> QED
      BY <1>2, <1>5, <2>1 DEF SameLife, Alive, States
  <1>9. \A u \in Threads : waiting_for_me'[u] = IF u = r THEN <<>> ELSE waiting_for_me[u]
    BY <1>1, <1>2 DEF OtherTypes
  <1>10. OtherTypes'
    <2>1. <<>> \in Seq(Threads)
      OBVIOUS
    <2> QED
      BY <1>1, <1>2, <1>7, <2>1 DEF OtherTypes
  <1>11. IdsFresh'
    <2>1. \A t \in Created : state[t] = "UNBORN" => at'[t] = at[t]
      BY <1>1, <1>2, MasterApart DEF OtherTypes
    <2> QED
      BY <1>1, <1>2, <1>8, <2>1, MasterApart DEF IdsFresh, Created
  <1>12. WaitersKept'
    <2>1. ASSUME NEW t \in Threads
          PROVE  state'[t] = "BLOCKED" <=>
                    \E u \in Threads : t \in ToSet(waiting_for_me'[u])
      <3>1. state[t] = "BLOCKED" <=> \E u \in Threads : t \in ToSet(waiting_for_me[u])
        BY <1>1 DEF WaitersKept
      <3>2. \A u \in Threads : u # r /\ t \in ToSet(waiting_for_me[u]) => t \notin woken
        BY <1>1, <1>6 DEF WaitersKept
      <3>3. (\E u \in Threads : t \in ToSet(waiting_for_me'[u])) <=>
               (\E u \in Threads \ {r} : t \in ToSet(waiting_for_me[u]))
        BY <1>9, TidyEmpty
      <3> QED
        BY <1>6, <1>8, <3>1, <3>2, <3>3
    <2>2. ASSUME NEW u \in Threads
          PROVE  /\ NoDuplicates(waiting_for_me'[u])
                 /\ waiting_for_me'[u] # <<>> => state'[u] \in {"RUNNING", "READY", "BLOCKED"}
      <3>1. CASE u = r
        BY <1>9, <3>1, TidyEmpty DEF Tidy
      <3>2. CASE u # r
        <4>1. waiting_for_me'[u] = waiting_for_me[u]
          BY <1>9, <3>2
        <4>2. state[u] \in {"RUNNING", "READY", "BLOCKED"} =>
                 state'[u] \in {"RUNNING", "READY", "BLOCKED"}
          BY <1>8, <3>2 DEF Alive
        <4> QED
          BY <1>1, <4>1, <4>2 DEF WaitersKept
      <3> QED
        BY <3>1, <3>2
    <2>3. ASSUME NEW u \in Threads, NEW v \in Threads, u # v
          PROVE  ToSet(waiting_for_me'[u]) \cap ToSet(waiting_for_me'[v]) = {}
      <3>1. ToSet(waiting_for_me[u]) \cap ToSet(waiting_for_me[v]) = {}
        BY <1>1, <2>3 DEF WaitersKept
      <3> QED
        BY <1>9, <3>1, TidyEmpty
    <2> QED
      BY <2>1, <2>2, <2>3 DEF WaitersKept, NoDuplicates, ToSet
  <1>13. JoinsRight'
    <2> SUFFICES ASSUME NEW t \in Threads
                 PROVE  /\ state'[t] = "BLOCKED" =>
                              /\ at'[t] = "join" /\ joined'[t] \in Threads
                              /\ t \in ToSet(waiting_for_me'[joined'[t]])
                        /\ at'[t] = "join" /\ state'[t] \in {"READY", "RUNNING"} =>
                              /\ joined'[t] \in Threads
                              /\ return_reciever'[t] = joined'[t]
                              /\ state'[joined'[t]] = "FREED"
      BY DEF JoinsRight, ToSet
    <2>1. /\ at'[t] = IF t = r THEN "exit" ELSE at[t]
          /\ joined'[t] = joined[t]
      BY <1>1, <1>2 DEF OtherTypes
    <2>2. /\ state[t] = "BLOCKED" =>
                /\ at[t] = "join" /\ joined[t] \in Threads
                /\ t \in ToSet(waiting_for_me[joined[t]])
          /\ at[t] = "join" /\ state[t] \in {"READY", "RUNNING"} =>
                /\ joined[t] \in Threads
                /\ return_reciever[t] = joined[t]
                /\ state[joined[t]] = "FREED"
      BY <1>1 DEF JoinsRight
    <2>3. ASSUME state'[t] = "BLOCKED"
          PROVE  /\ at'[t] = "join" /\ joined'[t] \in Threads
                 /\ t \in ToSet(waiting_for_me'[joined'[t]])
      <3>1. state[t] = "BLOCKED" /\ t \notin woken /\ t # r
        BY <1>2, <1>8, <2>3
      <3>2. joined[t] # r
        BY <1>6, <2>2, <3>1
      <3> QED
        BY <1>9, <2>1, <2>2, <3>1, <3>2
    <2>4. ASSUME at'[t] = "join", state'[t] \in {"READY", "RUNNING"}
          PROVE  /\ joined'[t] \in Threads
                 /\ return_reciever'[t] = joined'[t]
                 /\ state'[joined'[t]] = "FREED"
      <3>1. t # r
        BY <2>1, <2>4
      <3>2. CASE t \in woken
        <4>1. /\ state[t] = "BLOCKED" /\ joined[t] \in Threads
              /\ t \in ToSet(waiting_for_me[joined[t]])
          BY <1>2, <2>2, <3>2
        <4>2. joined[t] = r
          BY <1>1, <1>6, <3>2, <4>1 DEF WaitersKept
        <4> QED
          BY <1>7, <1>8, <2>1, <3>2, <4>2
      <3>3. CASE t \notin woken
        <4>1. state[t] \in {"READY", "RUNNING"}
          BY <1>8, <2>4, <3>3 DEF Alive
        <4> QED
          BY <1>7, <1>8, <2>1, <2>2, <2>4, <3>1, <3>3, <4>1
      <3> QED
        BY <3>2, <3>3
    <2> QED
      BY <2>3, <2>4
  <1> QED
    BY <1>4, <1>10, <1>11, <1>12, <1>13, ThreadInvParts

LEMMA StepInv ==
    ASSUME MainApart PROVE ThreadInv /\ [Next]_vars => ThreadInv'
  <1> SUFFICES ASSUME ThreadInv, [Next]_vars PROVE ThreadInv'
    OBVIOUS
  <1>1. CASE UNCHANGED vars
    <2>1. TypeOK' /\ NoFailure'
      BY <1>1 DEF vars, ThreadInv, TypeOK, NoFailure
    <2>2. OnePlace'
      BY <1>1 DEF vars, ThreadInv, OnePlace
    <2>3. MainPlaced' /\ IdsFresh'
      BY <1>1 DEF vars, ThreadInv, MainPlaced, IdsFresh
    <2>4. WaitersKept'
      BY <1>1 DEF vars, ThreadInv, WaitersKept
    <2>5. JoinsRight'
      BY <1>1 DEF vars, ThreadInv, JoinsRight
    <2> QED
      BY <2>1, <2>2, <2>3, <2>4, <2>5 DEF ThreadInv
  <1>2. CASE Next
    BY <1>2, CreateInv, SwitchingCallsInv, JoinInv, ExitInv, ReturnInv DEF Next
  <1> QED
    BY <1>1, <1>2

----------------------------------------------------------------------------
(* ThreadInv of every execution in which main does not join and nobody      *)
(* joins main: the lists, the states and the waiters agree.                 *)
THEOREM ThreadsSafe == ASSUME MainApart PROVE Spec => []ThreadInv
  BY InitInv, StepInv, PTL DEF Spec

(* OnePlace of every such execution: a created thread is in exactly the     *)
(* list its state names.                                                    *)
THEOREM ThreadsOnePlace == ASSUME MainApart PROVE Spec => []OnePlace
  <1>1. ThreadInv => OnePlace
    BY DEF ThreadInv
  <1> QED
    BY <1>1, ThreadsSafe, PTL

(* WaitersKept of every such execution: no wake-up is lost.                 *)
THEOREM ThreadsWaitersKept == ASSUME MainApart PROVE Spec => []WaitersKept
  <1>1. ThreadInv => WaitersKept
    BY DEF ThreadInv
  <1> QED
    BY <1>1, ThreadsSafe, PTL

(* JoinValue of every such execution: pet_thread_join returns the exit      *)
(* value of the thread it joined.                                           *)
THEOREM ThreadsJoinValue == ASSUME MainApart PROVE Spec => []JoinValue
  <1>1. ThreadInv => JoinValue
    BY DEF ThreadInv, JoinsRight, JoinValue
  <1> QED
    BY <1>1, ThreadsSafe, PTL

(* NoFailure of every such execution: no assertion of the library fails.    *)
THEOREM ThreadsNoFailure == ASSUME MainApart PROVE Spec => []NoFailure
  <1>1. ThreadInv => NoFailure
    BY DEF ThreadInv
  <1> QED
    BY <1>1, ThreadsSafe, PTL

----------------------------------------------------------------------------
(* ready_list is a queue. *)

(* what is in front of an entry of s in s2 was in front of it in s *)
Ahead(s, s2) ==
    \A k, m \in DOMAIN s2 : k < m /\ s2[m] \in ToSet(s) =>
        \E a, b \in DOMAIN s : a < b /\ s[a] = s2[k] /\ s[b] = s2[m]

LEMMA AheadSame == ASSUME NEW s PROVE Ahead(s, s)
  BY DEF Ahead

LEMMA AheadWithout ==
    ASSUME NEW s0, NEW s, Tidy(s), Ahead(s0, s), NEW S
    PROVE  Ahead(s0, Without(s, S))
  <1> DEFINE w == Without(s, S)
  <1>1. s \in Seq(Threads) /\ DOMAIN s = 1 .. Len(s)
    BY DEF Tidy
  <1>2. Remains(s, S, w, Len(s))
    BY <1>1, WithoutRemains
  <1> HIDE DEF w
  <1>3. DOMAIN w = 1 .. Len(w)
    BY <1>2 DEF Remains
  <1>4. ASSUME NEW k \in DOMAIN w, NEW m \in DOMAIN w, k < m, w[m] \in ToSet(s0)
        PROVE  \E a, b \in DOMAIN s0 : a < b /\ s0[a] = w[k] /\ s0[b] = w[m]
    <2>1. k \in 1 .. Len(w) /\ m \in 1 .. Len(w)
      BY <1>3
    <2>2. PICK a \in 1 .. Len(s), b \in 1 .. Len(s) : a < b /\ w[k] = s[a] /\ w[m] = s[b]
      BY <1>2, <1>4, <2>1, Zenon DEF Remains
    <2> QED
      BY <1>1, <1>4, <2>2 DEF Ahead
  <1> QED
    BY <1>4 DEF Ahead, w

LEMMA AheadConcat ==
    ASSUME NEW s0, NEW s, Tidy(s), Ahead(s0, s),
           NEW r, Tidy(r), ToSet(r) \cap ToSet(s0) = {}
    PROVE  Ahead(s0, s \o r)
  <1> DEFINE c == s \o r
  <1>1. /\ s \in Seq(Threads) /\ DOMAIN s = 1 .. Len(s) /\ Len(s) \in Nat
        /\ r \in Seq(Threads) /\ DOMAIN r = 1 .. Len(r) /\ Len(r) \in Nat
    BY DEF Tidy
  <1>2. /\ DOMAIN c = 1 .. Len(s) + Len(r)
        /\ \A k \in 1 .. Len(s) : c[k] = s[k]
        /\ \A k \in 1 .. Len(r) : c[Len(s) + k] = r[k]
    BY <1>1
  <1> HIDE DEF c
  <1>3. ASSUME NEW k \in DOMAIN c, NEW m \in DOMAIN c, k < m, c[m] \in ToSet(s0)
        PROVE  \E a, b \in DOMAIN s0 : a < b /\ s0[a] = c[k] /\ s0[b] = c[m]
    <2>1. m \in 1 .. Len(s)
      <3> SUFFICES ASSUME m > Len(s) PROVE FALSE
        BY <1>1, <1>2
      <3>1. m - Len(s) \in 1 .. Len(r) /\ m = Len(s) + (m - Len(s))
        BY <1>1, <1>2
      <3>2. c[m] = r[m - Len(s)] /\ c[m] \in ToSet(r)
        BY <1>1, <1>2, <3>1 DEF ToSet
      <3> QED
        BY <1>3, <3>2
    <2>2. k \in 1 .. Len(s)
      BY <1>1, <1>2, <1>3, <2>1
    <2> QED
      BY <1>1, <1>2, <1>3, <2>1, <2>2 DEF Ahead
  <1> QED
    BY <1>3 DEF Ahead, c

LEMMA AheadAppend ==
    ASSUME NEW s0, NEW s, Tidy(s), Ahead(s0, s), NEW e \in Threads, e \notin ToSet(s0)
    PROVE  Ahead(s0, Append(s, e))
  <1> DEFINE r == <<e>>
  <1>1. s \in Seq(Threads) /\ r \in Seq(Threads) /\ DOMAIN r = 1 .. 1 /\ r[1] = e
    BY DEF Tidy
  <1>2. Append(s, e) = s \o r
    BY <1>1
  <1> HIDE DEF r
  <1>3. ToSet(r) = {e} /\ Tidy(r)
    BY <1>1 DEF ToSet, Tidy, NoDuplicates
  <1>4. ToSet(r) \cap ToSet(s0) = {}
    BY <1>3
  <1> QED
    BY <1>2, <1>3, <1>4, AheadConcat

LEMMA InvokeQueues ==
    ASSUME NEW st, NEW rl, NEW bl, Placed(st, rl, bl, running),
           NEW thread \in Threads, st[thread] = "READY",
           ThreadInvoker(thread, st, rl, bl),
           NEW s0, Ahead(s0, rl), running \notin ToSet(s0)
    PROVE  Ahead(s0, ready_list')
  <1> DEFINE rest == IF thread = Master THEN rl ELSE Without(rl, {thread})
  <1>1. ready_list' = ReadyAfter(rest, st, running)
    BY DEF ThreadInvoker, Placed
  <1>2. Tidy(rest) /\ Ahead(s0, rest)
    BY TidyWithout, AheadWithout DEF Placed
  <1> HIDE DEF rest
  <1> QED
    BY <1>1, <1>2, AheadAppend DEF ReadyAfter, Placed

LEMMA ScheduleQueues ==
    ASSUME NEW st, NEW rl, NEW bl, Placed(st, rl, bl, running),
           Schedule(st, rl, bl),
           NEW s0, Ahead(s0, rl), running \notin ToSet(s0)
    PROVE  Ahead(s0, ready_list')
  <1>1. CASE rl # <<>>
    <2>1. Head(rl) \in ToSet(rl) /\ Head(rl) \in Threads
      BY <1>1, TidyEmpty, TidyMembers DEF Placed
    <2>2. st[Head(rl)] = "READY"
      BY <2>1, MasterApart DEF Placed
    <2>3. ThreadInvoker(Head(rl), st, rl, bl)
      BY <1>1, <2>2 DEF Schedule
    <2> QED
      BY <2>1, <2>2, <2>3, InvokeQueues
  <1>2. CASE rl = <<>> /\ running # Master
    <2>1. st[Master] = "READY" /\ ThreadInvoker(Master, st, rl, bl)
      BY <1>2 DEF Schedule, Placed
    <2> QED
      BY <2>1, InvokeQueues, MasterApart
  <1>3. CASE rl = <<>> /\ running = Master
    BY <1>3 DEF Schedule
  <1> QED
    BY <1>1, <1>2, <1>3

LEMMA PositionOf ==
    ASSUME NEW s, Tidy(s), NEW n \in DOMAIN s
    PROVE  Position(s, s[n]) = n
  <1>1. \A m \in DOMAIN s : s[m] = s[n] => m = n
    BY DEF Tidy, NoDuplicates
  <1>2. Position(s, s[n]) \in DOMAIN s /\ s[Position(s, s[n])] = s[n]
    BY DEF Position
  <1> QED
    BY <1>1, <1>2

LEMMA StepQueues ==
    ASSUME MainApart, ThreadInv, Next
    PROVE  Ahead(ready_list, ready_list')
  <1>1. Lists /\ Placed(state, ready_list, blocked_list, running) /\ state[running] = "RUNNING"
    BY ThreadInvParts, ListsPlaced
  <1>2. Tidy(ready_list) /\ Ahead(ready_list, ready_list) /\ running \notin ToSet(ready_list)
        /\ running \in Threads
    BY <1>1, AheadSame, MasterApart DEF Lists, OnePlace, MainPlaced
  <1>3. PICK r \in Threads :
           \/ Create(r) \/ CallSchedule(r) \/ Exit(r) \/ Run(r) \/ Return(r)
           \/ \E id \in Threads : YieldTo(r, id)
           \/ \E id \in Joinable : Join(r, id)
    BY DEF Next
  <1>4. CASE Create(r)
    <2>1. ready_list' = Append(ready_list, thread_id_count)
      BY <1>4 DEF Create
    <2>2. thread_id_count \in Created
      <3>1. thread_id_count \in 1 .. MaxThreads + 1 /\ thread_id_count <= MaxThreads
        BY <1>4, ThreadInvParts DEF Create, OtherTypes
      <3> QED
        BY <3>1, MaxThreadsAssumption DEF Created
    <2>3. state[thread_id_count] = "UNBORN"
      BY <2>2, ThreadInvParts DEF IdsFresh, Created
    <2>4. thread_id_count \notin ToSet(ready_list) /\ thread_id_count \in Threads
      BY <1>1, <2>2, <2>3, MasterApart DEF Lists, OnePlace
    <2> QED
      BY <1>2, <2>1, <2>4, AheadAppend
  <1>5. CASE CallSchedule(r) \/ Run(r)
    <2>1. Schedule(state, ready_list, blocked_list)
      BY <1>5 DEF CallSchedule, Run
    <2> QED
      BY <1>1, <1>2, <2>1, ScheduleQueues
  <1>6. ASSUME NEW id \in Threads, YieldTo(r, id) PROVE Ahead(ready_list, ready_list')
    <2> DEFINE tgt == get_thread(id)
    <2>1. CASE tgt = NoThread \/ state[tgt] # "READY"
      <3>1. Schedule(state, ready_list, blocked_list)
        BY <1>6, <2>1 DEF YieldTo
      <3> QED
        BY <1>1, <1>2, <3>1, ScheduleQueues
    <2>2. CASE ~(tgt = NoThread \/ state[tgt] # "READY")
      <3>1. tgt \in Threads
        BY <2>2 DEF get_thread
      <3>2. ThreadInvoker(tgt, state, ready_list, blocked_list)
        BY <1>6, <2>2 DEF YieldTo
      <3> HIDE DEF tgt
      <3> QED
        BY <1>1, <1>2, <2>2, <3>1, <3>2, InvokeQueues
    <2> QED
      BY <2>1, <2>2
  <1>7. CASE Exit(r)
    <2> DEFINE w == Waiters(r)
    <2>1. /\ Tidy(w) /\ ToSet(ready_list) \cap ToSet(w) = {}
          /\ Placed(ExitStates(r, w), ready_list \o w, Without(blocked_list, ToSet(w)), running)
          /\ Schedule(ExitStates(r, w), ready_list \o w, Without(blocked_list, ToSet(w)))
      BY <1>7, ExitPlaced
    <2> HIDE DEF w
    <2>2. Ahead(ready_list, ready_list \o w)
      <3>1. ToSet(w) \cap ToSet(ready_list) = {}
        BY <2>1
      <3> QED
        BY <1>2, <2>1, <3>1, AheadConcat
    <2> QED
      BY <1>2, <2>1, <2>2, ScheduleQueues
  <1>8. CASE Return(r)
    BY <1>2, <1>8 DEF Return
  <1>9. ASSUME NEW id \in Joinable, Join(r, id) PROVE Ahead(ready_list, ready_list')
    BY <1>9, JoinPlaced, <1>2, ScheduleQueues
  <1> QED
    BY <1>3, <1>4, <1>5, <1>6, <1>7, <1>8, <1>9

(* ReadyIsFIFO of every such execution: nobody overtakes in ready_list.     *)
THEOREM ThreadsReadyIsFIFO == ASSUME MainApart PROVE Spec => ReadyIsFIFO
  <1> DEFINE FIFOStep ==
                \A t \in ToSet(ready_list) \cap ToSet(ready_list') :
                   \A u \in ToSet(ready_list') :
                      Position(ready_list', u) < Position(ready_list', t) =>
                          /\ u \in ToSet(ready_list)
                          /\ Position(ready_list, u) < Position(ready_list, t)
  <1>1. ThreadInv /\ ThreadInv' /\ [Next]_vars => [FIFOStep]_vars
    <2> SUFFICES ASSUME ThreadInv, ThreadInv', Next,
                        NEW t \in ToSet(ready_list) \cap ToSet(ready_list'),
                        NEW u \in ToSet(ready_list'),
                        Position(ready_list', u) < Position(ready_list', t)
                 PROVE  /\ u \in ToSet(ready_list)
                        /\ Position(ready_list, u) < Position(ready_list, t)
      OBVIOUS
    <2>1. Tidy(ready_list) /\ Tidy(ready_list')
      BY ThreadInvParts DEF Lists
    <2>2. PICK k \in DOMAIN ready_list', m \in DOMAIN ready_list' :
             u = ready_list'[k] /\ t = ready_list'[m]
      BY DEF ToSet
    <2>3. k < m
      BY <2>1, <2>2, PositionOf
    <2>4. PICK a \in DOMAIN ready_list, b \in DOMAIN ready_list :
             a < b /\ ready_list[a] = u /\ ready_list[b] = t
      BY <2>2, <2>3, StepQueues DEF Ahead
    <2>5. Position(ready_list, u) = a /\ Position(ready_list, t) = b
      BY <2>1, <2>4, PositionOf
    <2> QED
      BY <2>4, <2>5 DEF ToSet
  <1> QED
    BY <1>1, ThreadsSafe, PTL DEF ReadyIsFIFO, Spec

----------------------------------------------------------------------------
(* The hash table: lemmas about sequences. *)

(* Induction over sequences, from the front.                                *)
LEMMA SeqInduction ==
    ASSUME NEW S, NEW T, <<>> \in T, \A s \in T \cap Seq(S) : \A e \in S : Append(s, e) \in T
    PROVE  \A s \in Seq(S) : s \in T
  <1> DEFINE P == {n \in Nat : \A s \in Seq(S) : Len(s) = n => s \in T}
  <1>1. 0 \in P
    <2>1. \A s \in Seq(S) : Len(s) = 0 => s = <<>>
      OBVIOUS
    <2> QED
      BY <2>1
  <1>2. ASSUME NEW n \in P PROVE n + 1 \in P
    <2> SUFFICES ASSUME NEW s \in Seq(S), Len(s) = n + 1 PROVE s \in T
      OBVIOUS
    <2>1. s # <<>>
      BY EmptySeq
    <2>2. PICK t \in Seq(S), e \in S : s = Append(t, e)
      BY <2>1, SequenceEmptyOrAppend
    <2>3. Len(t) = n
      BY <2>2, AppendProperties
    <2> QED
      BY <2>2, <2>3
  <1>3. P = Nat
    <2>1. P \in SUBSET Nat
      OBVIOUS
    <2> HIDE DEF P
    <2> QED
      BY <1>1, <1>2, <2>1, SetInduction
  <1>4. \A s \in Seq(S) : Len(s) \in P
    <2>1. \A s \in Seq(S) : Len(s) \in Nat
      OBVIOUS
    <2> HIDE DEF P
    <2> QED
      BY <1>3, <2>1
  <1> QED
    BY <1>4

(* A set of numbers has a least element, which is the one Min chooses.      *)
LEMMA MinIsLeast ==
    ASSUME NEW S \in SUBSET Nat, S # {}
    PROVE  Min(S) \in S /\ \A y \in S : Min(S) <= y
  <1>1. PICK x \in S : \A y \in S : <<y, x>> \notin OpToRel(<, Nat)
    BY NatLessThanWellFounded, WFMin
  <1>2. \A y \in S : ~(y < x)
    BY <1>1 DEF OpToRel
  <1>3. \E z \in S : \A y \in S : z =< y
    BY <1>2
  <1> QED
    BY <1>3 DEF Min

(* The two pieces that remain of a sequence without its place p.            *)
Before(s, p) == SubSeq(s, 1, p - 1)
After(s, p) == SubSeq(s, p + 1, Len(s))

LEMMA Pieces ==
    ASSUME NEW S, NEW s \in Seq(S), NEW p \in 1 .. Len(s)
    PROVE  /\ Before(s, p) \in Seq(S) /\ Len(Before(s, p)) = p - 1
           /\ \A i \in 1 .. p - 1 : Before(s, p)[i] = s[i]
           /\ After(s, p) \in Seq(S) /\ Len(After(s, p)) = Len(s) - p
           /\ \A i \in 1 .. Len(s) - p : After(s, p)[i] = s[p + i]
  <1>0. Len(s) \in Nat /\ DOMAIN s = 1 .. Len(s)
    OBVIOUS
  <1>1. /\ Before(s, p) \in Seq(S) /\ Len(Before(s, p)) = p - 1
        /\ \A i \in 1 .. p - 1 : Before(s, p)[i] = s[i]
    <2> DEFINE n == p - 1
    <2>1. n \in Nat /\ \A i \in 1 .. n : s[i] \in S
      BY <1>0
    <2> HIDE DEF n
    <2> DEFINE t == SubSeq(s, 1, n)
    <2>2. /\ t \in Seq(S) /\ Len(t) = IF 1 <= n THEN n - 1 + 1 ELSE 0
          /\ \A i \in 1 .. n - 1 + 1 : t[i] = s[1 + i - 1]
      BY <2>1, SubSeqProperties
    <2> HIDE DEF t
    <2>3. n - 1 + 1 = n /\ \A i \in 1 .. n : 1 + i - 1 = i
      BY <2>1
    <2>4. t \in Seq(S) /\ Len(t) = n /\ \A i \in 1 .. n : t[i] = s[i]
      BY <2>1, <2>2, <2>3
    <2> QED
      BY <2>4 DEF n, t, Before
  <1>2. /\ After(s, p) \in Seq(S) /\ Len(After(s, p)) = Len(s) - p
        /\ \A i \in 1 .. Len(s) - p : After(s, p)[i] = s[p + i]
    <2> DEFINE m == p + 1
               l == Len(s)
    <2>0. p \in Nat /\ l \in Nat /\ p <= l /\ m \in Int
      BY <1>0
    <2>1. \A i \in m .. l : s[i] \in S
      BY <1>0
    <2> HIDE DEF l
    <2>2. l - m + 1 = l - p /\ (m <= l \/ l - p = 0)
      BY <2>0
    <2>5. \A i \in 1 .. l - p : m + i - 1 = p + i
      BY <2>0
    <2> HIDE DEF m
    <2>3. /\ SubSeq(s, m, l) \in Seq(S)
          /\ Len(SubSeq(s, m, l)) = IF m <= l THEN l - m + 1 ELSE 0
          /\ \A i \in 1 .. l - m + 1 : SubSeq(s, m, l)[i] = s[m + i - 1]
      BY <2>0, <2>1, SubSeqProperties
    <2> DEFINE t == SubSeq(s, m, l)
    <2> HIDE DEF t
    <2>4. t \in Seq(S) /\ Len(t) = l - p /\ \A i \in 1 .. l - p : t[i] = s[p + i]
      BY <2>0, <2>2, <2>3, <2>5 DEF t
    <2> QED
      BY <2>4 DEF m, l, t, After
  <1> QED
    BY <1>1, <1>2

(* An element in front of a sequence.                                       *)
LEMMA ConsIs ==
    ASSUME NEW S, NEW v \in Seq(S), NEW e \in S
    PROVE  /\ Cons(e, v) \in Seq(S) /\ Len(Cons(e, v)) = Len(v) + 1 /\ Cons(e, v)[1] = e
           /\ \A i \in 1 .. Len(v) : Cons(e, v)[i + 1] = v[i]
  BY DEF Cons

(* One sequence behind another.                                             *)
LEMMA ConcatIs ==
    ASSUME NEW S, NEW u \in Seq(S), NEW v \in Seq(S)
    PROVE  /\ u \o v \in Seq(S) /\ Len(u \o v) = Len(u) + Len(v)
           /\ \A i \in 1 .. Len(u) : (u \o v)[i] = u[i]
           /\ \A i \in 1 .. Len(v) : (u \o v)[Len(u) + i] = v[i]
  OBVIOUS

(* A sequence with one element put between the two pieces.                  *)
LEMMA Mended ==
    ASSUME NEW S, NEW s \in Seq(S), NEW p \in 1 .. Len(s), NEW e \in S,
           NEW x \in Seq(S), Len(x) = Len(s),
           \A i \in 1 .. Len(s) : x[i] = IF i = p THEN e ELSE s[i]
    PROVE  x = Before(s, p) \o Cons(e, After(s, p))
  <1> DEFINE u == Before(s, p)
             v == After(s, p)
             w == Cons(e, v)
             t == u \o w
  <1>1. u \in Seq(S) /\ Len(u) = p - 1 /\ \A i \in 1 .. p - 1 : u[i] = s[i]
    BY Pieces
  <1>2. v \in Seq(S) /\ Len(v) = Len(s) - p /\ \A i \in 1 .. Len(s) - p : v[i] = s[p + i]
    BY Pieces
  <1> HIDE DEF u, v
  <1>3. /\ w \in Seq(S) /\ Len(w) = Len(v) + 1 /\ w[1] = e
        /\ \A i \in 1 .. Len(v) : w[i + 1] = v[i]
    <2>1. ASSUME NEW y \in Seq(S)
          PROVE  /\ Cons(e, y) \in Seq(S) /\ Len(Cons(e, y)) = Len(y) + 1 /\ Cons(e, y)[1] = e
                 /\ \A i \in 1 .. Len(y) : Cons(e, y)[i + 1] = y[i]
      BY ConsIs
    <2> QED
      BY <1>2, <2>1
  <1> HIDE DEF w
  <1>4. /\ t \in Seq(S) /\ Len(t) = Len(u) + Len(w)
        /\ \A i \in 1 .. Len(u) : t[i] = u[i]
        /\ \A i \in 1 .. Len(w) : t[Len(u) + i] = w[i]
    <2>1. u \in Seq(S) /\ w \in Seq(S)
      BY <1>1, <1>3
    <2> QED
      BY <2>1, ConcatIs
  <1> HIDE DEF t
  <1>5. Len(s) \in Nat /\ p \in Nat /\ p >= 1 /\ p <= Len(s)
    OBVIOUS
  <1>6. Len(t) = Len(s)
    BY <1>1, <1>2, <1>3, <1>4, <1>5
  <1>7. ASSUME NEW i \in 1 .. Len(s) PROVE x[i] = t[i]
    <2>1. CASE i < p
      BY <1>1, <1>4, <1>5, <2>1
    <2>2. CASE i = p
      BY <1>1, <1>2, <1>3, <1>4, <1>5, <2>2
    <2>3. CASE i > p
      <3>1. i - p \in 1 .. Len(v) /\ p + (i - p) = i /\ (i - p) + 1 \in 1 .. Len(w)
            /\ Len(u) + ((i - p) + 1) = i
        BY <1>1, <1>2, <1>3, <1>5, <2>3
      <3>2. v[i - p] = s[p + (i - p)]
        BY <1>2, <3>1
      <3>3. w[(i - p) + 1] = v[i - p]
        BY <1>3, <3>1
      <3>4. t[Len(u) + ((i - p) + 1)] = w[(i - p) + 1]
        BY <1>4, <3>1
      <3>5. i # p
        BY <1>5, <2>3
      <3> QED
        BY <3>1, <3>2, <3>3, <3>4, <3>5
    <2> QED
      BY <1>5, <2>1, <2>2, <2>3
  <1>8. x = t
    BY <1>4, <1>6, <1>7, SeqEqual
  <1> QED
    BY <1>8 DEF t, w, u, v

LEMMA Split ==
    ASSUME NEW S, NEW s \in Seq(S), NEW p \in 1 .. Len(s)
    PROVE  s = Before(s, p) \o Cons(s[p], After(s, p))
  <1>1. s[p] \in S /\ \A i \in 1 .. Len(s) : s[i] = IF i = p THEN s[p] ELSE s[i]
    OBVIOUS
  <1> QED
    BY <1>1, Mended

----------------------------------------------------------------------------
(* The entries of a chain that have one of some keys. *)

(* one pass of the recursion *)
Kept(chain, keys, before, n) ==
    IF chain[n].key \in keys THEN Append(before, chain[n]) ELSE before

(* g has gone through the first n entries *)
KeptTill(chain, keys, g, n) ==
    /\ g \in [0 .. n -> Seq(Entry)] /\ g[0] = <<>>
    /\ \A m \in 1 .. n : g[m] = Kept(chain, keys, g[m - 1], m)

LEMMA KeptTillExists ==
    ASSUME NEW chain \in Seq(Entry), NEW keys
    PROVE  \E g : KeptTill(chain, keys, g, Len(chain))
  <1> DEFINE P == {n \in Nat : n <= Len(chain) => \E g : KeptTill(chain, keys, g, n)}
  <1>1. 0 \in P
    <2>1. KeptTill(chain, keys, [m \in 0 .. 0 |-> <<>>], 0)
      BY DEF KeptTill
    <2> QED
      BY <2>1
  <1>2. ASSUME NEW n \in P PROVE n + 1 \in P
    <2> SUFFICES ASSUME n + 1 <= Len(chain) PROVE \E g : KeptTill(chain, keys, g, n + 1)
      OBVIOUS
    <2>1. PICK g : KeptTill(chain, keys, g, n)
      <3>1. n <= Len(chain)
        OBVIOUS
      <3> QED
        BY <3>1
    <2> DEFINE new == Kept(chain, keys, g[n], n + 1)
               h == [m \in 0 .. n + 1 |-> IF m <= n THEN g[m] ELSE new]
    <2>2. new \in Seq(Entry)
      <3>1. chain[n + 1] \in Entry /\ g[n] \in Seq(Entry)
        BY <2>1 DEF KeptTill
      <3> QED
        BY <3>1 DEF Kept
    <2> HIDE DEF new
    <2>3. h \in [0 .. n + 1 -> Seq(Entry)] /\ h[0] = <<>>
      BY <2>1, <2>2 DEF KeptTill
    <2>4. ASSUME NEW m \in 1 .. n + 1 PROVE h[m] = Kept(chain, keys, h[m - 1], m)
      <3>1. CASE m = n + 1
        <4>1. h[m] = new /\ h[m - 1] = g[n]
          BY <3>1
        <4> QED
          BY <3>1, <4>1 DEF new
      <3>2. CASE m # n + 1
        <4>1. m \in 1 .. n /\ h[m] = g[m] /\ h[m - 1] = g[m - 1]
          BY <3>2
        <4> QED
          BY <2>1, <4>1 DEF KeptTill
      <3> QED
        BY <3>1, <3>2
    <2> HIDE DEF h
    <2>5. KeptTill(chain, keys, h, n + 1)
      BY <2>3, <2>4 DEF KeptTill
    <2> QED
      BY <2>5
  <1>3. P = Nat
    <2>1. P \in SUBSET Nat
      OBVIOUS
    <2> HIDE DEF P
    <2> QED
      BY <1>1, <1>2, <2>1, SetInduction
  <1>4. Len(chain) \in Nat /\ Len(chain) <= Len(chain)
    OBVIOUS
  <1> QED
    BY <1>3, <1>4

(* Only is what such a function has at the end. *)
LEMMA OnlyIs ==
    ASSUME NEW chain \in Seq(Entry), NEW keys, NEW g, KeptTill(chain, keys, g, Len(chain))
    PROVE  Only(chain, keys) = g[Len(chain)]
  <1> DEFINE F(f, n) == IF n = 0 THEN <<>>
                        ELSE IF chain[n].key \in keys THEN Append(f[n - 1], chain[n]) ELSE f[n - 1]
             f == CHOOSE f : f = [n \in 0 .. Len(chain) |-> F(f, n)]
  <1>0. Len(chain) \in Nat
    OBVIOUS
  <1>1. PICK h : KeptTill(chain, keys, h, Len(chain))
    OBVIOUS
  <1>2. h = [n \in 0 .. Len(chain) |-> F(h, n)]
    <2>1. h \in [0 .. Len(chain) -> Seq(Entry)] /\ h[0] = <<>>
      BY <1>1 DEF KeptTill
    <2>2. ASSUME NEW n \in 0 .. Len(chain) PROVE h[n] = F(h, n)
      <3>1. CASE n = 0
        BY <2>1, <3>1
      <3>2. CASE n # 0
        <4>1. n \in 1 .. Len(chain)
          BY <1>0, <3>2
        <4>2. h[n] = Kept(chain, keys, h[n - 1], n)
          BY <1>1, <4>1 DEF KeptTill
        <4> QED
          BY <3>2, <4>2 DEF Kept
      <3> QED
        BY <3>1, <3>2
    <2> HIDE DEF F
    <2> QED
      BY <2>1, <2>2
  <1>3. f = [n \in 0 .. Len(chain) |-> F(f, n)]
    BY <1>2, Zenon
  <1>4. Only(chain, keys) = f[Len(chain)]
    BY Zenon DEF Only
  <1> HIDE DEF f
  <1>5. \A n \in 0 .. Len(chain) : f[n] = F(f, n)
    <2> HIDE DEF F
    <2> QED
      BY <1>3, Zenon
  <1>6. DOMAIN f = 0 .. Len(chain)
    <2> HIDE DEF F
    <2> QED
      BY <1>3, Zenon
  <1>7. f[0] = <<>>
    BY <1>0, <1>5
  <1>8. ASSUME NEW n \in 1 .. Len(chain) PROVE f[n] = Kept(chain, keys, f[n - 1], n)
    <2>1. n \in 0 .. Len(chain) /\ n # 0
      OBVIOUS
    <2> QED
      BY <1>5, <2>1 DEF Kept
  <1>9. \A n \in 0 .. Len(chain) : f[n] = g[n]
    <2> DEFINE P == {m \in Nat : m <= Len(chain) => f[m] = g[m]}
    <2>1. 0 \in P
      BY <1>7 DEF KeptTill
    <2>2. ASSUME NEW m \in P PROVE m + 1 \in P
      <3> SUFFICES ASSUME m + 1 <= Len(chain) PROVE f[m + 1] = g[m + 1]
        OBVIOUS
      <3>1. m + 1 \in 1 .. Len(chain) /\ (m + 1) - 1 = m /\ f[m] = g[m]
        BY <1>0
      <3>2. g[m + 1] = Kept(chain, keys, g[(m + 1) - 1], m + 1)
        BY <3>1 DEF KeptTill
      <3>3. f[m + 1] = Kept(chain, keys, f[(m + 1) - 1], m + 1)
        BY <1>8, <3>1
      <3> QED
        BY <3>1, <3>2, <3>3
    <2>3. P = Nat
      <3>1. P \in SUBSET Nat
        OBVIOUS
      <3> HIDE DEF P
      <3> QED
        BY <2>1, <2>2, <3>1, SetInduction
    <2> QED
      BY <2>3
  <1> QED
    BY <1>0, <1>4, <1>9

(* The recursion, over sequences. *)
LEMMA OnlyRecursion ==
    ASSUME NEW keys
    PROVE  /\ Only(<<>>, keys) = <<>>
           /\ \A s \in Seq(Entry) : \A e \in Entry :
                 Only(Append(s, e), keys) =
                    IF e.key \in keys THEN Append(Only(s, keys), e) ELSE Only(s, keys)
  <1>1. Only(<<>>, keys) = <<>>
    <2>1. <<>> \in Seq(Entry) /\ Len(<<>>) = 0
      OBVIOUS
    <2>2. PICK g : KeptTill(<<>>, keys, g, Len(<<>>))
      BY <2>1, KeptTillExists
    <2>3. g[0] = <<>>
      BY <2>2 DEF KeptTill
    <2> QED
      BY <2>1, <2>2, <2>3, OnlyIs
  <1>2. ASSUME NEW s \in Seq(Entry), NEW e \in Entry
        PROVE  Only(Append(s, e), keys) =
                  IF e.key \in keys THEN Append(Only(s, keys), e) ELSE Only(s, keys)
    <2> DEFINE t == Append(s, e)
               n == Len(s)
    <2>1. /\ t \in Seq(Entry) /\ Len(t) = n + 1 /\ n \in Nat /\ t[n + 1] = e
          /\ \A i \in 1 .. n : t[i] = s[i]
      BY AppendProperties
    <2> HIDE DEF t
    <2>2. PICK g : KeptTill(t, keys, g, Len(t))
      BY <2>1, KeptTillExists
    <2>3. Only(t, keys) = g[n + 1]
      BY <2>1, <2>2, OnlyIs
    <2> DEFINE h == [m \in 0 .. n |-> g[m]]
    <2>4. KeptTill(s, keys, h, n)
      <3>1. h \in [0 .. n -> Seq(Entry)] /\ h[0] = <<>>
        BY <2>1, <2>2 DEF KeptTill
      <3>2. ASSUME NEW m \in 1 .. n PROVE h[m] = Kept(s, keys, h[m - 1], m)
        <4>1. g[m] = Kept(t, keys, g[m - 1], m)
          BY <2>1, <2>2 DEF KeptTill
        <4>2. h[m] = g[m] /\ h[m - 1] = g[m - 1] /\ t[m] = s[m]
          BY <2>1
        <4> QED
          BY <4>1, <4>2 DEF Kept
      <3> HIDE DEF h, n
      <3> QED
        BY <3>1, <3>2 DEF KeptTill
    <2>5. h[n] = g[n]
      BY <2>1
    <2> HIDE DEF h
    <2>6. Only(s, keys) = g[n]
      BY <2>4, <2>5, OnlyIs
    <2>7. g[n + 1] = Kept(t, keys, g[n], n + 1)
      <3>1. n + 1 \in 1 .. Len(t) /\ (n + 1) - 1 = n
        BY <2>1
      <3> QED
        BY <2>2, <3>1 DEF KeptTill
    <2>8. Only(t, keys) = IF e.key \in keys THEN Append(Only(s, keys), e) ELSE Only(s, keys)
      BY <2>1, <2>3, <2>6, <2>7 DEF Kept
    <2> QED
      BY <2>8 DEF t
  <1> QED
    BY <1>1, <1>2

(* no entry is twice in a chain *)
Apart(s) == \A m, n \in DOMAIN s : s[m].entry = s[n].entry => m = n

(* What a chain holds with one entry more at its end.                       *)
LEMMA AppendHolds ==
    ASSUME NEW s \in Seq(Entry), NEW e \in Entry
    PROVE  /\ Append(s, e) \in Seq(Entry)
           /\ ToSet(Append(s, e)) = ToSet(s) \cup {e}
           /\ AddressesOf(Append(s, e)) = AddressesOf(s) \cup {e.entry}
           /\ Apart(Append(s, e)) <=> Apart(s) /\ e.entry \notin AddressesOf(s)
  <1> DEFINE t == Append(s, e)
             n == Len(s)
  <1>1. /\ t \in Seq(Entry) /\ Len(t) = n + 1 /\ n \in Nat /\ t[n + 1] = e
        /\ (\A i \in 1 .. n : t[i] = s[i]) /\ DOMAIN s = 1 .. n /\ DOMAIN t = 1 .. n + 1
    BY AppendProperties
  <1> HIDE DEF t, n
  <1>2. ToSet(t) = ToSet(s) \cup {e}
    <2>1. \A i \in 1 .. n + 1 : i = n + 1 \/ i \in 1 .. n
      BY <1>1
    <2>2. \A i \in 1 .. n : i \in 1 .. n + 1
      BY <1>1
    <2>3. n + 1 \in 1 .. n + 1
      BY <1>1
    <2>4. ASSUME NEW i \in DOMAIN t PROVE t[i] \in ToSet(s) \cup {e}
      BY <1>1, <2>1 DEF ToSet
    <2>5. ASSUME NEW i \in DOMAIN s PROVE s[i] \in ToSet(t)
      BY <1>1, <2>2 DEF ToSet
    <2>6. e \in ToSet(t)
      BY <1>1, <2>3 DEF ToSet
    <2> QED
      BY <2>4, <2>5, <2>6 DEF ToSet
  <1>3. AddressesOf(t) = AddressesOf(s) \cup {e.entry}
    BY <1>2 DEF AddressesOf
  <1>4. \A a : a \in AddressesOf(s) <=> \E i \in 1 .. n : a = s[i].entry
    BY <1>1 DEF AddressesOf, ToSet
  <1>5. ASSUME Apart(t) PROVE Apart(s) /\ e.entry \notin AddressesOf(s)
    <2>1. \A i, j \in 1 .. n + 1 : t[i].entry = t[j].entry => i = j
      BY <1>1, <1>5 DEF Apart
    <2>2. ASSUME NEW i \in 1 .. n, NEW j \in 1 .. n, s[i].entry = s[j].entry PROVE i = j
      BY <1>1, <2>1, <2>2
    <2>3. ASSUME NEW i \in 1 .. n PROVE s[i].entry # e.entry
      <3>1. i \in 1 .. n + 1 /\ n + 1 \in 1 .. n + 1 /\ i # n + 1
        BY <1>1
      <3> QED
        BY <1>1, <2>1, <3>1
    <2> QED
      BY <1>1, <1>4, <2>2, <2>3 DEF Apart
  <1>6. ASSUME Apart(s), e.entry \notin AddressesOf(s) PROVE Apart(t)
    <2> SUFFICES ASSUME NEW i \in 1 .. n + 1, NEW j \in 1 .. n + 1, t[i].entry = t[j].entry
                 PROVE  i = j
      BY <1>1 DEF Apart
    <2>1. \A k \in 1 .. n : s[k].entry # e.entry
      BY <1>4, <1>6
    <2>2. CASE i \in 1 .. n /\ j \in 1 .. n
      BY <1>1, <1>6, <2>2 DEF Apart
    <2>3. CASE i = n + 1 \/ j = n + 1
      BY <1>1, <2>1, <2>3
    <2> QED
      BY <1>1, <2>2, <2>3
  <1>7. Apart(t) <=> Apart(s) /\ e.entry \notin AddressesOf(s)
    BY <1>5, <1>6
  <1> QED
    BY <1>1, <1>2, <1>3, <1>7 DEF t

(* What Only leaves of a chain.                                             *)
LEMMA OnlyHolds ==
    ASSUME NEW keys, NEW s \in Seq(Entry)
    PROVE  /\ Only(s, keys) \in Seq(Entry)
           /\ ToSet(Only(s, keys)) = {e \in ToSet(s) : e.key \in keys}
           /\ Apart(s) => Apart(Only(s, keys))
  <1> DEFINE Good(c) == /\ Only(c, keys) \in Seq(Entry)
                        /\ ToSet(Only(c, keys)) = {e \in ToSet(c) : e.key \in keys}
                        /\ Apart(c) => Apart(Only(c, keys))
             T == {c \in Seq(Entry) : Good(c)}
  <1>1. <<>> \in T
    <2>1. <<>> \in Seq(Entry) /\ ToSet(<<>>) = {} /\ Apart(<<>>)
      BY DEF ToSet, Apart
    <2>2. Good(<<>>)
      BY <2>1, OnlyRecursion
    <2> QED
      BY <2>1, <2>2
  <1>2. ASSUME NEW c \in T \cap Seq(Entry), NEW e \in Entry PROVE Append(c, e) \in T
    <2> DEFINE o == Only(c, keys)
               p == Only(Append(c, e), keys)
    <2>1. /\ c \in Seq(Entry) /\ o \in Seq(Entry)
          /\ ToSet(o) = {x \in ToSet(c) : x.key \in keys} /\ (Apart(c) => Apart(o))
      BY <1>2
    <2>2. p = IF e.key \in keys THEN Append(o, e) ELSE o
      BY <2>1, OnlyRecursion
    <2> HIDE DEF o, p
    <2>3. /\ Append(c, e) \in Seq(Entry) /\ ToSet(Append(c, e)) = ToSet(c) \cup {e}
          /\ Apart(Append(c, e)) <=> Apart(c) /\ e.entry \notin AddressesOf(c)
      BY <2>1, AppendHolds
    <2>4. /\ Append(o, e) \in Seq(Entry) /\ ToSet(Append(o, e)) = ToSet(o) \cup {e}
          /\ Apart(Append(o, e)) <=> Apart(o) /\ e.entry \notin AddressesOf(o)
      BY <2>1, AppendHolds
    <2>5. AddressesOf(o) \subseteq AddressesOf(c)
      BY <2>1 DEF AddressesOf
    <2>6. p \in Seq(Entry)
      BY <2>1, <2>2, <2>4
    <2>7. ToSet(p) = {x \in ToSet(Append(c, e)) : x.key \in keys}
      <3>1. CASE e.key \in keys
        BY <2>1, <2>2, <2>3, <2>4, <3>1
      <3>2. CASE e.key \notin keys
        BY <2>1, <2>2, <2>3, <3>2
      <3> QED
        BY <3>1, <3>2
    <2>8. Apart(Append(c, e)) => Apart(p)
      BY <2>1, <2>2, <2>3, <2>4, <2>5
    <2>9. Good(Append(c, e))
      BY <2>6, <2>7, <2>8 DEF p
    <2> HIDE DEF Good
    <2> QED
      BY <2>3, <2>9
  <1>3. \A c \in Seq(Entry) : c \in T
    <2> HIDE DEF T
    <2> QED
      BY <1>1, <1>2, SeqInduction
  <1>4. s \in T
    <2> HIDE DEF T
    <2> QED
      BY <1>3
  <1> QED
    BY <1>4

(* A chain without these keys.                                              *)
LEMMA OnlyNone ==
    ASSUME NEW keys, NEW s \in Seq(Entry), \A e \in ToSet(s) : e.key \notin keys
    PROVE  Only(s, keys) = <<>>
  <1>1. Only(s, keys) \in Seq(Entry) /\ ToSet(Only(s, keys)) = {}
    BY OnlyHolds
  <1> DEFINE o == Only(s, keys)
  <1> HIDE DEF o
  <1>2. o \in Seq(Entry) /\ ToSet(o) = {}
    BY <1>1 DEF o
  <1>3. Len(o) = 0
    <2>1. Len(o) \in Nat /\ DOMAIN o = 1 .. Len(o)
      BY <1>2
    <2>2. \A i \in DOMAIN o : o[i] \in ToSet(o)
      BY DEF ToSet
    <2>3. DOMAIN o = {}
      BY <1>2, <2>2
    <2> QED
      BY <2>1, <2>3
  <1>4. o = <<>>
    BY <1>2, <1>3
  <1> QED
    BY <1>4 DEF o

(* Concatenation. *)
LEMMA OnlyConcat ==
    ASSUME NEW keys, NEW s \in Seq(Entry), NEW t \in Seq(Entry)
    PROVE  Only(s \o t, keys) = Only(s, keys) \o Only(t, keys)
  <1> DEFINE T == {c \in Seq(Entry) : Only(s \o c, keys) = Only(s, keys) \o Only(c, keys)}
             os == Only(s, keys)
  <1>0. os \in Seq(Entry)
    BY OnlyHolds
  <1>1. <<>> \in T
    <2>1. s \o <<>> = s /\ os \o <<>> = os /\ <<>> \in Seq(Entry)
      BY <1>0, ConcatEmptySeq
    <2>2. Only(s \o <<>>, keys) = os \o Only(<<>>, keys)
      BY <2>1, OnlyRecursion
    <2> QED
      BY <2>1, <2>2
  <1>2. ASSUME NEW c \in T \cap Seq(Entry), NEW e \in Entry PROVE Append(c, e) \in T
    <2> DEFINE o == Only(c, keys)
               sc == s \o c
    <2>1. c \in Seq(Entry) /\ o \in Seq(Entry) /\ Only(sc, keys) = os \o o /\ sc \in Seq(Entry)
          /\ Append(c, e) \in Seq(Entry)
      BY <1>2, OnlyHolds
    <2>2. s \o Append(c, e) = Append(sc, e)
      BY <2>1
    <2>3. os \o Append(o, e) = Append(os \o o, e)
      BY <1>0, <2>1
    <2>4. Only(Append(sc, e), keys) =
             IF e.key \in keys THEN Append(Only(sc, keys), e) ELSE Only(sc, keys)
      <3> HIDE DEF sc
      <3> QED
        BY <2>1, OnlyRecursion
    <2>5. Only(Append(c, e), keys) = IF e.key \in keys THEN Append(o, e) ELSE o
      BY <2>1, OnlyRecursion
    <2>6. Only(s \o Append(c, e), keys) = os \o Only(Append(c, e), keys)
      <3> HIDE DEF o, sc, os
      <3> QED
        BY <2>1, <2>2, <2>3, <2>4, <2>5
    <2> QED
      BY <2>1, <2>6
  <1>3. \A c \in Seq(Entry) : c \in T
    <2> HIDE DEF T
    <2> QED
      BY <1>1, <1>2, SeqInduction
  <1>4. t \in T
    <2> HIDE DEF T
    <2> QED
      BY <1>3
  <1> QED
    BY <1>4

(* Choosing twice. *)
LEMMA OnlyOnly ==
    ASSUME NEW keys, NEW more, NEW s \in Seq(Entry)
    PROVE  Only(Only(s, keys), more) = Only(s, keys \cap more)
  <1> DEFINE T == {c \in Seq(Entry) : Only(Only(c, keys), more) = Only(c, keys \cap more)}
  <1>1. <<>> \in T
    <2>1. Only(<<>>, keys) = <<>> /\ Only(<<>>, more) = <<>> /\ Only(<<>>, keys \cap more) = <<>>
      BY OnlyRecursion
    <2>2. <<>> \in Seq(Entry)
      OBVIOUS
    <2> QED
      BY <2>1, <2>2
  <1>2. ASSUME NEW c \in T \cap Seq(Entry), NEW e \in Entry PROVE Append(c, e) \in T
    <2> DEFINE o == Only(c, keys)
               both == keys \cap more
    <2>1. /\ c \in Seq(Entry) /\ o \in Seq(Entry) /\ Only(o, more) = Only(c, both)
          /\ Append(c, e) \in Seq(Entry)
      BY <1>2, OnlyHolds
    <2>2. Only(Append(c, e), keys) = IF e.key \in keys THEN Append(o, e) ELSE o
      BY <2>1, OnlyRecursion
    <2>3. e.key \in both <=> e.key \in keys /\ e.key \in more
      OBVIOUS
    <2> HIDE DEF o, both
    <2>4. Only(Append(c, e), both) = IF e.key \in both THEN Append(Only(c, both), e) ELSE Only(c, both)
      BY <2>1, OnlyRecursion
    <2>5. Only(Append(o, e), more) = IF e.key \in more THEN Append(Only(o, more), e) ELSE Only(o, more)
      BY <2>1, OnlyRecursion
    <2>6. Only(Only(Append(c, e), keys), more) = Only(Append(c, e), both)
      BY <2>1, <2>2, <2>3, <2>4, <2>5
    <2> QED
      BY <2>1, <2>6 DEF both
  <1>3. \A c \in Seq(Entry) : c \in T
    <2> HIDE DEF T
    <2> QED
      BY <1>1, <1>2, SeqInduction
  <1>4. s \in T
    <2> HIDE DEF T
    <2> QED
      BY <1>3
  <1> QED
    BY <1>4

(* One entry. *)
LEMMA OnlyOne ==
    ASSUME NEW keys, NEW e \in Entry, NEW s \in Seq(Entry)
    PROVE  Only(Cons(e, s), keys) =
              IF e.key \in keys THEN Cons(e, Only(s, keys)) ELSE Only(s, keys)
  <1> DEFINE o == Only(s, keys)
             one == Append(<<>>, e)
  <1>1. <<>> \in Seq(Entry) /\ one = <<e>> /\ one \in Seq(Entry) /\ o \in Seq(Entry)
    BY OnlyHolds
  <1>2. Only(one, keys) = IF e.key \in keys THEN <<e>> ELSE <<>>
    <2>1. Only(Append(<<>>, e), keys) =
             IF e.key \in keys THEN Append(Only(<<>>, keys), e) ELSE Only(<<>>, keys)
      BY <1>1, OnlyRecursion
    <2>2. Only(<<>>, keys) = <<>>
      BY OnlyRecursion
    <2> QED
      BY <1>1, <2>1, <2>2
  <1>3. Cons(e, s) = one \o s /\ Cons(e, o) = <<e>> \o o
    BY <1>1 DEF Cons
  <1>4. <<>> \o o = o
    BY <1>1, ConcatEmptySeq
  <1>5. Only(one \o s, keys) = Only(one, keys) \o o
    <2> HIDE DEF one
    <2> QED
      BY <1>1, OnlyConcat DEF o
  <1> HIDE DEF one, o
  <1>6. Only(Cons(e, s), keys) = IF e.key \in keys THEN Cons(e, o) ELSE o
    BY <1>2, <1>3, <1>4, <1>5
  <1> QED
    BY <1>6 DEF o

----------------------------------------------------------------------------
(* Reversal. *)

LEMMA ReverseIs ==
    ASSUME NEW S, NEW s \in Seq(S)
    PROVE  /\ Reverse(s) \in Seq(S) /\ Len(Reverse(s)) = Len(s)
           /\ \A i \in 1 .. Len(s) : Reverse(s)[i] = s[(Len(s) - i) + 1]
  <1>1. Len(s) \in Nat /\ \A i \in 1 .. Len(s) : s[(Len(s) - i) + 1] \in S
    OBVIOUS
  <1> QED
    BY <1>1 DEF Reverse

LEMMA ReverseEmpty == Reverse(<<>>) = <<>>
  <1> DEFINE r == Reverse(<<>>)
  <1>1. <<>> \in Seq(Nat) /\ Len(<<>>) = 0
    OBVIOUS
  <1>2. r \in Seq(Nat) /\ Len(r) = 0
    BY <1>1, ReverseIs
  <1> HIDE DEF r
  <1>3. r = <<>>
    BY <1>2
  <1> QED
    BY <1>3 DEF r

LEMMA ReverseHolds ==
    ASSUME NEW s \in Seq(Entry)
    PROVE  /\ Reverse(s) \in Seq(Entry) /\ ToSet(Reverse(s)) = ToSet(s)
           /\ Apart(s) => Apart(Reverse(s))
  <1> DEFINE r == Reverse(s)
             n == Len(s)
             from(i) == (n - i) + 1
  <1>1. /\ r \in Seq(Entry) /\ Len(r) = n /\ n \in Nat /\ DOMAIN r = 1 .. n /\ DOMAIN s = 1 .. n
        /\ \A i \in 1 .. n : r[i] = s[from(i)]
    BY ReverseIs
  <1> HIDE DEF r, n
  <1>2. /\ \A i \in 1 .. n : from(i) \in 1 .. n /\ from(from(i)) = i
        /\ \A i, j \in 1 .. n : from(i) = from(j) => i = j
    BY <1>1
  <1> HIDE DEF from
  <1>3. ToSet(r) = ToSet(s)
    <2>1. \A i \in 1 .. n : r[i] \in ToSet(s)
      BY <1>1, <1>2 DEF ToSet
    <2>2. ASSUME NEW i \in 1 .. n PROVE s[i] \in ToSet(r)
      <3>1. from(i) \in DOMAIN r /\ r[from(i)] = s[i]
        BY <1>1, <1>2
      <3> QED
        BY <3>1 DEF ToSet
    <2> QED
      BY <1>1, <2>1, <2>2 DEF ToSet
  <1>4. ASSUME Apart(s) PROVE Apart(r)
    <2> SUFFICES ASSUME NEW i \in 1 .. n, NEW j \in 1 .. n, r[i].entry = r[j].entry
                 PROVE  i = j
      BY <1>1 DEF Apart
    <2>1. from(i) = from(j)
      BY <1>1, <1>2, <1>4 DEF Apart
    <2> QED
      BY <1>2, <2>1
  <1> QED
    BY <1>1, <1>3, <1>4 DEF r

LEMMA ReverseAppend ==
    ASSUME NEW S, NEW s \in Seq(S), NEW e \in S
    PROVE  Reverse(Append(s, e)) = Cons(e, Reverse(s))
  <1> DEFINE t == Append(s, e)
             n == Len(s)
             r == Reverse(s)
             x == Reverse(t)
             y == Cons(e, r)
  <1>1. /\ t \in Seq(S) /\ Len(t) = n + 1 /\ n \in Nat /\ t[n + 1] = e
        /\ (\A i \in 1 .. n : t[i] = s[i])
    BY AppendProperties
  <1>2. r \in Seq(S) /\ Len(r) = n /\ \A i \in 1 .. n : r[i] = s[(n - i) + 1]
    BY ReverseIs
  <1> HIDE DEF t, r
  <1>3. x \in Seq(S) /\ Len(x) = n + 1 /\ \A i \in 1 .. n + 1 : x[i] = t[((n + 1) - i) + 1]
    BY <1>1, ReverseIs
  <1>4. /\ y \in Seq(S) /\ Len(y) = n + 1 /\ y[1] = e
        /\ \A i \in 1 .. n : y[i + 1] = r[i]
    BY <1>2, ConsIs
  <1> HIDE DEF x, y, n
  <1>5. ASSUME NEW i \in 1 .. n + 1 PROVE x[i] = y[i]
    <2>1. CASE i = 1
      BY <1>1, <1>3, <1>4, <2>1
    <2>2. CASE i # 1
      <3>1. i - 1 \in 1 .. n /\ (i - 1) + 1 = i /\ (n - (i - 1)) + 1 = ((n + 1) - i) + 1
            /\ ((n + 1) - i) + 1 \in 1 .. n
        BY <1>1, <2>2
      <3>2. y[i] = r[i - 1]
        BY <1>4, <3>1
      <3>3. r[i - 1] = s[((n + 1) - i) + 1]
        BY <1>2, <3>1
      <3> QED
        BY <1>1, <1>3, <3>1, <3>2, <3>3
    <2> QED
      BY <2>1, <2>2
  <1>6. x = y
    BY <1>3, <1>4, <1>5, SeqEqual
  <1> QED
    BY <1>6 DEF x, y, t, r

LEMMA OnlyReverse ==
    ASSUME NEW keys, NEW s \in Seq(Entry)
    PROVE  Only(Reverse(s), keys) = Reverse(Only(s, keys))
  <1> DEFINE T == {c \in Seq(Entry) : Only(Reverse(c), keys) = Reverse(Only(c, keys))}
  <1>1. <<>> \in T
    <2>1. <<>> \in Seq(Entry) /\ Len(<<>>) = 0
      OBVIOUS
    <2>2. Reverse(<<>>) = <<>>
      BY ReverseEmpty
    <2>3. Only(<<>>, keys) = <<>>
      BY OnlyRecursion
    <2> QED
      BY <2>1, <2>2, <2>3
  <1>2. ASSUME NEW c \in T \cap Seq(Entry), NEW e \in Entry PROVE Append(c, e) \in T
    <2> DEFINE o == Only(c, keys)
               r == Reverse(c)
    <2>1. /\ c \in Seq(Entry) /\ o \in Seq(Entry) /\ r \in Seq(Entry)
          /\ Only(r, keys) = Reverse(o) /\ Append(c, e) \in Seq(Entry)
      BY <1>2, OnlyHolds, ReverseIs
    <2>2. Only(Append(c, e), keys) = IF e.key \in keys THEN Append(o, e) ELSE o
      BY <2>1, OnlyRecursion
    <2>3. Reverse(Append(c, e)) = Cons(e, r) /\ Reverse(Append(o, e)) = Cons(e, Reverse(o))
      BY <2>1, ReverseAppend
    <2> HIDE DEF o, r
    <2>4. Only(Cons(e, r), keys) = IF e.key \in keys THEN Cons(e, Only(r, keys)) ELSE Only(r, keys)
      BY <2>1, OnlyOne
    <2>5. Only(Reverse(Append(c, e)), keys) = Reverse(Only(Append(c, e), keys))
      BY <2>1, <2>2, <2>3, <2>4
    <2> QED
      BY <2>1, <2>5
  <1>3. \A c \in Seq(Entry) : c \in T
    <2> HIDE DEF T
    <2> QED
      BY <1>1, <1>2, SeqInduction
  <1>4. s \in T
    <2> HIDE DEF T
    <2> QED
      BY <1>3
  <1> QED
    BY <1>4

----------------------------------------------------------------------------
(* Chains that change. *)

(* Addresses are those at the places.                                       *)
LEMMA AddressIs ==
    ASSUME NEW s \in Seq(Entry)
    PROVE  \A a : a \in AddressesOf(s) <=> \E i \in 1 .. Len(s) : a = s[i].entry
  <1>1. DOMAIN s = 1 .. Len(s)
    OBVIOUS
  <1> QED
    BY <1>1 DEF AddressesOf, ToSet

(* One chain behind another. *)
LEMMA ConcatHolds ==
    ASSUME NEW s \in Seq(Entry), NEW t \in Seq(Entry)
    PROVE  /\ s \o t \in Seq(Entry) /\ ToSet(s \o t) = ToSet(s) \cup ToSet(t)
           /\ AddressesOf(s \o t) = AddressesOf(s) \cup AddressesOf(t)
           /\ Apart(s) /\ Apart(t) /\ AddressesOf(s) \cap AddressesOf(t) = {} => Apart(s \o t)
  <1> DEFINE w == s \o t
             m == Len(s)
             n == Len(t)
  <1>1. /\ w \in Seq(Entry) /\ Len(w) = m + n /\ m \in Nat /\ n \in Nat
        /\ \A i \in 1 .. m : w[i] = s[i]
        /\ \A i \in 1 .. n : w[m + i] = t[i]
    BY ConcatIs
  <1>2. DOMAIN w = 1 .. m + n /\ DOMAIN s = 1 .. m /\ DOMAIN t = 1 .. n
    BY <1>1
  <1> HIDE DEF w, m, n
  <1>3. \A i \in 1 .. m + n : i \in 1 .. m \/ (i - m \in 1 .. n /\ m + (i - m) = i)
    BY <1>1
  <1>4. /\ \A i \in 1 .. m : i \in 1 .. m + n
        /\ \A i \in 1 .. n : m + i \in 1 .. m + n
    BY <1>1
  <1>5. ToSet(w) = ToSet(s) \cup ToSet(t)
    <2>1. ASSUME NEW i \in 1 .. m + n PROVE w[i] \in ToSet(s) \cup ToSet(t)
      <3>1. CASE i \in 1 .. m
        BY <1>1, <1>2, <3>1 DEF ToSet
      <3>2. CASE i - m \in 1 .. n /\ m + (i - m) = i
        <4>1. w[i] = t[i - m]
          BY <1>1, <3>2
        <4> QED
          BY <1>2, <3>2, <4>1 DEF ToSet
      <3> QED
        BY <1>3, <3>1, <3>2
    <2>2. ASSUME NEW i \in 1 .. m PROVE s[i] \in ToSet(w)
      BY <1>1, <1>2, <1>4 DEF ToSet
    <2>3. ASSUME NEW i \in 1 .. n PROVE t[i] \in ToSet(w)
      BY <1>1, <1>2, <1>4 DEF ToSet
    <2>4. ToSet(w) \subseteq ToSet(s) \cup ToSet(t)
      BY <1>2, <2>1 DEF ToSet
    <2>5. ToSet(s) \subseteq ToSet(w)
      BY <1>2, <2>2 DEF ToSet
    <2>6. ToSet(t) \subseteq ToSet(w)
      BY <1>2, <2>3 DEF ToSet
    <2> QED
      BY <2>4, <2>5, <2>6
  <1>6. AddressesOf(w) = AddressesOf(s) \cup AddressesOf(t)
    BY <1>5 DEF AddressesOf
  <1>7. ASSUME Apart(s), Apart(t), AddressesOf(s) \cap AddressesOf(t) = {} PROVE Apart(w)
    <2> SUFFICES ASSUME NEW i \in 1 .. m + n, NEW j \in 1 .. m + n, w[i].entry = w[j].entry
                 PROVE  i = j
      BY <1>2 DEF Apart
    <2>1. \A a \in 1 .. m : s[a].entry \in AddressesOf(s)
      BY <1>2 DEF AddressesOf, ToSet
    <2>2. \A a \in 1 .. n : t[a].entry \in AddressesOf(t)
      BY <1>2 DEF AddressesOf, ToSet
    <2>3. CASE i \in 1 .. m /\ j \in 1 .. m
      BY <1>1, <1>2, <1>7, <2>3 DEF Apart
    <2>4. CASE i \notin 1 .. m /\ j \notin 1 .. m
      <3>1. /\ i - m \in 1 .. n /\ j - m \in 1 .. n /\ w[i] = t[i - m] /\ w[j] = t[j - m]
        BY <1>1, <1>3, <2>4
      <3>2. i - m = j - m
        BY <1>2, <1>7, <3>1 DEF Apart
      <3> QED
        BY <1>1, <3>2
    <2>5. CASE i \in 1 .. m /\ j \notin 1 .. m
      <3>1. j - m \in 1 .. n /\ w[j] = t[j - m] /\ w[i] = s[i]
        BY <1>1, <1>3, <2>5
      <3> QED
        BY <1>7, <2>1, <2>2, <2>5, <3>1
    <2>6. CASE i \notin 1 .. m /\ j \in 1 .. m
      <3>1. i - m \in 1 .. n /\ w[i] = t[i - m] /\ w[j] = s[j]
        BY <1>1, <1>3, <2>6
      <3> QED
        BY <1>7, <2>1, <2>2, <2>6, <3>1
    <2> QED
      BY <2>3, <2>4, <2>5, <2>6
  <1> QED
    BY <1>1, <1>5, <1>6, <1>7 DEF w

(* An entry at the head. *)
LEMMA ConsHolds ==
    ASSUME NEW s \in Seq(Entry), NEW e \in Entry
    PROVE  /\ Cons(e, s) \in Seq(Entry) /\ ToSet(Cons(e, s)) = {e} \cup ToSet(s)
           /\ AddressesOf(Cons(e, s)) = {e.entry} \cup AddressesOf(s)
           /\ Apart(s) /\ e.entry \notin AddressesOf(s) => Apart(Cons(e, s))
  <1> DEFINE one == <<e>>
  <1>1. one \in Seq(Entry) /\ ToSet(one) = {e} /\ Apart(one)
    BY DEF ToSet, Apart
  <1>2. AddressesOf(one) = {e.entry}
    BY <1>1 DEF AddressesOf
  <1>3. Cons(e, s) = one \o s
    BY DEF Cons
  <1> HIDE DEF one
  <1> QED
    BY <1>1, <1>2, <1>3, ConcatHolds

(* A chain without the entry at place p. *)
Dropped(s, p) == Before(s, p) \o After(s, p)

LEMMA DroppedIs ==
    ASSUME NEW s \in Seq(Entry), NEW p \in 1 .. Len(s)
    PROVE  /\ Dropped(s, p) \in Seq(Entry) /\ Len(Dropped(s, p)) = Len(s) - 1
           /\ \A i \in 1 .. p - 1 : Dropped(s, p)[i] = s[i]
           /\ \A i \in p .. Len(s) - 1 : Dropped(s, p)[i] = s[i + 1]
  <1> DEFINE u == Before(s, p)
             v == After(s, p)
             d == u \o v
  <1>1. /\ u \in Seq(Entry) /\ Len(u) = p - 1 /\ \A i \in 1 .. p - 1 : u[i] = s[i]
        /\ v \in Seq(Entry) /\ Len(v) = Len(s) - p /\ \A i \in 1 .. Len(s) - p : v[i] = s[p + i]
    BY Pieces
  <1>2. Len(s) \in Nat /\ p \in Nat /\ p >= 1 /\ p <= Len(s)
    OBVIOUS
  <1>3. d = Dropped(s, p)
    BY DEF Dropped
  <1> HIDE DEF u, v
  <1>4. /\ d \in Seq(Entry) /\ Len(d) = Len(u) + Len(v)
        /\ \A i \in 1 .. Len(u) : d[i] = u[i]
        /\ \A i \in 1 .. Len(v) : d[Len(u) + i] = v[i]
    <2>1. u \in Seq(Entry) /\ v \in Seq(Entry)
      BY <1>1
    <2> QED
      BY <2>1, ConcatIs
  <1> HIDE DEF d
  <1>5. Len(d) = Len(s) - 1 /\ \A i \in 1 .. p - 1 : d[i] = s[i]
    BY <1>1, <1>2, <1>4
  <1>6. ASSUME NEW i \in p .. Len(s) - 1 PROVE d[i] = s[i + 1]
    <2> DEFINE k == (i - p) + 1
    <2>1. k \in 1 .. Len(s) - p /\ (p - 1) + k = i /\ p + k = i + 1
      BY <1>2
    <2> HIDE DEF k
    <2>2. d[Len(u) + k] = v[k]
      BY <1>1, <1>4, <2>1
    <2> QED
      BY <1>1, <2>1, <2>2
  <1> QED
    BY <1>3, <1>4, <1>5, <1>6

LEMMA DroppedHolds ==
    ASSUME NEW s \in Seq(Entry), NEW p \in 1 .. Len(s), Apart(s)
    PROVE  /\ ToSet(Dropped(s, p)) \subseteq ToSet(s) /\ Apart(Dropped(s, p))
           /\ AddressesOf(Dropped(s, p)) = AddressesOf(s) \ {s[p].entry}
  <1> DEFINE d == Dropped(s, p)
             n == Len(s)
             from(i) == IF i < p THEN i ELSE i + 1
  <1>1. /\ d \in Seq(Entry) /\ Len(d) = n - 1 /\ n \in Nat /\ DOMAIN s = 1 .. n
        /\ DOMAIN d = 1 .. n - 1
    BY DroppedIs
  <1>2. ASSUME NEW i \in 1 .. n - 1 PROVE d[i] = s[from(i)]
    <2>1. /\ \A j \in 1 .. p - 1 : d[j] = s[j]
          /\ \A j \in p .. n - 1 : d[j] = s[j + 1]
      BY DroppedIs
    <2> HIDE DEF d, n
    <2>2. CASE i < p
      BY <1>1, <2>1, <2>2
    <2>3. CASE ~(i < p)
      BY <1>1, <2>1, <2>3
    <2> QED
      BY <2>2, <2>3
  <1>3. /\ \A i \in 1 .. n - 1 : from(i) \in 1 .. n /\ from(i) # p
        /\ \A i, j \in 1 .. n - 1 : from(i) = from(j) => i = j
    BY <1>1
  <1>4. \A j \in 1 .. n : j # p => \E i \in 1 .. n - 1 : from(i) = j
    <2> SUFFICES ASSUME NEW j \in 1 .. n, j # p PROVE \E i \in 1 .. n - 1 : from(i) = j
      OBVIOUS
    <2>1. CASE j < p
      <3>1. j \in 1 .. n - 1 /\ from(j) = j
        BY <1>1, <2>1
      <3> QED
        BY <3>1
    <2>2. CASE j > p
      <3>1. j - 1 \in 1 .. n - 1 /\ from(j - 1) = j
        BY <1>1, <2>2
      <3> QED
        BY <3>1
    <2> QED
      BY <1>1, <2>1, <2>2
  <1> HIDE DEF d, n, from
  <1>5. \A i, j \in 1 .. n : s[i].entry = s[j].entry => i = j
    BY <1>1 DEF Apart
  <1>6. ToSet(d) \subseteq ToSet(s)
    BY <1>1, <1>2, <1>3 DEF ToSet
  <1>7. Apart(d)
    BY <1>1, <1>2, <1>3, <1>5 DEF Apart
  <1>8. p \in 1 .. n
    BY DEF n
  <1>9. \A a : a \in AddressesOf(d) <=> \E i \in 1 .. n - 1 : a = d[i].entry
    BY <1>1, AddressIs
  <1>10. \A a : a \in AddressesOf(s) <=> \E i \in 1 .. n : a = s[i].entry
    BY AddressIs DEF n
  <1>11. ASSUME NEW a \in AddressesOf(d) PROVE a \in AddressesOf(s) \ {s[p].entry}
    BY <1>2, <1>3, <1>5, <1>8, <1>9, <1>10
  <1>12. ASSUME NEW a \in AddressesOf(s) \ {s[p].entry} PROVE a \in AddressesOf(d)
    <2>1. PICK j \in 1 .. n : a = s[j].entry
      BY <1>10
    <2>2. PICK i \in 1 .. n - 1 : from(i) = j
      BY <1>4, <2>1
    <2> QED
      BY <1>2, <1>9, <2>1, <2>2
  <1>13. AddressesOf(d) = AddressesOf(s) \ {s[p].entry}
    BY <1>11, <1>12
  <1> QED
    BY <1>6, <1>7, <1>13 DEF d

(* A chain of which only values have changed.                               *)
LEMMA SameHolds ==
    ASSUME NEW s \in Seq(Entry), NEW x \in Seq(Entry), Len(x) = Len(s),
           \A i \in 1 .. Len(s) : x[i].entry = s[i].entry
    PROVE  AddressesOf(x) = AddressesOf(s) /\ (Apart(s) => Apart(x))
  <1>1. DOMAIN s = 1 .. Len(s) /\ DOMAIN x = 1 .. Len(s)
    OBVIOUS
  <1>2. Apart(s) => Apart(x)
    BY <1>1 DEF Apart
  <1>3. \A a : a \in AddressesOf(x) <=> \E i \in 1 .. Len(s) : a = x[i].entry
    BY AddressIs
  <1>4. \A a : a \in AddressesOf(s) <=> \E i \in 1 .. Len(s) : a = s[i].entry
    BY AddressIs
  <1>5. \A a : a \in AddressesOf(x) <=> a \in AddressesOf(s)
    BY <1>3, <1>4
  <1> QED
    BY <1>2, <1>5

----------------------------------------------------------------------------
(* Tables. *)

Chains(n) == [0 .. n - 1 -> Seq(Entry)]

(* every entry is linked once, in the chain of its hash, for a table of     *)
(* size n                                                                   *)
Good(t, n) == t \in Chains(n) /\ LinkedOnce(t) /\ WellHashed(t, n)

(* The same, chain by chain.                                                *)
LEMMA GoodIs ==
    ASSUME NEW n \in Nat, NEW t \in Chains(n)
    PROVE  Good(t, n) <=>
              /\ \A i \in 0 .. n - 1 : Apart(t[i])
              /\ \A i, j \in 0 .. n - 1 : i # j => AddressesOf(t[i]) \cap AddressesOf(t[j]) = {}
              /\ \A i \in 0 .. n - 1 : \A e \in ToSet(t[i]) : indexFor(n, e.key) = i
  <1>1. DOMAIN t = 0 .. n - 1 /\ \A i \in 0 .. n - 1 : t[i] \in Seq(Entry)
    BY DEF Chains
  <1>2. \A i \in 0 .. n - 1 : \A a :
           a \in AddressesOf(t[i]) <=> \E m \in DOMAIN t[i] : a = t[i][m].entry
    BY DEF AddressesOf, ToSet
  <1>3. ASSUME Good(t, n)
        PROVE  /\ \A i \in 0 .. n - 1 : Apart(t[i])
               /\ \A i, j \in 0 .. n - 1 : i # j => AddressesOf(t[i]) \cap AddressesOf(t[j]) = {}
               /\ \A i \in 0 .. n - 1 : \A e \in ToSet(t[i]) : indexFor(n, e.key) = i
    <2>1. \A i, j \in 0 .. n - 1 : \A k \in DOMAIN t[i], l \in DOMAIN t[j] :
             t[i][k].entry = t[j][l].entry => i = j /\ k = l
      BY <1>1, <1>3 DEF Good, LinkedOnce
    <2>2. \A i \in 0 .. n - 1 : Apart(t[i])
      BY <2>1 DEF Apart
    <2>3. ASSUME NEW i \in 0 .. n - 1, NEW j \in 0 .. n - 1, i # j,
                 NEW a \in AddressesOf(t[i]) \cap AddressesOf(t[j])
          PROVE  FALSE
      <3>1. PICK k \in DOMAIN t[i] : a = t[i][k].entry
        BY <1>2
      <3>2. PICK l \in DOMAIN t[j] : a = t[j][l].entry
        BY <1>2
      <3> QED
        BY <2>1, <2>3, <3>1, <3>2
    <2>4. \A i \in 0 .. n - 1 : \A e \in ToSet(t[i]) : indexFor(n, e.key) = i
      BY <1>1, <1>3 DEF Good, WellHashed, ToSet
    <2> QED
      BY <2>2, <2>3, <2>4
  <1>4. ASSUME \A i \in 0 .. n - 1 : Apart(t[i]),
               \A i, j \in 0 .. n - 1 : i # j => AddressesOf(t[i]) \cap AddressesOf(t[j]) = {},
               \A i \in 0 .. n - 1 : \A e \in ToSet(t[i]) : indexFor(n, e.key) = i
        PROVE  Good(t, n)
    <2>1. ASSUME NEW i \in 0 .. n - 1, NEW j \in 0 .. n - 1, NEW k \in DOMAIN t[i],
                 NEW l \in DOMAIN t[j], t[i][k].entry = t[j][l].entry
          PROVE  i = j /\ k = l
      <3>1. t[i][k].entry \in AddressesOf(t[i]) /\ t[j][l].entry \in AddressesOf(t[j])
        BY <1>2
      <3>2. i = j
        BY <1>4, <2>1, <3>1
      <3>3. k = l
        BY <1>4, <2>1, <3>2 DEF Apart
      <3> QED
        BY <3>2, <3>3
    <2>2. LinkedOnce(t)
      BY <1>1, <2>1 DEF LinkedOnce
    <2>3. WellHashed(t, n)
      BY <1>1, <1>4 DEF WellHashed, ToSet
    <2> QED
      BY <2>2, <2>3 DEF Good
  <1> QED
    BY <1>3, <1>4

LEMMA AddressesAre ==
    ASSUME NEW n \in Nat, NEW t \in Chains(n)
    PROVE  \A a : a \in Addresses(t) <=> \E i \in 0 .. n - 1 : a \in AddressesOf(t[i])
  BY DEF Addresses, Chains

(* u is t with the chain c at i                                             *)
Replaced(t, u, i, c, n) ==
    /\ u \in Chains(n) /\ u[i] = c
    /\ \A j \in 0 .. n - 1 : j # i => u[j] = t[j]

(* One chain is replaced by another with its own addresses and fresh ones.  *)
LEMMA ChainReplaced ==
    ASSUME NEW n \in Nat, NEW t, Good(t, n), NEW i \in 0 .. n - 1, NEW c \in Seq(Entry), Apart(c),
           \A e \in ToSet(c) : indexFor(n, e.key) = i,
           \A a \in AddressesOf(c) : a \in AddressesOf(t[i]) \/ a \notin Addresses(t),
           NEW u, Replaced(t, u, i, c, n)
    PROVE  /\ Good(u, n)
           /\ Addresses(u) = AddressesOf(c) \cup (Addresses(t) \ AddressesOf(t[i]))
  <1>1. t \in Chains(n)
    BY DEF Good
  <1>2. u \in Chains(n) /\ u[i] = c /\ \A j \in 0 .. n - 1 : j # i => u[j] = t[j]
    BY DEF Replaced
  <1>3. /\ \A j \in 0 .. n - 1 : Apart(t[j])
        /\ \A j, k \in 0 .. n - 1 : j # k => AddressesOf(t[j]) \cap AddressesOf(t[k]) = {}
        /\ \A j \in 0 .. n - 1 : \A e \in ToSet(t[j]) : indexFor(n, e.key) = j
    BY <1>1, GoodIs
  <1>4. \A a : a \in Addresses(t) <=> \E j \in 0 .. n - 1 : a \in AddressesOf(t[j])
    BY <1>1, AddressesAre
  <1>5. \A a : a \in Addresses(u) <=> \E j \in 0 .. n - 1 : a \in AddressesOf(u[j])
    BY <1>2, AddressesAre
  <1>6. \A j \in 0 .. n - 1 : j # i => AddressesOf(c) \cap AddressesOf(t[j]) = {}
    BY <1>3, <1>4
  <1>7. Good(u, n)
    <2>1. \A j \in 0 .. n - 1 : Apart(u[j])
      BY <1>2, <1>3
    <2>2. \A j, k \in 0 .. n - 1 : j # k => AddressesOf(u[j]) \cap AddressesOf(u[k]) = {}
      BY <1>2, <1>3, <1>6
    <2>3. \A j \in 0 .. n - 1 : \A e \in ToSet(u[j]) : indexFor(n, e.key) = j
      BY <1>2, <1>3
    <2> QED
      BY <1>2, <2>1, <2>2, <2>3, GoodIs
  <1>8. \A a : a \in Addresses(u) <=>
                  a \in AddressesOf(c) \/ (a \in Addresses(t) /\ a \notin AddressesOf(t[i]))
    BY <1>2, <1>3, <1>4, <1>5
  <1>9. Addresses(u) = AddressesOf(c) \cup (Addresses(t) \ AddressesOf(t[i]))
    BY <1>8
  <1> QED
    BY <1>7, <1>9

(* The chain of a key. *)
LEMMA IndexIs ==
    ASSUME NEW n \in Nat \ {0}, NEW key \in Keys
    PROVE  indexFor(n, key) \in 0 .. n - 1
  <1>1. key \in Nat /\ HashMod \in Nat \ {0}
    BY KeysAssumption
  <1>2. key % HashMod \in Nat
    BY <1>1
  <1> QED
    BY <1>2 DEF indexFor, do_hash

LEMMA KeyElsewhere ==
    ASSUME NEW n \in Nat \ {0}, NEW t, Good(t, n), NEW key \in Keys, NEW i \in 0 .. n - 1,
           i # indexFor(n, key)
    PROVE  Only(t[i], {key}) = <<>>
  <1>1. t \in Chains(n)
    BY DEF Good
  <1>2. \A e \in ToSet(t[i]) : indexFor(n, e.key) = i
    BY <1>1, GoodIs
  <1>3. t[i] \in Seq(Entry)
    BY <1>1 DEF Chains
  <1>4. \A e \in ToSet(t[i]) : e.key \notin {key}
    BY <1>2
  <1> QED
    BY <1>3, <1>4, OnlyNone

----------------------------------------------------------------------------
(* Growth. *)

(* g has gone through the first n chains *)
RelinkedTill(t, keys, g, n) ==
    /\ g \in [0 .. n -> Seq(Entry)] /\ g[0] = <<>>
    /\ \A m \in 1 .. n : g[m] = Relinked(t[m - 1], keys) \o g[m - 1]

LEMMA RelinkedHolds ==
    ASSUME NEW keys, NEW s \in Seq(Entry)
    PROVE  /\ Relinked(s, keys) \in Seq(Entry)
           /\ ToSet(Relinked(s, keys)) = {e \in ToSet(s) : e.key \in keys}
           /\ AddressesOf(Relinked(s, keys)) \subseteq AddressesOf(s)
           /\ Apart(s) => Apart(Relinked(s, keys))
           /\ \A k \in keys : Only(Relinked(s, keys), {k}) = Reverse(Only(s, {k}))
  <1> DEFINE o == Only(s, keys)
  <1>1. o \in Seq(Entry) /\ ToSet(o) = {e \in ToSet(s) : e.key \in keys} /\ (Apart(s) => Apart(o))
    BY OnlyHolds
  <1>2. Relinked(s, keys) = Reverse(o)
    BY DEF Relinked
  <1>3. ASSUME NEW k \in keys PROVE Only(o, {k}) = Only(s, {k})
    <2>1. keys \cap {k} = {k}
      OBVIOUS
    <2>2. Only(Only(s, keys), {k}) = Only(s, keys \cap {k})
      BY OnlyOnly
    <2> QED
      BY <2>1, <2>2
  <1> HIDE DEF o
  <1>4. /\ Reverse(o) \in Seq(Entry) /\ ToSet(Reverse(o)) = ToSet(o)
        /\ Apart(o) => Apart(Reverse(o))
    BY <1>1, ReverseHolds
  <1>5. AddressesOf(Reverse(o)) \subseteq AddressesOf(s)
    BY <1>1, <1>4 DEF AddressesOf
  <1>6. \A k \in keys : Only(Reverse(o), {k}) = Reverse(Only(s, {k}))
    BY <1>1, <1>3, OnlyReverse
  <1> QED
    BY <1>1, <1>2, <1>4, <1>5, <1>6

LEMMA RelinkedTillExists ==
    ASSUME NEW size \in Nat, NEW t \in Chains(size), NEW keys
    PROVE  \E g : RelinkedTill(t, keys, g, size)
  <1> DEFINE P == {n \in Nat : n <= size => \E g : RelinkedTill(t, keys, g, n)}
  <1>1. 0 \in P
    <2>1. RelinkedTill(t, keys, [m \in 0 .. 0 |-> <<>>], 0)
      BY DEF RelinkedTill
    <2> QED
      BY <2>1
  <1>2. ASSUME NEW n \in P PROVE n + 1 \in P
    <2> SUFFICES ASSUME n + 1 <= size PROVE \E g : RelinkedTill(t, keys, g, n + 1)
      OBVIOUS
    <2>1. PICK g : RelinkedTill(t, keys, g, n)
      <3>1. n <= size
        OBVIOUS
      <3> QED
        BY <3>1
    <2> DEFINE new == Relinked(t[n], keys) \o g[n]
               h == [m \in 0 .. n + 1 |-> IF m <= n THEN g[m] ELSE new]
    <2>2. new \in Seq(Entry)
      <3>1. t[n] \in Seq(Entry) /\ g[n] \in Seq(Entry)
        BY <2>1 DEF RelinkedTill, Chains
      <3> QED
        BY <3>1, RelinkedHolds
    <2> HIDE DEF new
    <2>3. h \in [0 .. n + 1 -> Seq(Entry)] /\ h[0] = <<>>
      BY <2>1, <2>2 DEF RelinkedTill
    <2>4. ASSUME NEW m \in 1 .. n + 1 PROVE h[m] = Relinked(t[m - 1], keys) \o h[m - 1]
      <3>1. CASE m = n + 1
        <4>1. h[m] = new /\ h[m - 1] = g[n] /\ m - 1 = n
          BY <3>1
        <4> QED
          BY <4>1 DEF new
      <3>2. CASE m # n + 1
        <4>1. m \in 1 .. n /\ h[m] = g[m] /\ h[m - 1] = g[m - 1]
          BY <3>2
        <4> QED
          BY <2>1, <4>1 DEF RelinkedTill
      <3> QED
        BY <3>1, <3>2
    <2> HIDE DEF h
    <2>5. RelinkedTill(t, keys, h, n + 1)
      BY <2>3, <2>4 DEF RelinkedTill
    <2> QED
      BY <2>5
  <1>3. P = Nat
    <2>1. P \in SUBSET Nat
      OBVIOUS
    <2> HIDE DEF P
    <2> QED
      BY <1>1, <1>2, <2>1, SetInduction
  <1> QED
    BY <1>3

(* NewChain is what such a function has at the end. *)
LEMMA NewChainIs ==
    ASSUME NEW size \in Nat, NEW h, Length(h) = size, NEW keys, NEW g,
           RelinkedTill(h.table, keys, g, size)
    PROVE  NewChain(h, keys) = g[size]
  <1> DEFINE F(f, n) == IF n = 0 THEN <<>> ELSE Relinked(h.table[n - 1], keys) \o f[n - 1]
             f == CHOOSE f : f = [n \in 0 .. Length(h) |-> F(f, n)]
  <1>1. g = [n \in 0 .. size |-> F(g, n)]
    <2>1. g \in [0 .. size -> Seq(Entry)] /\ g[0] = <<>>
      BY DEF RelinkedTill
    <2>2. ASSUME NEW n \in 0 .. size PROVE g[n] = F(g, n)
      <3>1. CASE n = 0
        BY <2>1, <3>1
      <3>2. CASE n # 0
        <4>1. n \in 1 .. size
          BY <3>2
        <4> QED
          BY <3>2, <4>1 DEF RelinkedTill
      <3> QED
        BY <3>1, <3>2
    <2> HIDE DEF F
    <2> QED
      BY <2>1, <2>2
  <1>2. f = [n \in 0 .. Length(h) |-> F(f, n)]
    BY <1>1, Zenon
  <1>3. NewChain(h, keys) = f[size]
    BY Zenon DEF NewChain
  <1> HIDE DEF f
  <1>4. \A n \in 0 .. size : f[n] = F(f, n)
    <2> HIDE DEF F
    <2> QED
      BY <1>2, Zenon
  <1>5. f[0] = <<>>
    BY <1>4
  <1>6. ASSUME NEW n \in 1 .. size PROVE f[n] = Relinked(h.table[n - 1], keys) \o f[n - 1]
    <2>1. n \in 0 .. size /\ n # 0
      OBVIOUS
    <2> QED
      BY <1>4, <2>1
  <1>7. \A n \in 0 .. size : f[n] = g[n]
    <2> DEFINE P == {m \in Nat : m <= size => f[m] = g[m]}
    <2>1. 0 \in P
      BY <1>5 DEF RelinkedTill
    <2>2. ASSUME NEW m \in P PROVE m + 1 \in P
      <3> SUFFICES ASSUME m + 1 <= size PROVE f[m + 1] = g[m + 1]
        OBVIOUS
      <3>1. m + 1 \in 1 .. size /\ (m + 1) - 1 = m /\ f[m] = g[m]
        OBVIOUS
      <3>2. g[m + 1] = Relinked(h.table[(m + 1) - 1], keys) \o g[(m + 1) - 1]
        BY <3>1 DEF RelinkedTill
      <3>3. f[m + 1] = Relinked(h.table[(m + 1) - 1], keys) \o f[(m + 1) - 1]
        BY <1>6, <3>1
      <3> QED
        BY <3>1, <3>2, <3>3
    <2>3. P = Nat
      <3>1. P \in SUBSET Nat
        OBVIOUS
      <3> HIDE DEF P
      <3> QED
        BY <2>1, <2>2, <3>1, SetInduction
    <2> QED
      BY <2>3
  <1> QED
    BY <1>3, <1>7

(* What is in a new chain when the first m old ones have been gone through. *)
Gathered(t, n, keys, c, m) ==
    /\ c \in Seq(Entry) /\ Apart(c)
    /\ \A e : e \in ToSet(c) <=> \E j \in 0 .. m - 1 : e \in ToSet(t[j]) /\ e.key \in keys
    /\ \A k \in keys \cap Keys :
          Only(c, {k}) = IF indexFor(n, k) < m THEN Reverse(Only(t[indexFor(n, k)], {k})) ELSE <<>>

LEMMA GatheredStep ==
    ASSUME NEW n \in Nat \ {0}, NEW t, Good(t, n), NEW keys, NEW c, NEW m \in 0 .. n - 1,
           Gathered(t, n, keys, c, m)
    PROVE  Gathered(t, n, keys, Relinked(t[m], keys) \o c, m + 1)
  <1> DEFINE r == Relinked(t[m], keys)
             d == r \o c
  <1>1. t \in Chains(n) /\ t[m] \in Seq(Entry)
    BY DEF Good, Chains
  <1>2. /\ \A i \in 0 .. n - 1 : Apart(t[i])
        /\ \A i, j \in 0 .. n - 1 : i # j => AddressesOf(t[i]) \cap AddressesOf(t[j]) = {}
    BY <1>1, GoodIs
  <1>3. /\ r \in Seq(Entry) /\ ToSet(r) = {e \in ToSet(t[m]) : e.key \in keys}
        /\ AddressesOf(r) \subseteq AddressesOf(t[m]) /\ Apart(r)
        /\ \A k \in keys : Only(r, {k}) = Reverse(Only(t[m], {k}))
    BY <1>1, <1>2, RelinkedHolds
  <1> HIDE DEF r
  <1>4. c \in Seq(Entry) /\ Apart(c)
    BY DEF Gathered
  <1>5. AddressesOf(r) \cap AddressesOf(c) = {}
    <2> SUFFICES ASSUME NEW a \in AddressesOf(r), a \in AddressesOf(c) PROVE FALSE
      OBVIOUS
    <2>1. PICK e \in ToSet(c) : a = e.entry
      BY DEF AddressesOf
    <2>2. PICK j \in 0 .. m - 1 : e \in ToSet(t[j])
      BY <2>1 DEF Gathered
    <2>3. a \in AddressesOf(t[j]) /\ a \in AddressesOf(t[m])
      BY <1>3, <2>1, <2>2 DEF AddressesOf
    <2>4. j \in 0 .. n - 1 /\ j # m
      OBVIOUS
    <2> QED
      BY <1>2, <2>3, <2>4
  <1>6. d \in Seq(Entry) /\ Apart(d) /\ ToSet(d) = ToSet(r) \cup ToSet(c)
    BY <1>3, <1>4, <1>5, ConcatHolds
  <1>7. ASSUME NEW e
        PROVE  e \in ToSet(d) <=> \E j \in 0 .. (m + 1) - 1 : e \in ToSet(t[j]) /\ e.key \in keys
    <2>1. e \in ToSet(c) <=> \E j \in 0 .. m - 1 : e \in ToSet(t[j]) /\ e.key \in keys
      BY DEF Gathered
    <2>2. \A j : j \in 0 .. (m + 1) - 1 <=> j \in 0 .. m - 1 \/ j = m
      OBVIOUS
    <2> HIDE DEF d
    <2> QED
      BY <1>3, <1>6, <2>1, <2>2
  <1>8. ASSUME NEW k \in keys \cap Keys
        PROVE  Only(d, {k}) = IF indexFor(n, k) < m + 1
                              THEN Reverse(Only(t[indexFor(n, k)], {k})) ELSE <<>>
    <2> DEFINE i == indexFor(n, k)
    <2>1. i \in 0 .. n - 1
      BY IndexIs
    <2>2. Only(d, {k}) = Only(r, {k}) \o Only(c, {k})
      BY <1>3, <1>4, OnlyConcat
    <2>3. Only(r, {k}) = Reverse(Only(t[m], {k}))
      BY <1>3
    <2>4. Only(c, {k}) = IF i < m THEN Reverse(Only(t[i], {k})) ELSE <<>>
      BY DEF Gathered
    <2>5. i # m => Only(t[m], {k}) = <<>>
      BY KeyElsewhere
    <2>6. t[i] \in Seq(Entry)
      BY <1>1, <2>1 DEF Chains
    <2> HIDE DEF i, d
    <2>7. Reverse(Only(t[i], {k})) \in Seq(Entry)
      BY <2>6, OnlyHolds, ReverseHolds
    <2>8. Only(d, {k}) = IF i < m + 1 THEN Reverse(Only(t[i], {k})) ELSE <<>>
      <3>1. CASE i = m
        <4>1. Only(c, {k}) = <<>> /\ i < m + 1
          BY <2>1, <2>4, <3>1
        <4>2. Reverse(Only(t[i], {k})) \o <<>> = Reverse(Only(t[i], {k}))
          BY <2>7, ConcatEmptySeq
        <4> QED
          BY <2>2, <2>3, <3>1, <4>1, <4>2
      <3>2. CASE i < m
        <4>1. Only(r, {k}) = <<>> /\ i < m + 1
          BY <2>1, <2>3, <2>5, <3>2, ReverseEmpty
        <4>2. <<>> \o Reverse(Only(t[i], {k})) = Reverse(Only(t[i], {k}))
          BY <2>7, ConcatEmptySeq
        <4> QED
          BY <2>2, <2>4, <3>2, <4>1, <4>2
      <3>3. CASE i > m
        <4>1. Only(r, {k}) = <<>> /\ ~(i < m + 1) /\ ~(i < m)
          BY <2>1, <2>3, <2>5, <3>3, ReverseEmpty
        <4>2. <<>> \o <<>> = <<>>
          OBVIOUS
        <4> QED
          BY <2>2, <2>4, <4>1, <4>2
      <3> QED
        BY <2>1, <3>1, <3>2, <3>3
    <2> QED
      BY <2>8 DEF i
  <1> HIDE DEF d
  <1>9. Gathered(t, n, keys, d, m + 1)
    BY <1>6, <1>7, <1>8 DEF Gathered
  <1> QED
    BY <1>9 DEF d, r

LEMMA NewChainHolds ==
    ASSUME NEW n \in Nat \ {0}, NEW h, Length(h) = n, Good(h.table, n), NEW keys
    PROVE  Gathered(h.table, n, keys, NewChain(h, keys), n)
  <1> DEFINE t == h.table
  <1>1. t \in Chains(n)
    BY DEF Good
  <1>2. PICK g : RelinkedTill(t, keys, g, n)
    BY <1>1, RelinkedTillExists
  <1>3. NewChain(h, keys) = g[n]
    BY <1>2, NewChainIs
  <1> DEFINE P == {m \in Nat : m <= n => Gathered(t, n, keys, g[m], m)}
  <1>4. 0 \in P
    <2>1. g[0] = <<>>
      BY <1>2 DEF RelinkedTill
    <2>2. <<>> \in Seq(Entry) /\ Apart(<<>>) /\ ToSet(<<>>) = {}
      BY DEF Apart, ToSet
    <2>3. \A k \in keys \cap Keys : Only(<<>>, {k}) = <<>> /\ ~(indexFor(n, k) < 0)
      BY OnlyRecursion, IndexIs
    <2>4. 0 .. 0 - 1 = {}
      OBVIOUS
    <2>5. Gathered(t, n, keys, <<>>, 0)
      BY <2>2, <2>3, <2>4 DEF Gathered
    <2> QED
      BY <2>1, <2>5
  <1>5. ASSUME NEW m \in P PROVE m + 1 \in P
    <2> SUFFICES ASSUME m + 1 <= n PROVE Gathered(t, n, keys, g[m + 1], m + 1)
      OBVIOUS
    <2>1. m \in 0 .. n - 1 /\ Gathered(t, n, keys, g[m], m) /\ (m + 1) - 1 = m /\ m + 1 \in 1 .. n
      OBVIOUS
    <2>2. g[m + 1] = Relinked(t[(m + 1) - 1], keys) \o g[(m + 1) - 1]
      BY <1>2, <2>1 DEF RelinkedTill
    <2>3. g[m + 1] = Relinked(t[m], keys) \o g[m]
      BY <2>1, <2>2
    <2> HIDE DEF t
    <2>4. Good(t, n)
      BY DEF t
    <2> QED
      BY <2>1, <2>3, <2>4, GatheredStep
  <1>6. P = Nat
    <2>1. P \in SUBSET Nat
      OBVIOUS
    <2> HIDE DEF P
    <2> QED
      BY <1>4, <1>5, <2>1, SetInduction
  <1>7. Gathered(t, n, keys, g[n], n)
    BY <1>6
  <1> QED
    BY <1>3, <1>7

(* The table after it has grown: the same entries, each in its new chain,   *)
(* those of one key in the opposite order.                                  *)
LEMMA RehashedHolds ==
    ASSUME NEW n \in Nat \ {0}, NEW h, Length(h) = n, Good(h.table, n), NEW size \in Nat \ {0}
    PROVE  /\ Good(Rehashed(h, size), size)
           /\ Addresses(Rehashed(h, size)) = Addresses(h.table)
           /\ \A k \in Keys : Only(Rehashed(h, size)[indexFor(size, k)], {k}) =
                                 Reverse(Only(h.table[indexFor(n, k)], {k}))
  <1> DEFINE t == h.table
             keys(i) == {k \in Keys : indexFor(size, k) = i}
             r == Rehashed(h, size)
  <1>1. /\ t \in Chains(n) /\ \A i \in 0 .. n - 1 : t[i] \in Seq(Entry)
    BY DEF Good, Chains
  <1>2. r = [i \in 0 .. size - 1 |-> NewChain(h, keys(i))]
    BY DEF Rehashed
  <1>3. \A i \in 0 .. size - 1 : r[i] = NewChain(h, keys(i))
    BY <1>2
  <1>4. ASSUME NEW i \in 0 .. size - 1 PROVE Gathered(t, n, keys(i), r[i], n)
    <2> DEFINE K == keys(i)
    <2>1. r[i] = NewChain(h, K)
      BY <1>3
    <2> HIDE DEF K
    <2>2. Gathered(t, n, K, NewChain(h, K), n)
      BY NewChainHolds
    <2> QED
      BY <2>1, <2>2 DEF K
  <1>5. r \in Chains(size)
    <2>1. \A i \in 0 .. size - 1 : NewChain(h, keys(i)) \in Seq(Entry)
      BY <1>3, <1>4 DEF Gathered
    <2> QED
      BY <1>2, <2>1 DEF Chains
  <1>6. \A i \in 0 .. n - 1 : \A e \in ToSet(t[i]) : e \in Entry /\ e.key \in Keys
    <2> SUFFICES ASSUME NEW i \in 0 .. n - 1, NEW e \in ToSet(t[i]) PROVE e \in Entry /\ e.key \in Keys
      OBVIOUS
    <2>1. e \in Entry
      BY <1>1 DEF ToSet
    <2> QED
      BY <2>1 DEF Entry
  <1> HIDE DEF r, t
  <1>7. \A i \in 0 .. size - 1 : \A e : e \in ToSet(r[i]) <=>
           \E j \in 0 .. n - 1 : e \in ToSet(t[j]) /\ e.key \in Keys /\ indexFor(size, e.key) = i
    BY <1>4 DEF Gathered
  <1>8. Good(t, n)
    BY DEF t
  <1>9. \A j, l \in 0 .. n - 1 : \A e \in ToSet(t[j]), f \in ToSet(t[l]) : e.entry = f.entry => e = f
    <2> SUFFICES ASSUME NEW j \in 0 .. n - 1, NEW l \in 0 .. n - 1, NEW e \in ToSet(t[j]),
                        NEW f \in ToSet(t[l]), e.entry = f.entry
                 PROVE  e = f
      OBVIOUS
    <2>1. PICK p \in DOMAIN t[j] : e = t[j][p]
      BY DEF ToSet
    <2>2. PICK q \in DOMAIN t[l] : f = t[l][q]
      BY DEF ToSet
    <2>3. j \in DOMAIN t /\ l \in DOMAIN t
      BY <1>1 DEF Chains
    <2>4. j = l /\ p = q
      BY <1>8, <2>1, <2>2, <2>3 DEF Good, LinkedOnce
    <2> QED
      BY <2>1, <2>2, <2>4
  <1>10. \A i \in 0 .. size - 1 : Apart(r[i])
    BY <1>4 DEF Gathered
  <1>11. ASSUME NEW i \in 0 .. size - 1, NEW j \in 0 .. size - 1, i # j
         PROVE  AddressesOf(r[i]) \cap AddressesOf(r[j]) = {}
    <2> SUFFICES ASSUME NEW a \in AddressesOf(r[i]), a \in AddressesOf(r[j]) PROVE FALSE
      OBVIOUS
    <2>1. PICK e \in ToSet(r[i]) : a = e.entry
      BY DEF AddressesOf
    <2>2. PICK f \in ToSet(r[j]) : a = f.entry
      BY DEF AddressesOf
    <2>3. PICK p \in 0 .. n - 1 : e \in ToSet(t[p])
      BY <1>7, <2>1
    <2>4. PICK q \in 0 .. n - 1 : f \in ToSet(t[q])
      BY <1>7, <2>2
    <2>5. e = f
      BY <1>9, <2>1, <2>2, <2>3, <2>4
    <2> QED
      BY <1>7, <1>11, <2>1, <2>2, <2>5
  <1>12. \A i \in 0 .. size - 1 : \A e \in ToSet(r[i]) : indexFor(size, e.key) = i
    BY <1>7
  <1>13. Good(r, size)
    BY <1>5, <1>10, <1>11, <1>12, GoodIs
  <1>14. Addresses(r) = Addresses(t)
    <2>1. \A a : a \in Addresses(t) <=> \E j \in 0 .. n - 1 : \E e \in ToSet(t[j]) : a = e.entry
      <3>1. \A a : a \in Addresses(t) <=> \E j \in 0 .. n - 1 : a \in AddressesOf(t[j])
        BY <1>1, AddressesAre
      <3> QED
        BY <3>1 DEF AddressesOf
    <2>2. \A a : a \in Addresses(r) <=> \E i \in 0 .. size - 1 : \E e \in ToSet(r[i]) : a = e.entry
      <3>1. \A a : a \in Addresses(r) <=> \E j \in 0 .. size - 1 : a \in AddressesOf(r[j])
        BY <1>5, AddressesAre
      <3> QED
        BY <3>1 DEF AddressesOf
    <2>3. ASSUME NEW a \in Addresses(r) PROVE a \in Addresses(t)
      BY <1>7, <2>1, <2>2
    <2>4. ASSUME NEW a \in Addresses(t) PROVE a \in Addresses(r)
      <3>0. PICK j \in 0 .. n - 1 : \E e \in ToSet(t[j]) : a = e.entry
        BY <2>1
      <3>1. PICK e \in ToSet(t[j]) : a = e.entry
        BY <3>0
      <3>2. e.key \in Keys /\ indexFor(size, e.key) \in 0 .. size - 1
        BY <1>6, IndexIs
      <3>3. e \in ToSet(r[indexFor(size, e.key)])
        BY <1>7, <3>1, <3>2
      <3> QED
        BY <2>2, <3>1, <3>2, <3>3
    <2> QED
      BY <2>3, <2>4
  <1>15. ASSUME NEW k \in Keys
         PROVE  Only(r[indexFor(size, k)], {k}) = Reverse(Only(t[indexFor(n, k)], {k}))
    <2> DEFINE i == indexFor(size, k)
    <2>1. i \in 0 .. size - 1 /\ indexFor(n, k) \in 0 .. n - 1
      BY IndexIs
    <2>2. k \in keys(i) \cap Keys /\ indexFor(n, k) < n
      BY <2>1
    <2>3. Gathered(t, n, keys(i), r[i], n)
      BY <1>4, <2>1
    <2> HIDE DEF i
    <2>4. Only(r[i], {k}) = Reverse(Only(t[indexFor(n, k)], {k}))
      BY <2>2, <2>3 DEF Gathered
    <2> QED
      BY <2>4 DEF i
  <1> QED
    BY <1>13, <1>14, <1>15 DEF r, t

----------------------------------------------------------------------------
(* Steps of the table. *)

SizeOf(h) == primes[h.prime_index]

(* a table that is what its fields say *)
Sound(h) ==
    /\ h.prime_index \in DOMAIN primes
    /\ h \in [table : Chains(SizeOf(h)), prime_index : DOMAIN primes,
              entry_count : Nat, load_limit : Nat]
    /\ Good(h.table, SizeOf(h))
    /\ h.load_limit = load_factors[h.prime_index]
    /\ IsFiniteSet(Addresses(h.table))
    /\ h.entry_count = Cardinality(Addresses(h.table))

(* g is h with another chain at i, and with count entries *)
Changed(h, g, i, c, count) ==
    /\ g \in [table : Chains(SizeOf(h)), prime_index : DOMAIN primes,
              entry_count : Nat, load_limit : Nat]
    /\ g.prime_index = h.prime_index /\ g.load_limit = h.load_limit /\ g.entry_count = count
    /\ Replaced(h.table, g.table, i, c, SizeOf(h))

LEMMA PrimesAre ==
    /\ DOMAIN primes = 1 .. Len(primes) /\ Len(primes) \in Nat
    /\ \A p \in DOMAIN primes : primes[p] \in Nat \ {0} /\ load_factors[p] \in Nat
  <1>1. /\ primes \in Seq(Nat \ {0}) /\ load_factors \in Seq(Nat)
        /\ Len(primes) = Len(load_factors)
    BY SizesAssumption
  <1> QED
    BY <1>1

LEMMA LengthIs ==
    ASSUME NEW n \in Nat \ {0}, NEW h, h.table \in Chains(n)
    PROVE  Length(h) = n
  <1>1. DOMAIN h.table = 0 .. n - 1
    BY DEF Chains
  <1>2. Cardinality(0 .. n - 1) = n
    <2>1. Cardinality(0 .. n - 1) = IF 0 > n - 1 THEN 0 ELSE (n - 1) - 0 + 1
      BY FS_Interval
    <2> QED
      BY <2>1
  <1> QED
    BY <1>1, <1>2 DEF Length

LEMMA SoundFacts ==
    ASSUME NEW h, Sound(h)
    PROVE  /\ SizeOf(h) \in Nat \ {0} /\ Length(h) = SizeOf(h) /\ h.table \in Chains(SizeOf(h))
           /\ DOMAIN h.table = 0 .. SizeOf(h) - 1
           /\ \A i \in 0 .. SizeOf(h) - 1 : h.table[i] \in Seq(Entry) /\ Apart(h.table[i])
           /\ \A i \in 0 .. SizeOf(h) - 1 : \A e \in ToSet(h.table[i]) : indexFor(SizeOf(h), e.key) = i
           /\ \A i \in 0 .. SizeOf(h) - 1 : AddressesOf(h.table[i]) \subseteq Addresses(h.table)
  <1>1. SizeOf(h) \in Nat \ {0} /\ h.table \in Chains(SizeOf(h)) /\ Good(h.table, SizeOf(h))
    BY PrimesAre DEF Sound, SizeOf
  <1>2. Length(h) = SizeOf(h)
    BY <1>1, LengthIs
  <1>3. /\ DOMAIN h.table = 0 .. SizeOf(h) - 1
        /\ \A i \in 0 .. SizeOf(h) - 1 : h.table[i] \in Seq(Entry)
    BY <1>1 DEF Chains
  <1> DEFINE n == SizeOf(h)
             t == h.table
  <1> HIDE DEF n, t
  <1>4. n \in Nat /\ t \in Chains(n) /\ Good(t, n)
    BY <1>1 DEF n, t
  <1>5. /\ \A i \in 0 .. n - 1 : Apart(t[i])
        /\ \A i \in 0 .. n - 1 : \A e \in ToSet(t[i]) : indexFor(n, e.key) = i
    BY <1>4, GoodIs
  <1>6. \A i \in 0 .. n - 1 : AddressesOf(t[i]) \subseteq Addresses(t)
    BY <1>4, AddressesAre
  <1> QED
    BY <1>1, <1>2, <1>3, <1>5, <1>6 DEF n, t

(* A chain is replaced, and entry_count with it.                            *)
LEMMA ChangedSound ==
    ASSUME NEW h, Sound(h), NEW i \in 0 .. SizeOf(h) - 1, NEW c \in Seq(Entry), Apart(c),
           \A e \in ToSet(c) : indexFor(SizeOf(h), e.key) = i,
           \A a \in AddressesOf(c) : a \in AddressesOf(h.table[i]) \/ a \notin Addresses(h.table),
           NEW A, A = AddressesOf(c) \cup (Addresses(h.table) \ AddressesOf(h.table[i])),
           IsFiniteSet(A), NEW g, Changed(h, g, i, c, Cardinality(A))
    PROVE  Sound(g) /\ SizeOf(g) = SizeOf(h) /\ Addresses(g.table) = A
  <1> DEFINE n == SizeOf(h)
             t == h.table
             u == g.table
  <1>1. n \in Nat /\ n \in Nat \ {0} /\ Good(t, n) /\ h.prime_index \in DOMAIN primes
        /\ h.load_limit = load_factors[h.prime_index]
    BY SoundFacts DEF Sound
  <1>2. /\ g \in [table : Chains(n), prime_index : DOMAIN primes, entry_count : Nat, load_limit : Nat]
        /\ g.prime_index = h.prime_index /\ g.load_limit = h.load_limit
        /\ g.entry_count = Cardinality(A) /\ Replaced(t, u, i, c, n)
    BY DEF Changed
  <1>3. Good(u, n) /\ Addresses(u) = A
    <2>1. \A a \in AddressesOf(c) : a \in AddressesOf(t[i]) \/ a \notin Addresses(t)
      OBVIOUS
    <2>2. A = AddressesOf(c) \cup (Addresses(t) \ AddressesOf(t[i]))
      OBVIOUS
    <2>3. i \in 0 .. n - 1 /\ \A e \in ToSet(c) : indexFor(n, e.key) = i
      OBVIOUS
    <2> HIDE DEF t, n, u
    <2> QED
      BY <1>1, <1>2, <2>1, <2>2, <2>3, ChainReplaced
  <1>4. SizeOf(g) = n
    BY <1>2 DEF SizeOf
  <1>5. Sound(g)
    BY <1>1, <1>2, <1>3, <1>4 DEF Sound
  <1> QED
    BY <1>3, <1>4, <1>5

(* the same as the program writes it                                        *)
LEMMA ExceptIsChanged ==
    ASSUME NEW h, Sound(h), NEW i \in 0 .. SizeOf(h) - 1, NEW c \in Seq(Entry), NEW m \in Nat,
           NEW u, u = [h.table EXCEPT ![i] = c],
           NEW g, g = [h EXCEPT !.table = u, !.entry_count = m]
    PROVE  Changed(h, g, i, c, m)
  <1>1. h.table \in Chains(SizeOf(h)) /\ DOMAIN h.table = 0 .. SizeOf(h) - 1
    BY SoundFacts
  <1>2. u \in Chains(SizeOf(h))
    BY <1>1 DEF Chains
  <1>3. h \in [table : Chains(SizeOf(h)), prime_index : DOMAIN primes,
               entry_count : Nat, load_limit : Nat]
    BY DEF Sound
  <1>4. /\ g \in [table : Chains(SizeOf(h)), prime_index : DOMAIN primes,
                  entry_count : Nat, load_limit : Nat]
        /\ g.prime_index = h.prime_index /\ g.load_limit = h.load_limit /\ g.entry_count = m
        /\ g.table = u
    <2>1. \A w \in Chains(SizeOf(h)) : \A x : x = [h EXCEPT !.table = w, !.entry_count = m] =>
             /\ x \in [table : Chains(SizeOf(h)), prime_index : DOMAIN primes,
                       entry_count : Nat, load_limit : Nat]
             /\ x.prime_index = h.prime_index /\ x.load_limit = h.load_limit
             /\ x.entry_count = m /\ x.table = w
      BY <1>3
    <2> QED
      BY <1>2, <2>1, Zenon
  <1>5. Replaced(h.table, g.table, i, c, SizeOf(h))
    BY <1>1, <1>2, <1>4 DEF Replaced
  <1> QED
    BY <1>4, <1>5 DEF Changed

(* An entry is linked into its chain.                                       *)
LEMMA LinkedSound ==
    ASSUME NEW h, Sound(h), NEW e \in Entry, e.entry \notin Addresses(h.table),
           NEW i, i = indexFor(SizeOf(h), e.key)
    PROVE  /\ i \in 0 .. SizeOf(h) - 1
           /\ Sound(Linked(h, e)) /\ SizeOf(Linked(h, e)) = SizeOf(h)
           /\ Replaced(h.table, Linked(h, e).table, i, Cons(e, h.table[i]), SizeOf(h))
           /\ Addresses(Linked(h, e).table) = Addresses(h.table) \cup {e.entry}
  <1> DEFINE n == SizeOf(h)
             t == h.table
             c == Cons(e, t[i])
             B == Addresses(t)
             A == AddressesOf(c) \cup (B \ AddressesOf(t[i]))
             g == Linked(h, e)
  <1>1. /\ n \in Nat \ {0} /\ Length(h) = n /\ t \in Chains(n) /\ DOMAIN t = 0 .. n - 1
        /\ \A j \in 0 .. n - 1 : t[j] \in Seq(Entry) /\ Apart(t[j])
        /\ \A j \in 0 .. n - 1 : \A x \in ToSet(t[j]) : indexFor(n, x.key) = j
        /\ \A j \in 0 .. n - 1 : AddressesOf(t[j]) \subseteq B
    BY SoundFacts
  <1>2. h \in [table : Chains(n), prime_index : DOMAIN primes, entry_count : Nat, load_limit : Nat]
        /\ IsFiniteSet(B) /\ h.entry_count = Cardinality(B)
    BY DEF Sound
  <1>3. e.key \in Keys /\ e.entry \in Entries
    BY DEF Entry
  <1>4. i \in 0 .. n - 1
    <2> HIDE DEF n
    <2> QED
      BY <1>1, <1>3, IndexIs DEF n
  <1>5. /\ c \in Seq(Entry) /\ ToSet(c) = {e} \cup ToSet(t[i])
        /\ AddressesOf(c) = {e.entry} \cup AddressesOf(t[i]) /\ Apart(c)
    <2>1. t[i] \in Seq(Entry) /\ Apart(t[i]) /\ e.entry \notin AddressesOf(t[i])
      BY <1>1, <1>4
    <2> QED
      BY <2>1, ConsHolds
  <1>6. A = B \cup {e.entry} /\ AddressesOf(t[i]) \subseteq B /\ e.entry \notin B
    BY <1>1, <1>4, <1>5
  <1>7. IsFiniteSet(A) /\ Cardinality(A) = h.entry_count + 1
    <2> HIDE DEF A, B
    <2> QED
      BY <1>2, <1>6, FS_AddElement
  <1>8. Changed(h, g, i, c, Cardinality(A))
    <2>1. g = [h EXCEPT !.entry_count = @ + 1, !.table[i] = <<e>> \o @]
      BY <1>1 DEF Linked
    <2>2. c = <<e>> \o t[i]
      BY DEF Cons
    <2> HIDE DEF A
    <2>3. g = [h EXCEPT !.table = [t EXCEPT ![i] = c], !.entry_count = h.entry_count + 1]
      <3> HIDE DEF c, n, g
      <3> QED
        BY <1>2, <2>1, <2>2
    <2>4. h.entry_count + 1 \in Nat
      BY <1>2
    <2> HIDE DEF c, g
    <2>5. Changed(h, g, i, c, h.entry_count + 1)
      BY <1>4, <1>5, <2>3, <2>4, ExceptIsChanged
    <2> QED
      BY <1>7, <2>5
  <1>9. \A x \in ToSet(c) : indexFor(n, x.key) = i
    BY <1>1, <1>4, <1>5
  <1>10. \A a \in AddressesOf(c) : a \in AddressesOf(t[i]) \/ a \notin B
    BY <1>5, <1>6
  <1> HIDE DEF c, g
  <1>11. Sound(g) /\ SizeOf(g) = n /\ Addresses(g.table) = A
    BY <1>4, <1>5, <1>7, <1>8, <1>9, <1>10, ChangedSound
  <1>12. Replaced(t, g.table, i, c, n)
    BY <1>8 DEF Changed
  <1> QED
    BY <1>4, <1>6, <1>11, <1>12 DEF c, g

(* An entry's value is changed.                                             *)
Stored(h, i, p, v) == [h EXCEPT !.table[i][p].value = v]

(* x is s with another value at p *)
ValueAt(s, x, p, v) ==
    /\ x \in Seq(Entry) /\ Len(x) = Len(s)
    /\ \A j \in 1 .. Len(s) : x[j] = IF j = p THEN [s[p] EXCEPT !.value = v] ELSE s[j]

LEMMA StoredSound ==
    ASSUME NEW h, Sound(h), NEW i \in 0 .. SizeOf(h) - 1, NEW p \in 1 .. Len(h.table[i]),
           NEW v \in Values, NEW g, g = Stored(h, i, p, v)
    PROVE  /\ Sound(g) /\ SizeOf(g) = SizeOf(h) /\ Addresses(g.table) = Addresses(h.table)
           /\ \E x : /\ ValueAt(h.table[i], x, p, v)
                     /\ Replaced(h.table, g.table, i, x, SizeOf(h))
  <1> DEFINE n == SizeOf(h)
             t == h.table
             s == t[i]
             f == [s[p] EXCEPT !.value = v]
             x == [s EXCEPT ![p] = f]
             u == [t EXCEPT ![i] = x]
             A == AddressesOf(x) \cup (Addresses(t) \ AddressesOf(s))
  <1>1. /\ n \in Nat \ {0} /\ t \in Chains(n) /\ DOMAIN t = 0 .. n - 1
        /\ s \in Seq(Entry) /\ Apart(s) /\ AddressesOf(s) \subseteq Addresses(t)
        /\ \A e \in ToSet(s) : indexFor(n, e.key) = i
    BY SoundFacts
  <1>2. /\ IsFiniteSet(Addresses(t)) /\ h.entry_count = Cardinality(Addresses(t))
        /\ h \in [table : Chains(n), prime_index : DOMAIN primes, entry_count : Nat, load_limit : Nat]
    BY DEF Sound
  <1>3. s[p] \in Entry /\ Len(s) \in Nat /\ DOMAIN s = 1 .. Len(s)
    BY <1>1
  <1>4. f \in Entry /\ f.entry = s[p].entry /\ f.key = s[p].key
    BY <1>3 DEF Entry
  <1> HIDE DEF f
  <1>5. /\ x \in Seq(Entry) /\ Len(x) = Len(s)
        /\ \A j \in 1 .. Len(s) : x[j] = IF j = p THEN f ELSE s[j]
    BY <1>1, <1>3, <1>4
  <1>6. g = [h EXCEPT !.table = u, !.entry_count = h.entry_count]
    <2>1. g = [h EXCEPT !.table = [t EXCEPT ![i] = [s EXCEPT ![p] = f]]]
      BY DEF f, Stored
    <2>2. g = [h EXCEPT !.table = u]
      BY <2>1
    <2> HIDE DEF u, n
    <2>3. [h EXCEPT !.table = u] = [h EXCEPT !.table = u, !.entry_count = h.entry_count]
      BY <1>2
    <2> QED
      BY <2>2, <2>3
  <1> HIDE DEF x
  <1>7. \A j \in 1 .. Len(s) : x[j].entry = s[j].entry /\ x[j].key = s[j].key
    BY <1>4, <1>5
  <1>8. AddressesOf(x) = AddressesOf(s) /\ Apart(x)
    BY <1>1, <1>5, <1>7, SameHolds
  <1>9. \A e \in ToSet(x) : indexFor(n, e.key) = i
    <2> SUFFICES ASSUME NEW j \in 1 .. Len(s) PROVE indexFor(n, x[j].key) = i
      BY <1>5 DEF ToSet
    <2>1. s[j] \in ToSet(s)
      BY <1>3 DEF ToSet
    <2> QED
      BY <1>1, <1>7, <2>1
  <1>10. A = Addresses(t)
    BY <1>1, <1>8
  <1>11. Changed(h, g, i, x, h.entry_count)
    <2>1. h.entry_count \in Nat
      BY <1>2
    <2> QED
      BY <1>5, <1>6, <2>1, ExceptIsChanged
  <1>12. IsFiniteSet(A) /\ Changed(h, g, i, x, Cardinality(A))
    BY <1>2, <1>10, <1>11
  <1>13. ASSUME NEW k, Changed(h, k, i, x, Cardinality(A))
         PROVE  Sound(k) /\ SizeOf(k) = n /\ Addresses(k.table) = A
    <2>1. \A b \in AddressesOf(x) : b \in AddressesOf(s) \/ b \notin Addresses(t)
      BY <1>8
    <2> QED
      BY <1>5, <1>8, <1>9, <1>12, <1>13, <2>1, ChangedSound
  <1>14. Replaced(t, g.table, i, x, n)
    BY <1>11 DEF Changed
  <1> QED
    <2>1. ValueAt(s, x, p, v)
      BY <1>5 DEF ValueAt, f
    <2> QED
      BY <1>10, <1>12, <1>13, <1>14, <2>1

(* An entry is unlinked.                                                    *)
Unlinked(h, i, p) == [h EXCEPT !.table[i] = Dropped(@, p), !.entry_count = @ - 1]

LEMMA DroppedSound ==
    ASSUME NEW h, Sound(h), NEW i \in 0 .. SizeOf(h) - 1, NEW p \in 1 .. Len(h.table[i]),
           NEW g, g = Unlinked(h, i, p)
    PROVE  /\ Sound(g) /\ SizeOf(g) = SizeOf(h)
           /\ Addresses(g.table) = Addresses(h.table) \ {h.table[i][p].entry}
           /\ Replaced(h.table, g.table, i, Dropped(h.table[i], p), SizeOf(h))
  <1> DEFINE n == SizeOf(h)
             t == h.table
             s == t[i]
             c == Dropped(s, p)
             a == s[p].entry
             B == Addresses(t)
             A == AddressesOf(c) \cup (B \ AddressesOf(s))
  <1>1. /\ n \in Nat \ {0} /\ t \in Chains(n) /\ DOMAIN t = 0 .. n - 1
        /\ s \in Seq(Entry) /\ Apart(s) /\ AddressesOf(s) \subseteq B
        /\ \A e \in ToSet(s) : indexFor(n, e.key) = i
    BY SoundFacts
  <1>2. /\ IsFiniteSet(B) /\ h.entry_count = Cardinality(B)
        /\ h \in [table : Chains(n), prime_index : DOMAIN primes, entry_count : Nat, load_limit : Nat]
    BY DEF Sound
  <1>3. s[p] \in Entry /\ p \in DOMAIN s
    BY <1>1
  <1>4. a \in AddressesOf(s)
    BY <1>3 DEF AddressesOf, ToSet
  <1>5. /\ c \in Seq(Entry) /\ ToSet(c) \subseteq ToSet(s) /\ Apart(c)
        /\ AddressesOf(c) = AddressesOf(s) \ {a}
    BY <1>1, DroppedIs, DroppedHolds
  <1>0. g = [h EXCEPT !.table[i] = c, !.entry_count = @ - 1]
    BY DEF Unlinked
  <1> HIDE DEF c
  <1>6. A = B \ {a} /\ a \in B
    BY <1>1, <1>4, <1>5
  <1>7. IsFiniteSet(A) /\ Cardinality(A) = h.entry_count - 1 /\ h.entry_count - 1 \in Nat
    <2> HIDE DEF A, B, a
    <2>1. IsFiniteSet(A) /\ Cardinality(A) = Cardinality(B) - 1
      BY <1>2, <1>6, FS_RemoveElement
    <2>2. Cardinality(A) \in Nat
      BY <2>1, FS_CardinalityType
    <2> QED
      BY <1>2, <2>1, <2>2
  <1> DEFINE u == [t EXCEPT ![i] = c]
             m == h.entry_count - 1
  <1>8. g = [h EXCEPT !.table = u, !.entry_count = m]
    <2> HIDE DEF n
    <2> QED
      BY <1>0, <1>2
  <1>9. Changed(h, g, i, c, m)
    <2> HIDE DEF m, u
    <2>1. m \in Nat /\ u = [h.table EXCEPT ![i] = c]
      BY <1>7 DEF m, u
    <2> QED
      BY <1>5, <1>8, <2>1, ExceptIsChanged
  <1>10. \A e \in ToSet(c) : indexFor(n, e.key) = i
    BY <1>1, <1>5
  <1>11. \A b \in AddressesOf(c) : b \in AddressesOf(s) \/ b \notin B
    BY <1>5
  <1>12. Changed(h, g, i, c, Cardinality(A))
    BY <1>7, <1>9
  <1> HIDE DEF A
  <1>13. ASSUME NEW k, Changed(h, k, i, c, Cardinality(A))
         PROVE  Sound(k) /\ SizeOf(k) = n /\ Addresses(k.table) = A
    <2>1. A = AddressesOf(c) \cup (B \ AddressesOf(s)) /\ IsFiniteSet(A)
      BY <1>7 DEF A
    <2> QED
      BY <1>5, <1>10, <1>11, <1>13, <2>1, ChangedSound
  <1>14. Replaced(t, g.table, i, c, n)
    BY <1>9 DEF Changed
  <1> QED
    BY <1>6, <1>12, <1>13, <1>14 DEF A, c

(* The table grows, or does not: the same entries, those of one key in one  *)
(* order or the other.                                                      *)
SameOrder(h, g) ==
    \A k \in Keys : Only(g.table[indexFor(SizeOf(g), k)], {k}) =
                       Only(h.table[indexFor(SizeOf(h), k)], {k})
Reversed(h, g) ==
    \A k \in Keys : Only(g.table[indexFor(SizeOf(g), k)], {k}) =
                       Reverse(Only(h.table[indexFor(SizeOf(h), k)], {k}))

LEMMA ExpandSound ==
    ASSUME NEW h, Sound(h), NEW g \in Expand(h)
    PROVE  /\ Sound(g) /\ Addresses(g.table) = Addresses(h.table)
           /\ SameOrder(h, g) \/ Reversed(h, g)
           /\ h.prime_index = Len(primes) => g = h
  <1>1. CASE g = h
    BY <1>1 DEF SameOrder
  <1>2. CASE g # h
    <2> DEFINE p == h.prime_index + 1
               size == primes[p]
               r == Rehashed(h, size)
               n == SizeOf(h)
    <2>1. /\ h.prime_index # Len(primes)
          /\ g = [h EXCEPT !.table = r, !.prime_index = p, !.load_limit = load_factors[p]]
      BY <1>2 DEF Expand, ExpandFailed
    <2>2. /\ p \in DOMAIN primes /\ size \in Nat \ {0} /\ load_factors[p] \in Nat
      BY <2>1, PrimesAre DEF Sound
    <2>3. /\ n \in Nat \ {0} /\ Length(h) = n /\ Good(h.table, n) /\ h.table \in Chains(n)
      BY SoundFacts DEF Sound
    <2> HIDE DEF n, size, p
    <2>4. /\ Good(r, size) /\ Addresses(r) = Addresses(h.table)
          /\ \A k \in Keys : Only(r[indexFor(size, k)], {k}) =
                                Reverse(Only(h.table[indexFor(n, k)], {k}))
      BY <2>2, <2>3, RehashedHolds
    <2> HIDE DEF r
    <2>5. r \in Chains(size)
      BY <2>4 DEF Good
    <2>6. /\ h \in [table : Chains(n), prime_index : DOMAIN primes, entry_count : Nat, load_limit : Nat]
          /\ IsFiniteSet(Addresses(h.table)) /\ h.entry_count = Cardinality(Addresses(h.table))
      BY DEF Sound, n
    <2>7. /\ g \in [table : Chains(size), prime_index : DOMAIN primes, entry_count : Nat, load_limit : Nat]
          /\ g.table = r /\ g.prime_index = p /\ g.load_limit = load_factors[p]
          /\ g.entry_count = h.entry_count
      BY <2>1, <2>2, <2>5, <2>6
    <2>8. SizeOf(g) = size
      BY <2>7 DEF SizeOf, size
    <2>9. Sound(g)
      BY <2>2, <2>4, <2>6, <2>7, <2>8 DEF Sound
    <2>10. Reversed(h, g)
      BY <2>4, <2>7, <2>8 DEF Reversed, n
    <2> QED
      BY <2>1, <2>4, <2>7, <2>9, <2>10
  <1> QED
    BY <1>1, <1>2

----------------------------------------------------------------------------
(* Places in chains. *)

(* The place of an entry is found by its address.                           *)
LEMMA PlaceIs ==
    ASSUME NEW s \in Seq(Entry), s = IterChain, Apart(s), NEW p \in 1 .. Len(s),
           NEW a, a = s[p].entry
    PROVE  PlaceOf(a) = p
  <1>0. Len(s) \in Nat /\ DOMAIN s = 1 .. Len(s)
    OBVIOUS
  <1> DEFINE I == {i \in 1 .. Len(s) : s[i].entry = a}
  <1>1. I = {p}
    BY <1>0 DEF Apart
  <1>2. Min({p}) = p
    BY DEF Min
  <1>3. PlaceOf(a) = IF I # {} THEN Min(I) ELSE 0
    BY Zenon DEF PlaceOf, SelectInSeq
  <1> HIDE DEF I
  <1> QED
    BY <1>1, <1>2, <1>3

(* The first entry of a key is found, if there is one.                      *)
LEMMA FindIs ==
    ASSUME NEW s \in Seq(Entry), NEW key, s = Chain(key), NEW f, f = Find(key)
    PROVE  \/ f = 0 /\ \A e \in ToSet(s) : e.key # key
           \/ /\ f \in 1 .. Len(s) /\ f # 0 /\ s[f].key = key
              /\ \A j \in 1 .. f - 1 : s[j].key # key
  <1>0. Len(s) \in Nat /\ DOMAIN s = 1 .. Len(s)
    OBVIOUS
  <1> DEFINE I == {i \in 1 .. Len(s) : s[i].key = key}
  <1>1. f = IF I # {} THEN Min(I) ELSE 0
    BY Zenon DEF Find, SelectInSeq
  <1>2. CASE I = {}
    <2>1. \A e \in ToSet(s) : e.key # key
      BY <1>0, <1>2 DEF ToSet
    <2> QED
      BY <1>1, <1>2, <2>1
  <1>3. CASE I # {}
    <2>1. I \in SUBSET Nat
      OBVIOUS
    <2> HIDE DEF I
    <2>2. f \in I /\ \A y \in I : f <= y
      BY <1>1, <1>3, <2>1, MinIsLeast
    <2>3. f \in 1 .. Len(s) /\ s[f].key = key
      BY <2>2 DEF I
    <2>4. ASSUME NEW j \in 1 .. f - 1 PROVE s[j].key # key
      <3>1. j \in 1 .. Len(s) /\ ~(f <= j)
        BY <1>0, <2>3
      <3>2. j \notin I
        BY <2>2, <3>1
      <3> QED
        BY <3>1, <3>2 DEF I
    <2>5. f # 0
      BY <1>0, <2>3
    <2> QED
      BY <2>3, <2>4, <2>5, Zenon
  <1> QED
    BY <1>2, <1>3

----------------------------------------------------------------------------
(* What is ahead of an iterator. *)

LEMMA AheadIs ==
    ASSUME NEW n \in Nat, NEW t \in Chains(n), NEW i \in 0 .. n - 1, NEW p \in Nat
    PROVE  \A a : a \in EntriesAhead(t, i, p) <=>
              \/ \E m \in 1 .. Len(t[i]) : m > p /\ a = t[i][m].entry
              \/ \E j \in 0 .. n - 1 : j > i /\ a \in AddressesOf(t[j])
  <1>1. DOMAIN t = 0 .. n - 1 /\ DOMAIN t[i] = 1 .. Len(t[i])
    BY DEF Chains
  <1>2. ASSUME NEW a
        PROVE  a \in {t[i][m].entry : m \in {m \in 1 .. Len(t[i]) : m > p}} <=>
                  \E m \in 1 .. Len(t[i]) : m > p /\ a = t[i][m].entry
    OBVIOUS
  <1>3. ASSUME NEW a
        PROVE  a \in UNION {AddressesOf(t[j]) : j \in {j \in 0 .. n - 1 : j > i}} <=>
                  \E j \in 0 .. n - 1 : j > i /\ a \in AddressesOf(t[j])
    OBVIOUS
  <1>4. EntriesAhead(t, i, p) = {t[i][m].entry : m \in {m \in 1 .. Len(t[i]) : m > p}}
                             \cup UNION {AddressesOf(t[j]) : j \in {j \in 0 .. n - 1 : j > i}}
    BY <1>1 DEF EntriesAhead
  <1> QED
    BY <1>2, <1>3, <1>4

(* An entry is not ahead of itself.                                         *)
LEMMA NotAhead ==
    ASSUME NEW n \in Nat, NEW t, Good(t, n), NEW i \in 0 .. n - 1, NEW p \in 1 .. Len(t[i])
    PROVE  t[i][p].entry \notin EntriesAhead(t, i, p) /\ t[i][p].entry \in Addresses(t)
  <1>1. t \in Chains(n) /\ t[i] \in Seq(Entry)
    BY DEF Good, Chains
  <1>2. Apart(t[i]) /\ \A j \in 0 .. n - 1 : i # j => AddressesOf(t[i]) \cap AddressesOf(t[j]) = {}
    BY <1>1, GoodIs
  <1>3. t[i][p].entry \in AddressesOf(t[i]) /\ DOMAIN t[i] = 1 .. Len(t[i])
    BY <1>1 DEF AddressesOf, ToSet
  <1>4. \A a : a \in EntriesAhead(t, i, p) <=>
              \/ \E m \in 1 .. Len(t[i]) : m > p /\ a = t[i][m].entry
              \/ \E j \in 0 .. n - 1 : j > i /\ a \in AddressesOf(t[j])
    <2>1. p \in Nat
      BY <1>1
    <2> QED
      BY <1>1, <2>1, AheadIs
  <1>5. ASSUME NEW m \in 1 .. Len(t[i]), m > p, t[i][p].entry = t[i][m].entry PROVE FALSE
    <2>1. m = p
      BY <1>2, <1>3, <1>5 DEF Apart
    <2> QED
      BY <1>1, <1>5, <2>1
  <1>6. ASSUME NEW j \in 0 .. n - 1, j > i, t[i][p].entry \in AddressesOf(t[j]) PROVE FALSE
    BY <1>2, <1>3, <1>6
  <1>7. t[i][p].entry \in Addresses(t)
    BY <1>1, <1>3, AddressesAre
  <1> QED
    BY <1>4, <1>5, <1>6, <1>7

(* What is ahead, by what follows.                                          *)
LEMMA AheadInChain ==
    ASSUME NEW n \in Nat, NEW t \in Chains(n), NEW i \in 0 .. n - 1, NEW p \in Nat,
           p + 1 <= Len(t[i])
    PROVE  EntriesAhead(t, i, p) = {t[i][p + 1].entry} \cup EntriesAhead(t, i, p + 1)
  <1>1. Len(t[i]) \in Nat
    BY DEF Chains
  <1>2. \A m \in 1 .. Len(t[i]) : m > p <=> m = p + 1 \/ m > p + 1
    BY <1>1
  <1>3. p + 1 \in 1 .. Len(t[i]) /\ p + 1 \in Nat
    BY <1>1
  <1>4. \A a : a \in EntriesAhead(t, i, p) <=>
              \/ \E m \in 1 .. Len(t[i]) : m > p /\ a = t[i][m].entry
              \/ \E j \in 0 .. n - 1 : j > i /\ a \in AddressesOf(t[j])
    BY AheadIs
  <1>5. \A a : a \in EntriesAhead(t, i, p + 1) <=>
              \/ \E m \in 1 .. Len(t[i]) : m > p + 1 /\ a = t[i][m].entry
              \/ \E j \in 0 .. n - 1 : j > i /\ a \in AddressesOf(t[j])
    BY <1>3, AheadIs
  <1>6. \A a : a \in EntriesAhead(t, i, p) <=> a = t[i][p + 1].entry \/ a \in EntriesAhead(t, i, p + 1)
    BY <1>2, <1>3, <1>4, <1>5
  <1> QED
    BY <1>6

(* The addresses of chain i and the later ones.                             *)
FromChain(t, n, i) == UNION {AddressesOf(t[j]) : j \in i .. n - 1}

LEMMA FromIs ==
    ASSUME NEW n \in Nat, NEW t \in Chains(n), NEW i \in Nat,
           NEW f \in Nat, i <= f, f <= n, \A j \in i .. f - 1 : t[j] = <<>>
    PROVE  /\ f = n => FromChain(t, n, i) = {}
           /\ f < n /\ t[f] # <<>> =>
                 /\ 1 \in 1 .. Len(t[f])
                 /\ FromChain(t, n, i) = {t[f][1].entry} \cup EntriesAhead(t, f, 1)
  <1>1. \A j \in 0 .. n - 1 : t[j] \in Seq(Entry)
    BY DEF Chains
  <1>2. \A j \in i .. f - 1 : AddressesOf(t[j]) = {}
    <2>1. AddressesOf(<<>>) = {}
      BY DEF AddressesOf, ToSet
    <2> QED
      BY <2>1
  <1>3. \A a : a \in FromChain(t, n, i) <=> \E j \in i .. n - 1 : a \in AddressesOf(t[j])
    BY DEF FromChain
  <1>4. f = n => FromChain(t, n, i) = {}
    BY <1>2, <1>3
  <1>5. ASSUME f < n, t[f] # <<>>
        PROVE  /\ 1 \in 1 .. Len(t[f])
               /\ FromChain(t, n, i) = {t[f][1].entry} \cup EntriesAhead(t, f, 1)
    <2>1. f \in 0 .. n - 1 /\ t[f] \in Seq(Entry)
      BY <1>1, <1>5
    <2>2. 1 \in 1 .. Len(t[f]) /\ 0 + 1 <= Len(t[f]) /\ Len(t[f]) \in Nat
      BY <1>5, <2>1
    <2>3. EntriesAhead(t, f, 0) = {t[f][1].entry} \cup EntriesAhead(t, f, 1)
      <3>1. EntriesAhead(t, f, 0) = {t[f][0 + 1].entry} \cup EntriesAhead(t, f, 0 + 1)
        BY <2>1, <2>2, AheadInChain
      <3> QED
        BY <3>1
    <2>4. \A a : a \in AddressesOf(t[f]) <=> \E m \in 1 .. Len(t[f]) : a = t[f][m].entry
      BY <2>1, AddressIs
    <2>5. \A a : a \in EntriesAhead(t, f, 0) <=>
              \/ \E m \in 1 .. Len(t[f]) : m > 0 /\ a = t[f][m].entry
              \/ \E j \in 0 .. n - 1 : j > f /\ a \in AddressesOf(t[j])
      BY <2>1, AheadIs
    <2>6. \A a : a \in EntriesAhead(t, f, 0) <=>
              a \in AddressesOf(t[f]) \/ \E j \in 0 .. n - 1 : j > f /\ a \in AddressesOf(t[j])
      <3>1. \A m \in 1 .. Len(t[f]) : m > 0
        BY <2>2
      <3> QED
        BY <2>4, <2>5, <3>1
    <2>7. \A j : j \in i .. n - 1 <=> j \in i .. f - 1 \/ j = f \/ (j \in 0 .. n - 1 /\ j > f)
      BY <1>5
    <2>8. \A a : a \in FromChain(t, n, i) <=> a \in EntriesAhead(t, f, 0)
      BY <1>2, <1>3, <2>6, <2>7
    <2>9. FromChain(t, n, i) = EntriesAhead(t, f, 0)
      BY <2>8
    <2> QED
      BY <2>2, <2>3, <2>9
  <1> QED
    BY <1>4, <1>5

LEMMA FromFirst ==
    ASSUME NEW n \in Nat, NEW t \in Chains(n)
    PROVE  /\ FromChain(t, n, 0) = Addresses(t)
           /\ \A i \in 0 .. n - 1 : EntriesAhead(t, i, Len(t[i])) = FromChain(t, n, i + 1)
  <1>1. FromChain(t, n, 0) = Addresses(t)
    <2>1. \A a : a \in Addresses(t) <=> \E i \in 0 .. n - 1 : a \in AddressesOf(t[i])
      BY AddressesAre
    <2>2. \A a : a \in FromChain(t, n, 0) <=> \E j \in 0 .. n - 1 : a \in AddressesOf(t[j])
      BY DEF FromChain
    <2>3. \A a : a \in Addresses(t) <=> a \in FromChain(t, n, 0)
      BY <2>1, <2>2
    <2> QED
      BY <2>3
  <1>2. ASSUME NEW i \in 0 .. n - 1 PROVE EntriesAhead(t, i, Len(t[i])) = FromChain(t, n, i + 1)
    <2>1. Len(t[i]) \in Nat
      BY DEF Chains
    <2>2. \A a : a \in EntriesAhead(t, i, Len(t[i])) <=>
              \/ \E m \in 1 .. Len(t[i]) : m > Len(t[i]) /\ a = t[i][m].entry
              \/ \E j \in 0 .. n - 1 : j > i /\ a \in AddressesOf(t[j])
      BY <2>1, AheadIs
    <2>3. \A m \in 1 .. Len(t[i]) : ~(m > Len(t[i]))
      BY <2>1
    <2>4. \A j : j \in (i + 1) .. n - 1 <=> j \in 0 .. n - 1 /\ j > i
      OBVIOUS
    <2>5. \A a : a \in FromChain(t, n, i + 1) <=> \E j \in (i + 1) .. n - 1 : a \in AddressesOf(t[j])
      BY DEF FromChain
    <2>6. \A a : a \in EntriesAhead(t, i, Len(t[i])) <=> a \in FromChain(t, n, i + 1)
      BY <2>2, <2>3, <2>4, <2>5
    <2> QED
      BY <2>6
  <1> QED
    BY <1>1, <1>2

----------------------------------------------------------------------------
(* Iterators. *)

Iterators == [index : Nat, entry : Entries \cup {NULL}, parent : Entries \cup {NULL},
              wrote : {"nothing", "inserted", "removed"},
              owed : SUBSET Entries, seen : Seq(Entries)]

(* the entries X are all that is ahead of an iterator                       *)
Ready(t, it, X) ==
    /\ \A m, n \in DOMAIN it.seen : it.seen[m] = it.seen[n] => m = n
    /\ it.wrote # "removed" => ToSet(it.seen) \subseteq Addresses(t)
    /\ it.owed \subseteq ToSet(it.seen) \cup X
    /\ ToSet(it.seen) \cap X = {}

(* to is the iterator it after it has moved                                 *)
Moved(it, to, index, entry, parent) ==
    /\ to \in Iterators
    /\ to.index = index /\ to.entry = entry /\ to.parent = parent
    /\ to.wrote = it.wrote /\ to.owed = it.owed
    /\ to.seen = IF entry = NULL THEN it.seen ELSE Append(it.seen, entry)

LEMMA MovedIs ==
    ASSUME NEW it \in Iterators, NEW index \in Nat, NEW entry \in Entries \cup {NULL},
           NEW parent \in Entries \cup {NULL}
    PROVE  Moved(it, MovedTo(it, index, entry, parent), index, entry, parent)
  <1> DEFINE new == IF entry = NULL THEN it.seen ELSE Append(it.seen, entry)
             to == MovedTo(it, index, entry, parent)
  <1>1. new \in Seq(Entries)
    BY DEF Iterators
  <1>2. to = [it EXCEPT !.index = index, !.entry = entry, !.parent = parent, !.seen = new]
    BY DEF MovedTo, Iterators
  <1> HIDE DEF new
  <1>3. /\ to \in Iterators
        /\ to.index = index /\ to.entry = entry /\ to.parent = parent
        /\ to.wrote = it.wrote /\ to.owed = it.owed /\ to.seen = new
    BY <1>1, <1>2 DEF Iterators
  <1> QED
    BY <1>3 DEF new, Moved

(* An iterator comes to the next entry ahead.                               *)
LEMMA Arrives ==
    ASSUME NEW n \in Nat, NEW t, Good(t, n), NEW it \in Iterators, NEW X, Ready(t, it, X),
           NEW i \in 0 .. n - 1, NEW p \in 1 .. Len(t[i]), NEW entry \in Entries,
           entry = t[i][p].entry, X = {entry} \cup EntriesAhead(t, i, p),
           NEW parent \in Entries \cup {NULL},
           it.wrote # "inserted" => parent = IF p = 1 THEN NULL ELSE t[i][p - 1].entry,
           NEW to, Moved(it, to, i, entry, parent)
    PROVE  IterRight(t, to)
  <1>1. entry \notin EntriesAhead(t, i, p) /\ entry \in Addresses(t)
    BY NotAhead
  <1>2. entry # NULL /\ i \in Nat /\ entry \in Entries \cup {NULL}
    BY KeysAssumption
  <1>3. /\ to \in Iterators
        /\ to.index = i /\ to.entry = entry /\ to.parent = parent
        /\ to.wrote = it.wrote /\ to.owed = it.owed /\ to.seen = Append(it.seen, entry)
    BY <1>2 DEF Moved
  <1> DEFINE old == it.seen
             new == to.seen
  <1>4. old \in Seq(Entries) /\ DOMAIN old = 1 .. Len(old) /\ Len(old) \in Nat
    BY DEF Iterators
  <1>5. /\ new \in Seq(Entries) /\ DOMAIN new = 1 .. Len(old) + 1 /\ new[Len(old) + 1] = entry
        /\ \A m \in 1 .. Len(old) : new[m] = old[m]
    BY <1>3, <1>4
  <1>6. ToSet(new) = ToSet(old) \cup {entry}
    <2>1. \A a : a \in ToSet(new) <=> \E m \in 1 .. Len(old) + 1 : a = new[m]
      BY <1>5 DEF ToSet
    <2>2. \A a : a \in ToSet(old) <=> \E m \in 1 .. Len(old) : a = old[m]
      BY <1>4 DEF ToSet
    <2>3. \A m : m \in 1 .. Len(old) + 1 <=> m \in 1 .. Len(old) \/ m = Len(old) + 1
      BY <1>4
    <2> HIDE DEF new, old
    <2>4. \A a : a \in ToSet(new) <=> a \in ToSet(old) \/ a = entry
      BY <1>5, <2>1, <2>2, <2>3
    <2> QED
      BY <2>4
  <1>7. entry \notin ToSet(old)
    BY DEF Ready
  <1> HIDE DEF new, old
  <1>8. ASSUME NEW k \in DOMAIN new, NEW l \in DOMAIN new, new[k] = new[l] PROVE k = l
    <2>1. \A m \in 1 .. Len(old) : old[m] # entry
      BY <1>4, <1>7 DEF ToSet
    <2>2. \A m, q \in 1 .. Len(old) : old[m] = old[q] => m = q
      BY <1>4 DEF Ready, old
    <2>3. \A m \in DOMAIN new : m \in 1 .. Len(old) \/ m = Len(old) + 1
      BY <1>4, <1>5
    <2> QED
      BY <1>5, <1>8, <2>1, <2>2, <2>3
  <1>9. to.wrote # "removed" => ToSet(to.seen) \subseteq Addresses(t)
    BY <1>1, <1>3, <1>6 DEF Ready, new, old
  <1>10. AtPlace(t, to, p)
    <2>1. to.owed \subseteq ToSet(new) \cup EntriesAhead(t, i, p)
      BY <1>3, <1>6 DEF Ready, old
    <2>2. ToSet(new) \cap EntriesAhead(t, i, p) = {}
      BY <1>1, <1>6 DEF Ready, old
    <2> QED
      BY <1>3, <1>6, <2>1, <2>2 DEF AtPlace, new
  <1>11. i \in DOMAIN t /\ p \in DOMAIN t[i]
    BY DEF Good, Chains
  <1> QED
    BY <1>2, <1>3, <1>8, <1>9, <1>10, <1>11 DEF IterRight, new

(* An iterator comes to the end.                                            *)
LEMMA ArrivesAtEnd ==
    ASSUME NEW t, NEW it \in Iterators, Ready(t, it, {}), NEW i \in Nat,
           NEW parent \in Entries \cup {NULL}, NEW to, Moved(it, to, i, NULL, parent)
    PROVE  IterRight(t, to)
  <1>1. /\ to \in Iterators /\ to.entry = NULL
        /\ to.wrote = it.wrote /\ to.owed = it.owed /\ to.seen = it.seen
    BY DEF Moved
  <1> QED
    BY <1>1 DEF IterRight, Ready

(* An iterator at a place is ready to go on.                                *)
LEMMA PlaceReady ==
    ASSUME NEW t, NEW it, IterRight(t, it), NEW p, AtPlace(t, it, p)
    PROVE  Ready(t, it, EntriesAhead(t, it.index, p))
  BY DEF IterRight, AtPlace, Ready

(* The chain that FirstFrom finds.                                          *)
LEMMA FirstFromIs ==
    ASSUME Sound(htable), NEW n, n = SizeOf(htable), NEW i \in 0 .. n
    PROVE  /\ FirstFrom(i) \in i .. n /\ FirstFrom(i) \in Nat
           /\ \A j \in i .. FirstFrom(i) - 1 : htable.table[j] = <<>>
           /\ IF FirstFrom(i) = n THEN HeadOf(FirstFrom(i)) = NULL
              ELSE /\ htable.table[FirstFrom(i)] # <<>>
                   /\ HeadOf(FirstFrom(i)) = htable.table[FirstFrom(i)][1].entry
  <1> DEFINE t == htable.table
             S == {n} \cup {j \in i .. n - 1 : t[j] # <<>>}
             f == FirstFrom(i)
  <1>1. /\ n \in Nat \ {0} /\ Length(htable) = n /\ DOMAIN t = 0 .. n - 1
        /\ \A j \in 0 .. n - 1 : t[j] \in Seq(Entry)
    BY SoundFacts
  <1>2. f = Min(S)
    BY <1>1 DEF FirstFrom
  <1>3. S \in SUBSET Nat /\ S # {}
    BY <1>1
  <1>4. f \in S /\ \A y \in S : f <= y
    <2> HIDE DEF S
    <2> QED
      BY <1>2, <1>3, MinIsLeast
  <1>5. f \in i .. n /\ f \in Nat /\ (f # n => t[f] # <<>>)
    <2> HIDE DEF f
    <2> QED
      BY <1>1, <1>4
  <1>6. \A j \in i .. f - 1 : t[j] = <<>>
    <2> SUFFICES ASSUME NEW j \in i .. f - 1, t[j] # <<>> PROVE FALSE
      OBVIOUS
    <2> HIDE DEF f
    <2>1. j \in i .. n - 1 /\ ~(f <= j)
      BY <1>1, <1>5
    <2> QED
      BY <1>4, <2>1
  <1> HIDE DEF f
  <1>7. CASE f = n
    <2>1. f \notin DOMAIN t
      BY <1>1, <1>7
    <2>2. HeadOf(f) = NULL
      BY <2>1 DEF HeadOf
    <2> QED
      BY <1>5, <1>6, <1>7, <2>2 DEF f
  <1>8. CASE f # n
    <2>1. f \in 0 .. n - 1 /\ f \in DOMAIN t /\ t[f] # <<>> /\ t[f] \in Seq(Entry)
      BY <1>1, <1>5, <1>8
    <2>2. HeadOf(f) = t[f][1].entry
      BY <2>1 DEF HeadOf
    <2> QED
      BY <1>5, <1>6, <1>8, <2>1, <2>2 DEF f
  <1> QED
    BY <1>7, <1>8

(* Where an iterator goes from a place: to the end, in its chain, or to the *)
(* head of a later chain.                                                   *)
Goes(t, n, i, p, entry, to) ==
    \/ to.index \in Nat /\ to.entry = NULL /\ to.parent = NULL /\ EntriesAhead(t, i, p) = {}
    \/ /\ p + 1 \in 1 .. Len(t[i]) /\ to.index = i
       /\ to.entry = t[i][p + 1].entry /\ to.parent = entry
       /\ EntriesAhead(t, i, p) = {t[i][p + 1].entry} \cup EntriesAhead(t, i, p + 1)
    \/ \E f \in 0 .. n - 1 :
          /\ f > i /\ 1 \in 1 .. Len(t[f]) /\ to.index = f
          /\ to.entry = t[f][1].entry /\ to.parent = NULL
          /\ EntriesAhead(t, i, p) = {t[f][1].entry} \cup EntriesAhead(t, f, 1)

LEMMA AdvancedIs ==
    ASSUME Sound(htable), NEW n, n = SizeOf(htable), NEW t, t = htable.table,
           NEW i \in 0 .. n - 1, iter.index = i, NEW p \in 1 .. Len(t[i]),
           t[i][p].entry = iter.entry
    PROVE  Goes(t, n, i, p, iter.entry, Advanced)
  <1> USE DEF Goes
  <1>1. /\ n \in Nat \ {0} /\ n \in Nat /\ Length(htable) = n /\ t \in Chains(n)
        /\ t[i] \in Seq(Entry) /\ Apart(t[i])
    BY SoundFacts
  <1>2. IterChain = t[i]
    BY DEF IterChain
  <1>3. PlaceOf(iter.entry) = p
    <2>1. ASSUME NEW s, s = t[i], NEW a, a = s[p].entry PROVE PlaceOf(a) = p
      <3>1. s \in Seq(Entry) /\ s = IterChain /\ Apart(s) /\ p \in 1 .. Len(s)
        BY <1>1, <1>2, <2>1
      <3> QED
        BY <2>1, <3>1, PlaceIs
    <2> QED
      BY <2>1
  <1>4. p \in Nat /\ Len(t[i]) \in Nat /\ p <= Len(t[i])
    BY <1>1
  <1> DEFINE after == p + 1
             next == FirstFrom(i + 1)
  <1>5. Advanced = IF after <= Len(t[i])
                   THEN [index |-> i, entry |-> t[i][after].entry, parent |-> iter.entry]
                   ELSE [index |-> next, entry |-> HeadOf(next), parent |-> NULL]
    BY <1>2, <1>3 DEF Advanced
  <1>6. CASE after <= Len(t[i])
    <2>1. EntriesAhead(t, i, p) = {t[i][p + 1].entry} \cup EntriesAhead(t, i, p + 1)
      BY <1>1, <1>4, <1>6, AheadInChain
    <2>2. /\ Advanced.index = i /\ Advanced.entry = t[i][after].entry
          /\ Advanced.parent = iter.entry
      BY <1>5, <1>6
    <2>3. p + 1 \in 1 .. Len(t[i])
      BY <1>4, <1>6
    <2> QED
      BY <2>1, <2>2, <2>3
  <1>7. CASE ~(after <= Len(t[i]))
    <2>1. p = Len(t[i]) /\ i + 1 \in 0 .. n /\ i + 1 \in Nat
      BY <1>1, <1>4, <1>7
    <2>2. EntriesAhead(t, i, p) = FromChain(t, n, i + 1)
      BY <1>1, <2>1, FromFirst
    <2>3. /\ next \in i + 1 .. n /\ next \in Nat
          /\ \A j \in i + 1 .. next - 1 : t[j] = <<>>
          /\ IF next = n THEN HeadOf(next) = NULL
             ELSE t[next] # <<>> /\ HeadOf(next) = t[next][1].entry
      BY <2>1, FirstFromIs
    <2>4. Advanced.index = next /\ Advanced.entry = HeadOf(next) /\ Advanced.parent = NULL
      BY <1>5, <1>7
    <2> HIDE DEF next
    <2>5. /\ next = n => FromChain(t, n, i + 1) = {}
          /\ next < n /\ t[next] # <<>> =>
                 /\ 1 \in 1 .. Len(t[next])
                 /\ FromChain(t, n, i + 1) = {t[next][1].entry} \cup EntriesAhead(t, next, 1)
      <3>1. i + 1 <= next /\ next <= n
        BY <1>1, <2>1, <2>3
      <3> DEFINE k == i + 1
      <3> HIDE DEF k
      <3>2. k \in Nat /\ k <= next /\ \A j \in k .. next - 1 : t[j] = <<>>
        BY <2>1, <2>3, <3>1 DEF k
      <3>3. /\ next = n => FromChain(t, n, k) = {}
            /\ next < n /\ t[next] # <<>> =>
                 /\ 1 \in 1 .. Len(t[next])
                 /\ FromChain(t, n, k) = {t[next][1].entry} \cup EntriesAhead(t, next, 1)
        <4>1. k \in Nat /\ next \in Nat /\ k <= next /\ next <= n
              /\ \A j \in k .. next - 1 : t[j] = <<>>
          BY <1>1, <2>3, <3>1, <3>2
        <4>2. n \in Nat /\ t \in Chains(n)
          BY <1>1
        <4>3. ASSUME NEW m \in Nat, NEW x \in Chains(m), k \in Nat, next \in Nat, k <= next, next <= m,
                     \A j \in k .. next - 1 : x[j] = <<>>
              PROVE  /\ next = m => FromChain(x, m, k) = {}
                     /\ next < m /\ x[next] # <<>> =>
                          /\ 1 \in 1 .. Len(x[next])
                          /\ FromChain(x, m, k) = {x[next][1].entry} \cup EntriesAhead(x, next, 1)
          BY <4>3, FromIs
        <4> QED
          BY <4>1, <4>2, <4>3
      <3> QED
        BY <3>3 DEF k
    <2>6. CASE next = n
      BY <2>2, <2>3, <2>4, <2>5, <2>6
    <2>7. CASE next # n
      <3>1. next < n /\ next \in 0 .. n - 1 /\ next > i
        BY <1>1, <2>1, <2>3, <2>7
      <3> QED
        BY <2>2, <2>3, <2>4, <2>5, <2>7, <3>1
    <2> QED
      BY <2>6, <2>7
  <1> QED
    BY <1>6, <1>7

----------------------------------------------------------------------------
(* What is ahead of a place when a chain changes. *)

(* An insertion moves a place by at most one and puts at most the new entry *)
(* ahead of it.                                                             *)
StillAt(t, u, j, p, new) ==
    \E q \in 1 .. Len(u[j]) :
        /\ u[j][q].entry = t[j][p].entry
        /\ EntriesAhead(t, j, p) \subseteq EntriesAhead(u, j, q)
        /\ EntriesAhead(u, j, q) \subseteq EntriesAhead(t, j, p) \cup {new}

LEMMA AheadInserted ==
    ASSUME NEW n \in Nat, NEW t \in Chains(n), NEW i \in 0 .. n - 1, NEW e \in Entry,
           NEW u, Replaced(t, u, i, Cons(e, t[i]), n),
           NEW j \in 0 .. n - 1, NEW p \in 1 .. Len(t[j])
    PROVE  StillAt(t, u, j, p, e.entry)
  <1> DEFINE c == Cons(e, t[i])
  <1>1. u \in Chains(n) /\ u[i] = c /\ \A k \in 0 .. n - 1 : k # i => u[k] = t[k]
    BY DEF Replaced
  <1> USE DEF StillAt
  <1>2. \A k \in 0 .. n - 1 : t[k] \in Seq(Entry) /\ u[k] \in Seq(Entry)
    BY <1>1 DEF Chains
  <1>3. /\ c \in Seq(Entry) /\ Len(c) = Len(t[i]) + 1
        /\ \A m \in 1 .. Len(t[i]) : c[m + 1] = t[i][m]
        /\ AddressesOf(c) = {e.entry} \cup AddressesOf(t[i])
    <2>1. t[i] \in Seq(Entry)
      BY <1>2
    <2>2. ASSUME NEW s \in Seq(Entry)
          PROVE  /\ Cons(e, s) \in Seq(Entry) /\ Len(Cons(e, s)) = Len(s) + 1
                 /\ \A m \in 1 .. Len(s) : Cons(e, s)[m + 1] = s[m]
                 /\ AddressesOf(Cons(e, s)) = {e.entry} \cup AddressesOf(s)
      <3>1. /\ Cons(e, s) \in Seq(Entry) /\ Len(Cons(e, s)) = Len(s) + 1
            /\ \A m \in 1 .. Len(s) : Cons(e, s)[m + 1] = s[m]
        BY ConsIs
      <3>2. AddressesOf(Cons(e, s)) = {e.entry} \cup AddressesOf(s)
        BY ConsHolds
      <3> QED
        BY <3>1, <3>2
    <2> QED
      BY <2>1, <2>2
  <1> HIDE DEF c
  <1>4. p \in Nat /\ Len(t[j]) \in Nat /\ Len(t[i]) \in Nat
    BY <1>2
  <1>5. \A a : a \in EntriesAhead(t, j, p) <=>
              \/ \E m \in 1 .. Len(t[j]) : m > p /\ a = t[j][m].entry
              \/ \E k \in 0 .. n - 1 : k > j /\ a \in AddressesOf(t[k])
    BY <1>4, AheadIs
  <1>6. \A q \in Nat : \A a : a \in EntriesAhead(u, j, q) <=>
              \/ \E m \in 1 .. Len(u[j]) : m > q /\ a = u[j][m].entry
              \/ \E k \in 0 .. n - 1 : k > j /\ a \in AddressesOf(u[k])
    BY <1>1, AheadIs
  <1>7. CASE j = i
    <2> DEFINE q == p + 1
    <2>1. q \in 1 .. Len(u[j]) /\ q \in Nat /\ u[j][q].entry = t[j][p].entry
      BY <1>1, <1>3, <1>4, <1>7
    <2>2. \A k \in 0 .. n - 1 : k > j => u[k] = t[k]
      BY <1>1, <1>7
    <2>3. ASSUME NEW a
          PROVE  (\E m \in 1 .. Len(t[j]) : m > p /\ a = t[j][m].entry) <=>
                    (\E m \in 1 .. Len(u[j]) : m > q /\ a = u[j][m].entry)
      <3>1. ASSUME NEW m \in 1 .. Len(t[j]), m > p, a = t[j][m].entry
            PROVE  \E l \in 1 .. Len(u[j]) : l > q /\ a = u[j][l].entry
        <4>1. m + 1 \in 1 .. Len(u[j]) /\ m + 1 > q /\ u[j][m + 1] = t[j][m]
          BY <1>1, <1>3, <1>4, <1>7, <3>1
        <4> QED
          BY <3>1, <4>1
      <3>2. ASSUME NEW m \in 1 .. Len(u[j]), m > q, a = u[j][m].entry
            PROVE  \E l \in 1 .. Len(t[j]) : l > p /\ a = t[j][l].entry
        <4>1. m - 1 \in 1 .. Len(t[j]) /\ m - 1 > p /\ (m - 1) + 1 = m
          BY <1>1, <1>3, <1>4, <1>7, <3>2
        <4>2. u[j][(m - 1) + 1] = t[j][m - 1]
          BY <1>1, <1>3, <1>7, <4>1
        <4> QED
          BY <3>2, <4>1, <4>2
      <3> QED
        BY <3>1, <3>2
    <2>4. \A a : a \in EntriesAhead(u, j, q) <=> a \in EntriesAhead(t, j, p)
      <3>1. \A a : a \in EntriesAhead(u, j, q) <=>
                \/ \E m \in 1 .. Len(u[j]) : m > q /\ a = u[j][m].entry
                \/ \E k \in 0 .. n - 1 : k > j /\ a \in AddressesOf(u[k])
        BY <1>6, <2>1
      <3> HIDE DEF q
      <3> QED
        BY <1>5, <2>2, <2>3, <3>1
    <2> QED
      BY <2>1, <2>4
  <1>8. CASE j # i
    <2>1. u[j] = t[j] /\ p \in 1 .. Len(u[j]) /\ u[j][p].entry = t[j][p].entry
      BY <1>1, <1>8
    <2>2. \A k \in 0 .. n - 1 : /\ AddressesOf(t[k]) \subseteq AddressesOf(u[k])
                                /\ AddressesOf(u[k]) \subseteq AddressesOf(t[k]) \cup {e.entry}
      BY <1>1, <1>3
    <2>3. \A a : a \in EntriesAhead(u, j, p) <=>
                \/ \E m \in 1 .. Len(t[j]) : m > p /\ a = t[j][m].entry
                \/ \E k \in 0 .. n - 1 : k > j /\ a \in AddressesOf(u[k])
      BY <1>4, <1>6, <2>1
    <2>4. EntriesAhead(t, j, p) \subseteq EntriesAhead(u, j, p)
      BY <1>5, <2>2, <2>3
    <2>5. EntriesAhead(u, j, p) \subseteq EntriesAhead(t, j, p) \cup {e.entry}
      BY <1>5, <2>2, <2>3
    <2> QED
      BY <2>1, <2>4, <2>5
  <1> QED
    BY <1>7, <1>8

(* A change of values moves nothing.                                        *)
SameEntries(s, x) ==
    x \in Seq(Entry) /\ Len(x) = Len(s) /\ \A m \in 1 .. Len(s) : x[m].entry = s[m].entry

LEMMA AheadStored ==
    ASSUME NEW n \in Nat, NEW t \in Chains(n), NEW i \in 0 .. n - 1, NEW x,
           SameEntries(t[i], x), NEW u, Replaced(t, u, i, x, n), NEW j \in 0 .. n - 1, NEW p \in Nat
    PROVE  SameEntries(t[j], u[j]) /\ EntriesAhead(u, j, p) = EntriesAhead(t, j, p)
  <1>1. u \in Chains(n) /\ u[i] = x /\ \A k \in 0 .. n - 1 : k # i => u[k] = t[k]
    BY DEF Replaced
  <1>2. \A k \in 0 .. n - 1 : t[k] \in Seq(Entry) /\ u[k] \in Seq(Entry)
    BY <1>1 DEF Chains
  <1>3. AddressesOf(x) = AddressesOf(t[i])
    BY <1>2, SameHolds DEF SameEntries
  <1>4. \A k \in 0 .. n - 1 : AddressesOf(u[k]) = AddressesOf(t[k])
    BY <1>1, <1>3
  <1>5. Len(u[j]) = Len(t[j]) /\ \A m \in 1 .. Len(t[j]) : u[j][m].entry = t[j][m].entry
    BY <1>1 DEF SameEntries
  <1>6. \A a : a \in EntriesAhead(t, j, p) <=>
              \/ \E m \in 1 .. Len(t[j]) : m > p /\ a = t[j][m].entry
              \/ \E k \in 0 .. n - 1 : k > j /\ a \in AddressesOf(t[k])
    BY AheadIs
  <1>7. \A a : a \in EntriesAhead(u, j, p) <=>
              \/ \E m \in 1 .. Len(u[j]) : m > p /\ a = u[j][m].entry
              \/ \E k \in 0 .. n - 1 : k > j /\ a \in AddressesOf(u[k])
    BY <1>1, AheadIs
  <1>8. \A a : a \in EntriesAhead(u, j, p) <=> a \in EntriesAhead(t, j, p)
    BY <1>4, <1>5, <1>6, <1>7
  <1> QED
    BY <1>2, <1>5, <1>8 DEF SameEntries

(* The entry at place p goes: what was ahead of later places is ahead of    *)
(* them, one place earlier in the same chain.                               *)
KeptAhead(t, u, n, i, p) ==
    /\ EntriesAhead(u, i, p) = EntriesAhead(t, i, p + 1)
    /\ \A j \in 0 .. n - 1 : \A q \in Nat : j > i => EntriesAhead(u, j, q) = EntriesAhead(t, j, q)

LEMMA AheadDropped ==
    ASSUME NEW n \in Nat, NEW t \in Chains(n), NEW i \in 0 .. n - 1, NEW p \in 1 .. Len(t[i]),
           NEW u, Replaced(t, u, i, Dropped(t[i], p), n)
    PROVE  KeptAhead(t, u, n, i, p)
  <1> DEFINE c == Dropped(t[i], p)
  <1>1. u \in Chains(n) /\ u[i] = c /\ \A k \in 0 .. n - 1 : k # i => u[k] = t[k]
    BY DEF Replaced
  <1>2. t[i] \in Seq(Entry) /\ Len(t[i]) \in Nat /\ p \in Nat /\ p + 1 \in Nat
    BY DEF Chains
  <1>3. /\ c \in Seq(Entry) /\ Len(c) = Len(t[i]) - 1
        /\ \A m \in p .. Len(t[i]) - 1 : c[m] = t[i][m + 1]
    <2>1. ASSUME NEW s \in Seq(Entry), p \in 1 .. Len(s)
          PROVE  /\ Dropped(s, p) \in Seq(Entry) /\ Len(Dropped(s, p)) = Len(s) - 1
                 /\ \A m \in p .. Len(s) - 1 : Dropped(s, p)[m] = s[m + 1]
      BY <2>1, DroppedIs
    <2> QED
      BY <1>2, <2>1
  <1> HIDE DEF c
  <1>4. \A k \in 0 .. n - 1 : k > i => u[k] = t[k]
    BY <1>1
  <1>5. ASSUME NEW a
        PROVE  (\E m \in 1 .. Len(u[i]) : m > p /\ a = u[i][m].entry) <=>
                  (\E m \in 1 .. Len(t[i]) : m > p + 1 /\ a = t[i][m].entry)
    <2>1. ASSUME NEW m \in 1 .. Len(u[i]), m > p, a = u[i][m].entry
          PROVE  \E l \in 1 .. Len(t[i]) : l > p + 1 /\ a = t[i][l].entry
      <3>1. m + 1 \in 1 .. Len(t[i]) /\ m + 1 > p + 1 /\ m \in p .. Len(t[i]) - 1
        BY <1>1, <1>2, <1>3, <2>1
      <3>2. u[i][m] = t[i][m + 1]
        BY <1>1, <1>3, <3>1
      <3> QED
        BY <2>1, <3>1, <3>2
    <2>2. ASSUME NEW m \in 1 .. Len(t[i]), m > p + 1, a = t[i][m].entry
          PROVE  \E l \in 1 .. Len(u[i]) : l > p /\ a = u[i][l].entry
      <3>1. m - 1 \in 1 .. Len(u[i]) /\ m - 1 > p /\ (m - 1) + 1 = m /\ m - 1 \in p .. Len(t[i]) - 1
        BY <1>1, <1>2, <1>3, <2>2
      <3>2. u[i][m - 1] = t[i][(m - 1) + 1]
        BY <1>1, <1>3, <3>1
      <3> QED
        BY <2>2, <3>1, <3>2
    <2> QED
      BY <2>1, <2>2
  <1>6. EntriesAhead(u, i, p) = EntriesAhead(t, i, p + 1)
    <2>1. \A a : a \in EntriesAhead(u, i, p) <=>
                \/ \E m \in 1 .. Len(u[i]) : m > p /\ a = u[i][m].entry
                \/ \E k \in 0 .. n - 1 : k > i /\ a \in AddressesOf(u[k])
      BY <1>1, <1>2, AheadIs
    <2> DEFINE q == p + 1
    <2> HIDE DEF q
    <2>2. \A a : a \in EntriesAhead(t, i, q) <=>
                \/ \E m \in 1 .. Len(t[i]) : m > q /\ a = t[i][m].entry
                \/ \E k \in 0 .. n - 1 : k > i /\ a \in AddressesOf(t[k])
      BY <1>2, AheadIs DEF q
    <2>3. \A a : a \in EntriesAhead(u, i, p) <=> a \in EntriesAhead(t, i, q)
      BY <1>4, <1>5, <2>1, <2>2 DEF q
    <2>4. EntriesAhead(u, i, p) = EntriesAhead(t, i, q)
      BY <2>3
    <2> QED
      BY <2>4 DEF q
  <1>7. ASSUME NEW j \in 0 .. n - 1, NEW q \in Nat, j > i PROVE EntriesAhead(u, j, q) = EntriesAhead(t, j, q)
    <2>1. \A a : a \in EntriesAhead(u, j, q) <=>
                \/ \E m \in 1 .. Len(u[j]) : m > q /\ a = u[j][m].entry
                \/ \E k \in 0 .. n - 1 : k > j /\ a \in AddressesOf(u[k])
      <3>1. u \in Chains(n)
        BY <1>1
      <3> QED
        BY <3>1, AheadIs
    <2>2. \A a : a \in EntriesAhead(t, j, q) <=>
                \/ \E m \in 1 .. Len(t[j]) : m > q /\ a = t[j][m].entry
                \/ \E k \in 0 .. n - 1 : k > j /\ a \in AddressesOf(t[k])
      BY AheadIs
    <2>3. u[j] = t[j] /\ \A k \in 0 .. n - 1 : k > j => u[k] = t[k]
      BY <1>4, <1>7
    <2>4. \A a : a \in EntriesAhead(u, j, q) <=> a \in EntriesAhead(t, j, q)
      BY <2>1, <2>2, <2>3
    <2> QED
      BY <2>4
  <1> QED
    BY <1>6, <1>7 DEF KeptAhead

----------------------------------------------------------------------------
(* The inductive invariant, of a table and an iterator. *)

IterGood(t, it) == it # NoIter => it \in Iterators /\ IterRight(t, it)
Right(h, it) == Sound(h) /\ IterGood(h.table, it)

(* What the invariant says of the fields.                                   *)
LEMMA SoundIs ==
    ASSUME NEW h
    PROVE  Sound(h) <=>
              /\ h.prime_index \in DOMAIN primes
              /\ h \in [table : [0 .. primes[h.prime_index] - 1 -> Seq(Entry)],
                        prime_index : DOMAIN primes, entry_count : Nat, load_limit : Nat]
              /\ Length(h) = primes[h.prime_index]
              /\ h.load_limit = load_factors[h.prime_index]
              /\ h.entry_count = Cardinality(Addresses(h.table))
              /\ LinkedOnce(h.table)
              /\ WellHashed(h.table, Length(h))
              /\ IsFiniteSet(Addresses(h.table))
  <1> DEFINE T == /\ h.prime_index \in DOMAIN primes
                  /\ h \in [table : Chains(SizeOf(h)), prime_index : DOMAIN primes,
                            entry_count : Nat, load_limit : Nat]
  <1>1. T <=> /\ h.prime_index \in DOMAIN primes
              /\ h \in [table : [0 .. primes[h.prime_index] - 1 -> Seq(Entry)],
                        prime_index : DOMAIN primes, entry_count : Nat, load_limit : Nat]
    BY DEF SizeOf, Chains
  <1>2. T => Length(h) = SizeOf(h) /\ h.table \in Chains(SizeOf(h))
    <2> SUFFICES ASSUME T PROVE Length(h) = SizeOf(h) /\ h.table \in Chains(SizeOf(h))
      OBVIOUS
    <2>1. SizeOf(h) \in Nat \ {0} /\ h.table \in Chains(SizeOf(h))
      BY PrimesAre DEF SizeOf
    <2> QED
      BY <2>1, LengthIs
  <1> HIDE DEF T
  <1>3. Sound(h) <=> T /\ LinkedOnce(h.table) /\ WellHashed(h.table, SizeOf(h))
                       /\ h.table \in Chains(SizeOf(h))
                       /\ h.load_limit = load_factors[h.prime_index]
                       /\ IsFiniteSet(Addresses(h.table))
                       /\ h.entry_count = Cardinality(Addresses(h.table))
    BY DEF Sound, Good, T
  <1>4. SizeOf(h) = primes[h.prime_index]
    BY DEF SizeOf
  <1> QED
    BY <1>1, <1>2, <1>3, <1>4

LEMMA InvIs == TableInv <=> Right(htable, iter) /\ {harm, freed} \subseteq BOOLEAN
  <1> USE DEF IterGood
  <1>1. (iter # NoIter => iter \in Iterators /\ IterRight(htable.table, iter)) <=>
           /\ iter # NoIter => iter \in Iterators
           /\ iter # NoIter => IterRight(htable.table, iter)
    OBVIOUS
  <1> QED
    BY <1>1, SoundIs DEF TableInv, TableTypeOK, WellFormed, Right, Iterators

LEMMA InvIsNext == TableInv' <=> Right(htable', iter') /\ {harm', freed'} \subseteq BOOLEAN
  <1> USE DEF IterGood
  <1>1. (iter' # NoIter => iter' \in Iterators /\ IterRight(htable'.table, iter')) <=>
           /\ iter' # NoIter => iter' \in Iterators
           /\ iter' # NoIter => IterRight(htable'.table, iter')
    OBVIOUS
  <1> QED
    BY <1>1, SoundIs DEF TableInv, TableTypeOK, WellFormed, Right, Iterators

(* The first table is empty.                                                *)
LEMMA InitRight ==
    ASSUME TableInit
    PROVE  Right(htable, iter)
  <1>1. PICK min_size \in MinSizes :
           LET p == Min({n \in DOMAIN primes : primes[n] > min_size})
           IN  htable = [table |-> [i \in 0 .. primes[p] - 1 |-> <<>>],
                         prime_index |-> p, entry_count |-> 0, load_limit |-> load_factors[p]]
    BY DEF TableInit
  <1> DEFINE S == {n \in DOMAIN primes : primes[n] > min_size}
             p == Min(S)
             size == primes[p]
             t == [i \in 0 .. size - 1 |-> <<>>]
  <1>2. htable = [table |-> t, prime_index |-> p, entry_count |-> 0, load_limit |-> load_factors[p]]
    BY <1>1
  <1>3. p \in DOMAIN primes
    <2>1. S \in SUBSET Nat /\ S # {}
      BY PrimesAre, SizesAssumption
    <2>2. Min(S) \in S
      <3> HIDE DEF S
      <3> QED
        BY <2>1, MinIsLeast
    <2> QED
      BY <2>2
  <1>4. size \in Nat \ {0} /\ load_factors[p] \in Nat
    BY <1>3, PrimesAre
  <1> HIDE DEF p
  <1>5. SizeOf(htable) = size /\ htable.table = t
    BY <1>2 DEF SizeOf
  <1> HIDE DEF size
  <1>6. t \in Chains(size)
    BY DEF Chains
  <1>7. DOMAIN t = 0 .. size - 1 /\ \A i \in 0 .. size - 1 : DOMAIN t[i] = {} /\ AddressesOf(t[i]) = {}
    BY DEF AddressesOf, ToSet
  <1>8. Good(t, size)
    BY <1>6, <1>7 DEF Good, LinkedOnce, WellHashed
  <1> HIDE DEF t
  <1>9. Addresses(t) = {}
    BY <1>7 DEF Addresses
  <1>10. IsFiniteSet(Addresses(t)) /\ Cardinality(Addresses(t)) = 0
    BY <1>9, FS_EmptySet
  <1>11. htable \in [table : Chains(size), prime_index : DOMAIN primes,
                     entry_count : Nat, load_limit : Nat]
    BY <1>2, <1>3, <1>4, <1>6
  <1>12. htable.prime_index = p /\ htable.entry_count = 0 /\ htable.load_limit = load_factors[p]
    BY <1>2
  <1>13. Sound(htable)
    BY <1>3, <1>5, <1>8, <1>10, <1>11, <1>12 DEF Sound
  <1>14. iter = NoIter
    BY DEF TableInit
  <1> QED
    BY <1>13, <1>14 DEF Right, IterGood

(* Insertion while there is an iterator.                                    *)
LEMMA InsertedGood ==
    ASSUME NEW h, Sound(h), NEW e \in Entry, e.entry \notin Addresses(h.table),
           NEW it \in Iterators, IterRight(h.table, it), it.wrote # "removed"
    PROVE  LET to == [it EXCEPT !.wrote = "inserted"]
           IN  to \in Iterators /\ IterRight(Linked(h, e).table, to)
  <1> DEFINE n == SizeOf(h)
             t == h.table
             i == indexFor(n, e.key)
             c == Cons(e, t[i])
             u == Linked(h, e).table
             to == [it EXCEPT !.wrote = "inserted"]
  <1>1. n \in Nat /\ t \in Chains(n) /\ DOMAIN t = 0 .. n - 1
    BY SoundFacts
  <1>2. i \in 0 .. n - 1 /\ Replaced(t, u, i, c, n) /\ Addresses(u) = Addresses(t) \cup {e.entry}
    BY LinkedSound
  <1>3. /\ to \in Iterators /\ to.wrote = "inserted" /\ to.seen = it.seen /\ to.owed = it.owed
        /\ to.entry = it.entry /\ to.index = it.index
    BY DEF Iterators
  <1> HIDE DEF n, t, i, c, u, to
  <1>4. IterRight(t, it) /\ e.entry \notin Addresses(t)
    BY DEF t
  <1>5. DOMAIN u = 0 .. n - 1 /\ \A j \in 0 .. n - 1 : DOMAIN u[j] = 1 .. Len(u[j])
    BY <1>2 DEF Replaced, Chains
  <1>6. \A k, l \in DOMAIN to.seen : to.seen[k] = to.seen[l] => k = l
    BY <1>3, <1>4 DEF IterRight
  <1>7. ToSet(it.seen) \subseteq Addresses(t) /\ e.entry \notin ToSet(it.seen)
    BY <1>4 DEF IterRight
  <1>8. to.wrote # "removed" => ToSet(to.seen) \subseteq Addresses(u)
    BY <1>2, <1>3, <1>7
  <1>9. CASE it.entry = NULL
    BY <1>3, <1>4, <1>6, <1>8, <1>9 DEF IterRight, u, t, to
  <1>10. CASE it.entry # NULL
    <2>1. it.index \in 0 .. n - 1 /\ \E p \in DOMAIN t[it.index] : AtPlace(t, it, p)
      BY <1>1, <1>4, <1>10 DEF IterRight
    <2>2. PICK p \in DOMAIN t[it.index] : AtPlace(t, it, p)
      BY <2>1
    <2>3. p \in 1 .. Len(t[it.index])
      BY <1>1, <2>1, <2>2 DEF Chains
    <2>4. PICK q \in 1 .. Len(u[it.index]) :
              /\ u[it.index][q].entry = t[it.index][p].entry
              /\ EntriesAhead(t, it.index, p) \subseteq EntriesAhead(u, it.index, q)
              /\ EntriesAhead(u, it.index, q) \subseteq EntriesAhead(t, it.index, p) \cup {e.entry}
      <3>1. Replaced(t, u, i, Cons(e, t[i]), n)
        BY <1>2 DEF c
      <3>2. \A j \in 0 .. n - 1 : \A k \in 1 .. Len(t[j]) : StillAt(t, u, j, k, e.entry)
        BY <1>1, <1>2, <3>1, AheadInserted
      <3> QED
        BY <2>1, <2>3, <3>2 DEF StillAt
    <2>5. AtPlace(u, to, q)
      <3>1. /\ t[it.index][p].entry = it.entry
            /\ it.owed \subseteq ToSet(it.seen) \cup EntriesAhead(t, it.index, p)
            /\ ToSet(it.seen) \cap EntriesAhead(t, it.index, p) = {}
            /\ it.entry \in ToSet(it.seen)
        BY <2>2 DEF AtPlace
      <3>2. it.owed \subseteq ToSet(it.seen) \cup EntriesAhead(u, it.index, q)
        BY <2>4, <3>1
      <3>3. ToSet(it.seen) \cap EntriesAhead(u, it.index, q) = {}
        BY <1>7, <2>4, <3>1
      <3> QED
        BY <1>3, <2>4, <3>1, <3>2, <3>3 DEF AtPlace
    <2>6. to.index \in DOMAIN u /\ q \in DOMAIN u[to.index]
      BY <1>3, <1>5, <2>1, <2>4
    <2>7. IterRight(u, to)
      BY <1>3, <1>6, <1>8, <1>10, <2>5, <2>6 DEF IterRight
    <2> QED
      BY <1>3, <2>7 DEF u, to
  <1> QED
    BY <1>9, <1>10

(* A change of a value while there is an iterator.                          *)
LEMMA StoredGood ==
    ASSUME NEW n \in Nat, NEW t \in Chains(n), NEW i \in 0 .. n - 1, NEW x,
           SameEntries(t[i], x), NEW u, Replaced(t, u, i, x, n), Addresses(u) = Addresses(t),
           NEW it, IterRight(t, it)
    PROVE  IterRight(u, it)
  <1>1. u \in Chains(n) /\ DOMAIN t = 0 .. n - 1 /\ DOMAIN u = 0 .. n - 1
    BY DEF Replaced, Chains
  <1>2. ASSUME NEW j \in 0 .. n - 1, NEW p \in Nat
        PROVE  /\ Len(u[j]) = Len(t[j]) /\ \A m \in 1 .. Len(t[j]) : u[j][m].entry = t[j][m].entry
               /\ EntriesAhead(u, j, p) = EntriesAhead(t, j, p)
    <2>1. SameEntries(t[j], u[j]) /\ EntriesAhead(u, j, p) = EntriesAhead(t, j, p)
      BY AheadStored
    <2> QED
      BY <2>1 DEF SameEntries
  <1>3. \A j \in 0 .. n - 1 : DOMAIN u[j] = 1 .. Len(u[j]) /\ DOMAIN t[j] = 1 .. Len(t[j])
                              /\ Len(t[j]) \in Nat
    BY <1>1 DEF Chains
  <1>4. CASE it.entry = NULL
    BY <1>4 DEF IterRight
  <1>5. CASE it.entry # NULL
    <2>1. it.index \in 0 .. n - 1 /\ \E p \in DOMAIN t[it.index] : AtPlace(t, it, p)
      BY <1>1, <1>5 DEF IterRight
    <2>2. PICK p \in DOMAIN t[it.index] : AtPlace(t, it, p)
      BY <2>1
    <2> DEFINE j == it.index
    <2>3. p \in 1 .. Len(t[j]) /\ p \in Nat /\ p \in DOMAIN u[j] /\ (p # 1 => p - 1 \in 1 .. Len(t[j]))
      <3>1. DOMAIN u[j] = 1 .. Len(t[j]) /\ DOMAIN t[j] = 1 .. Len(t[j]) /\ Len(t[j]) \in Nat
        BY <1>2, <1>3, <2>1
      <3> QED
        BY <2>2, <3>1
    <2>4. EntriesAhead(u, j, p) = EntriesAhead(t, j, p) /\ u[j][p].entry = t[j][p].entry
          /\ (p # 1 => u[j][p - 1].entry = t[j][p - 1].entry)
      BY <1>2, <2>1, <2>3
    <2>5. AtPlace(u, it, p)
      BY <2>2, <2>4 DEF AtPlace
    <2> QED
      BY <1>1, <1>5, <2>1, <2>3, <2>5 DEF IterRight
  <1> QED
    BY <1>4, <1>5

----------------------------------------------------------------------------
(* The steps. *)

(* The chain of a key.                                                      *)
LEMMA ChainIs ==
    ASSUME Sound(htable), NEW key \in Keys
    PROVE  /\ Index(key) = indexFor(SizeOf(htable), key)
           /\ Index(key) \in 0 .. SizeOf(htable) - 1 /\ Chain(key) = htable.table[Index(key)]
           /\ Chain(key) \in Seq(Entry) /\ Apart(Chain(key))
  <1> DEFINE n == SizeOf(htable)
  <1>1. /\ n \in Nat \ {0} /\ Length(htable) = n
        /\ \A i \in 0 .. n - 1 : htable.table[i] \in Seq(Entry) /\ Apart(htable.table[i])
    BY SoundFacts
  <1>2. Index(key) = indexFor(n, key)
    BY <1>1 DEF Index
  <1> HIDE DEF n
  <1>3. indexFor(n, key) \in 0 .. n - 1
    BY <1>1, IndexIs
  <1>4. Chain(key) = htable.table[Index(key)]
    BY DEF Chain
  <1> QED
    BY <1>1, <1>2, <1>3, <1>4 DEF n

(* A table that may grow is one that has no iterator.                       *)
LEMMA GrownRight ==
    ASSUME Right(htable, iter), MayInsert, NEW h \in IF Full THEN Expand(htable) ELSE {htable}
    PROVE  /\ Sound(h) /\ Addresses(h.table) = Addresses(htable.table)
           /\ SameOrder(htable, h) \/ Reversed(htable, h)
           /\ iter # NoIter => h = htable
  <1>1. Sound(htable)
    BY DEF Right
  <1>2. CASE ~Full
    BY <1>1, <1>2 DEF SameOrder
  <1>3. CASE Full
    <2>1. h \in Expand(htable)
      BY <1>3
    <2>2. /\ Sound(h) /\ Addresses(h.table) = Addresses(htable.table)
          /\ SameOrder(htable, h) \/ Reversed(htable, h)
          /\ htable.prime_index = Len(primes) => h = htable
      BY <1>1, <2>1, ExpandSound
    <2>3. iter # NoIter => htable.prime_index = Len(primes)
      <3>1. htable.prime_index \in 1 .. Len(primes) /\ Len(primes) \in Nat
        BY <1>1, PrimesAre DEF Sound
      <3> QED
        BY <1>3, <3>1 DEF MayInsert, CanGrow
    <2> QED
      BY <2>2, <2>3
  <1> QED
    BY <1>2, <1>3

LEMMA InsertStep ==
    ASSUME Right(htable, iter), NEW key \in Keys, NEW value \in Values, pet_htable_insert(key, value)
    PROVE  Right(htable', iter')
  <1>1. MayInsert
    BY DEF pet_htable_insert
  <1>2. PICK h \in IF Full THEN Expand(htable) ELSE {htable},
             new_entry \in Entries \ Addresses(htable.table) :
                htable' = Linked(h, [entry |-> new_entry, key |-> key, value |-> value])
    BY DEF pet_htable_insert
  <1> DEFINE e == [entry |-> new_entry, key |-> key, value |-> value]
  <1>3. e \in Entry /\ e.entry = new_entry /\ htable' = Linked(h, e)
    BY <1>2 DEF Entry
  <1> HIDE DEF e
  <1>4. /\ Sound(h) /\ Addresses(h.table) = Addresses(htable.table)
        /\ iter # NoIter => h = htable
    BY <1>1, <1>2, GrownRight
  <1>5. e.entry \notin Addresses(h.table)
    BY <1>3, <1>4
  <1>6. Sound(htable')
    BY <1>3, <1>4, <1>5, LinkedSound
  <1>7. CASE iter = NoIter
    <2>1. iter' = NoIter
      BY <1>7 DEF pet_htable_insert
    <2> QED
      BY <1>6, <2>1 DEF Right, IterGood
  <1>8. CASE iter # NoIter
    <2>1. iter \in Iterators /\ IterRight(h.table, iter) /\ iter.wrote # "removed"
      BY <1>1, <1>4, <1>8 DEF Right, IterGood, MayInsert
    <2>2. iter' = [iter EXCEPT !.wrote = "inserted"]
      BY <1>8 DEF pet_htable_insert
    <2>3. [iter EXCEPT !.wrote = "inserted"] \in Iterators
          /\ IterRight(Linked(h, e).table, [iter EXCEPT !.wrote = "inserted"])
      BY <1>3, <1>4, <1>5, <2>1, InsertedGood
    <2> QED
      BY <1>3, <1>6, <2>2, <2>3 DEF Right, IterGood
  <1> QED
    BY <1>7, <1>8

LEMMA InsertFailsStep ==
    ASSUME Right(htable, iter), InsertFails
    PROVE  Right(htable', iter')
  <1>1. MayInsert /\ htable' \in (IF Full THEN Expand(htable) ELSE {htable}) /\ iter' = iter
    BY DEF InsertFails
  <1>2. Sound(htable') /\ (iter # NoIter => htable' = htable)
    BY <1>1, GrownRight
  <1> QED
    BY <1>1, <1>2 DEF Right, IterGood

LEMMA StoreStep ==
    ASSUME Right(htable, iter), NEW key \in Keys, NEW v \in Values, Find(key) # 0, Store(key, v),
           iter' = iter
    PROVE  Right(htable', iter')
  <1>1. Sound(htable)
    BY DEF Right
  <1> DEFINE i == Index(key)
             p == Find(key)
             n == SizeOf(htable)
             t == htable.table
  <1>2. i \in 0 .. n - 1 /\ Chain(key) = t[i] /\ Chain(key) \in Seq(Entry)
    BY <1>1, ChainIs
  <1>3. p \in 1 .. Len(t[i])
    <2>1. \A s \in Seq(Entry) : s = Chain(key) => p \in 1 .. Len(s)
      BY FindIs
    <2> QED
      BY <1>2, <2>1
  <1>4. htable' = Stored(htable, i, p, v)
    BY DEF Store, Stored
  <1> HIDE DEF i, p
  <1>5. /\ Sound(htable') /\ SizeOf(htable') = n /\ Addresses(htable'.table) = Addresses(t)
        /\ \E x : ValueAt(t[i], x, p, v) /\ Replaced(t, htable'.table, i, x, n)
    <2>1. ASSUME NEW g, g = Stored(htable, i, p, v)
          PROVE  /\ Sound(g) /\ SizeOf(g) = n /\ Addresses(g.table) = Addresses(t)
                 /\ \E x : ValueAt(t[i], x, p, v) /\ Replaced(t, g.table, i, x, n)
      <3>1. i \in 0 .. SizeOf(htable) - 1 /\ p \in 1 .. Len(htable.table[i])
        BY <1>2, <1>3
      <3> QED
        BY <1>1, <2>1, <3>1, StoredSound
    <2> QED
      BY <1>4, <2>1
  <1>6. PICK x : ValueAt(t[i], x, p, v) /\ Replaced(t, htable'.table, i, x, n)
    BY <1>5
  <1>7. n \in Nat /\ t \in Chains(n) /\ t[i] \in Seq(Entry) /\ SameEntries(t[i], x)
    <2>1. n \in Nat /\ t \in Chains(n) /\ t[i] \in Seq(Entry)
      BY <1>1, <1>2, SoundFacts
    <2>2. \A j \in 1 .. Len(t[i]) : t[i][j] \in Entry
      BY <2>1
    <2>3. SameEntries(t[i], x)
      BY <1>6, <2>2 DEF ValueAt, SameEntries, Entry
    <2> QED
      BY <2>1, <2>3
  <1>8. CASE iter = NoIter
    BY <1>5, <1>8 DEF Right, IterGood
  <1>9. CASE iter # NoIter
    <2>1. iter \in Iterators /\ IterRight(t, iter)
      BY <1>9 DEF Right, IterGood
    <2> HIDE DEF n, t
    <2>2. IterRight(htable'.table, iter)
      BY <1>2, <1>5, <1>6, <1>7, <2>1, StoredGood
    <2> QED
      BY <1>5, <2>1, <2>2 DEF Right, IterGood
  <1> QED
    BY <1>8, <1>9

(* The values that Update stores.                                           *)
LEMMA UpdateStores ==
    ASSUME Right(htable, iter), NEW key \in Keys, NEW value \in Values, Update(key, value)
    PROVE  \E v \in Values : Store(key, v)
  <1>1. Sound(htable) /\ Find(key) # 0
    BY DEF Right, Update
  <1>2. Chain(key) \in Seq(Entry)
    BY <1>1, ChainIs
  <1>3. Found(key).value \in Values
    <2>1. \A s \in Seq(Entry) : s = Chain(key) => Find(key) \in 1 .. Len(s)
      BY <1>1, FindIs
    <2>2. Found(key) \in Entry
      BY <1>2, <2>1 DEF Found
    <2> QED
      BY <2>2 DEF Entry
  <1> DEFINE old == Found(key).value
  <1> HIDE DEF old
  <1>4. ValMod \in Nat \ {0} /\ old \in 0 .. ValMod - 1 /\ value \in 0 .. ValMod - 1
    BY <1>3, KeysAssumption DEF Values, old
  <1>5. (old + value) % ValMod \in Values /\ (old + ValMod - value) % ValMod \in Values
    <2>1. old + value \in Int /\ old + ValMod - value \in Int
      BY <1>4
    <2>2. \A z \in Int : z % ValMod \in 0 .. ValMod - 1
      BY <1>4
    <2> QED
      BY <2>1, <2>2 DEF Values
  <1> QED
    BY <1>5 DEF Update, old

LEMMA UpdateStep ==
    ASSUME Right(htable, iter), NEW key \in Keys, NEW value \in Values, Update(key, value)
    PROVE  Right(htable', iter')
  <1>1. PICK v \in Values : Store(key, v)
    BY UpdateStores
  <1>2. Find(key) # 0 /\ iter' = iter
    BY DEF Update
  <1> QED
    BY <1>1, <1>2, StoreStep

LEMMA RemoveStep ==
    ASSUME Right(htable, iter), NEW key \in Keys, pet_htable_remove(key)
    PROVE  Right(htable', iter')
  <1>1. Sound(htable) /\ Find(key) # 0 /\ iter' = NoIter
    BY DEF Right, pet_htable_remove
  <1> DEFINE i == Index(key)
             p == Find(key)
             n == SizeOf(htable)
             t == htable.table
  <1>2. i \in 0 .. n - 1 /\ Chain(key) = t[i] /\ Chain(key) \in Seq(Entry)
    BY <1>1, ChainIs
  <1>3. p \in 1 .. Len(t[i])
    <2>1. \A s \in Seq(Entry) : s = Chain(key) => p \in 1 .. Len(s)
      BY <1>1, FindIs
    <2> QED
      BY <1>2, <2>1
  <1>4. htable' = Unlinked(htable, i, p)
    BY DEF pet_htable_remove, Unlinked, Dropped, RemoveAt, Before, After
  <1> HIDE DEF i, p
  <1>6. Sound(htable')
    BY <1>1, <1>2, <1>3, <1>4, DroppedSound
  <1> QED
    BY <1>1, <1>6 DEF Right, IterGood

LEMMA CreateStep ==
    ASSUME Right(htable, iter), pet_htable_create_iter
    PROVE  Right(htable', iter')
  <1> DEFINE n == SizeOf(htable)
             t == htable.table
             f == FirstFrom(0)
             it == [index |-> 0, entry |-> NULL, parent |-> NULL, wrote |-> "nothing",
                    owed |-> Addresses(t), seen |-> <<>>]
  <1>1. Sound(htable)
    BY DEF Right
  <1>2. n \in Nat \ {0} /\ n \in Nat /\ t \in Chains(n) /\ Good(t, n)
    BY <1>1, SoundFacts DEF Sound
  <1>3. Addresses(t) \subseteq Entries
    <2> SUFFICES ASSUME NEW a \in Addresses(t) PROVE a \in Entries
      OBVIOUS
    <2>1. \A b : b \in Addresses(t) <=> \E i \in 0 .. n - 1 : b \in AddressesOf(t[i])
      BY <1>2, AddressesAre
    <2>2. PICK i \in 0 .. n - 1 : a \in AddressesOf(t[i])
      BY <2>1
    <2>3. t[i] \in Seq(Entry)
      BY <1>2 DEF Chains
    <2>4. PICK m \in 1 .. Len(t[i]) : a = t[i][m].entry
      BY <2>2, <2>3, AddressIs
    <2>5. t[i][m] \in Entry
      BY <2>3
    <2> QED
      BY <2>4, <2>5 DEF Entry
  <1>4. it \in Iterators
    BY <1>3 DEF Iterators
  <1>5. Ready(t, it, Addresses(t))
    BY DEF Ready, ToSet
  <1>6. iter' = MovedTo(it, f, HeadOf(f), NULL) /\ htable' = htable
    BY DEF pet_htable_create_iter
  <1>7. /\ f \in 0 .. n /\ f \in Nat /\ \A j \in 0 .. f - 1 : t[j] = <<>>
        /\ IF f = n THEN HeadOf(f) = NULL ELSE t[f] # <<>> /\ HeadOf(f) = t[f][1].entry
    BY <1>1, <1>2, FirstFromIs
  <1>8. it.wrote = "nothing"
    OBVIOUS
  <1> HIDE DEF it, n, t, f
  <1>9. /\ f = n => Addresses(t) = {}
        /\ f < n /\ t[f] # <<>> => /\ 1 \in 1 .. Len(t[f])
                                   /\ Addresses(t) = {t[f][1].entry} \cup EntriesAhead(t, f, 1)
    <2>1. FromChain(t, n, 0) = Addresses(t)
      BY <1>2, FromFirst
    <2>2. 0 \in Nat /\ 0 <= f /\ f <= n
      BY <1>2, <1>7
    <2>3. /\ f = n => FromChain(t, n, 0) = {}
          /\ f < n /\ t[f] # <<>> => /\ 1 \in 1 .. Len(t[f])
                                     /\ FromChain(t, n, 0) = {t[f][1].entry} \cup EntriesAhead(t, f, 1)
      BY <1>2, <1>7, <2>2, FromIs
    <2> QED
      BY <2>1, <2>3
  <1>10. CASE f = n
    <2>1. HeadOf(f) = NULL /\ Ready(t, it, {})
      BY <1>5, <1>7, <1>9, <1>10
    <2>2. Moved(it, MovedTo(it, f, NULL, NULL), f, NULL, NULL)
      BY <1>4, <1>7, MovedIs
    <2>3. IterRight(t, MovedTo(it, f, NULL, NULL))
      BY <1>4, <1>7, <2>1, <2>2, ArrivesAtEnd
    <2>4. MovedTo(it, f, NULL, NULL) \in Iterators
      BY <2>2 DEF Moved
    <2> QED
      BY <1>1, <1>6, <2>1, <2>3, <2>4 DEF Right, IterGood, t
  <1>11. CASE f # n
    <2> DEFINE a == t[f][1].entry
    <2>1. /\ f \in 0 .. n - 1 /\ HeadOf(f) = a /\ 1 \in 1 .. Len(t[f])
          /\ Addresses(t) = {a} \cup EntriesAhead(t, f, 1)
      BY <1>2, <1>7, <1>9, <1>11
    <2>2. a \in Entries
      BY <1>3, <2>1
    <2> HIDE DEF a
    <2>3. a = t[f][1].entry
      BY DEF a
    <2>4. Moved(it, MovedTo(it, f, a, NULL), f, a, NULL)
      BY <1>4, <1>7, <2>2, MovedIs
    <2>5. IterRight(t, MovedTo(it, f, a, NULL))
      <3> DEFINE X == Addresses(t)
      <3> HIDE DEF X
      <3>1. Ready(t, it, X) /\ X = {a} \cup EntriesAhead(t, f, 1)
        BY <1>5, <2>1 DEF X
      <3>2. NULL = IF 1 = 1 THEN NULL ELSE t[f][1 - 1].entry
        OBVIOUS
      <3> QED
        BY <1>2, <1>4, <2>1, <2>2, <2>3, <2>4, <3>1, <3>2, Arrives
    <2>6. MovedTo(it, f, a, NULL) \in Iterators
      BY <2>4 DEF Moved
    <2> QED
      BY <1>1, <1>6, <2>1, <2>5, <2>6 DEF Right, IterGood, t
  <1> QED
    BY <1>10, <1>11

LEMMA PlaceEntry ==
    ASSUME NEW n \in Nat, NEW t \in Chains(n), NEW i \in 0 .. n - 1, NEW p \in 1 .. Len(t[i])
    PROVE  t[i][p] \in Entry /\ t[i][p].entry \in Entries
  <1>1. t[i][p] \in Entry
    BY DEF Chains
  <1> QED
    BY <1>1 DEF Entry

(* An iterator at an entry has a place.                                     *)
LEMMA HasPlace ==
    ASSUME Right(htable, iter), iter # NoIter, iter.entry # NULL
    PROVE  LET t == htable.table n == SizeOf(htable)
           IN  /\ iter \in Iterators /\ iter.index \in 0 .. n - 1
               /\ \E p \in 1 .. Len(t[iter.index]) :
                     /\ AtPlace(t, iter, p) /\ t[iter.index][p].entry = iter.entry
                     /\ Ready(t, iter, EntriesAhead(t, iter.index, p))
  <1> DEFINE n == SizeOf(htable)
             t == htable.table
             i == iter.index
  <1>1. Sound(htable) /\ iter \in Iterators /\ IterRight(t, iter)
    BY DEF Right, IterGood
  <1>2. n \in Nat /\ t \in Chains(n) /\ DOMAIN t = 0 .. n - 1
    BY <1>1, SoundFacts
  <1>3. i \in 0 .. n - 1 /\ \E p \in DOMAIN t[i] : AtPlace(t, iter, p)
    BY <1>1, <1>2 DEF IterRight
  <1>4. PICK p \in DOMAIN t[i] : AtPlace(t, iter, p)
    BY <1>3
  <1>5. p \in 1 .. Len(t[i])
    BY <1>2, <1>3, <1>4 DEF Chains
  <1>6. t[i][p].entry = iter.entry
    BY <1>4 DEF AtPlace
  <1>7. Ready(t, iter, EntriesAhead(t, i, p))
    BY <1>1, <1>4, PlaceReady
  <1> QED
    BY <1>1, <1>3, <1>4, <1>5, <1>6, <1>7

LEMMA AdvanceStep ==
    ASSUME Right(htable, iter), pet_htable_iter_advance
    PROVE  Right(htable', iter')
  <1> DEFINE n == SizeOf(htable)
             t == htable.table
             i == iter.index
             to == MovedTo(iter, Advanced.index, Advanced.entry, Advanced.parent)
  <1>1. Sound(htable) /\ iter # NoIter /\ iter.entry # NULL /\ htable' = htable /\ iter' = to
    BY DEF Right, pet_htable_iter_advance
  <1>2. n \in Nat \ {0} /\ n \in Nat /\ t \in Chains(n) /\ Good(t, n)
    BY <1>1, SoundFacts DEF Sound
  <1>3. iter \in Iterators /\ i \in 0 .. n - 1
    BY <1>1, HasPlace
  <1>4. PICK p \in 1 .. Len(t[i]) :
           t[i][p].entry = iter.entry /\ Ready(t, iter, EntriesAhead(t, i, p))
    BY <1>1, HasPlace
  <1>5. \/ /\ Advanced.index \in Nat /\ Advanced.entry = NULL /\ Advanced.parent = NULL
           /\ EntriesAhead(t, i, p) = {}
        \/ /\ p + 1 \in 1 .. Len(t[i]) /\ Advanced.index = i
           /\ Advanced.entry = t[i][p + 1].entry /\ Advanced.parent = iter.entry
           /\ EntriesAhead(t, i, p) = {t[i][p + 1].entry} \cup EntriesAhead(t, i, p + 1)
        \/ \E f \in 0 .. n - 1 :
              /\ f > i /\ 1 \in 1 .. Len(t[f]) /\ Advanced.index = f
              /\ Advanced.entry = t[f][1].entry /\ Advanced.parent = NULL
              /\ EntriesAhead(t, i, p) = {t[f][1].entry} \cup EntriesAhead(t, f, 1)
    <2>1. ASSUME NEW k \in 0 .. n - 1, iter.index = k, NEW q \in 1 .. Len(t[k]), t[k][q].entry = iter.entry
          PROVE  Goes(t, n, k, q, iter.entry, Advanced)
      BY <1>1, <2>1, AdvancedIs
    <2>2. Goes(t, n, i, p, iter.entry, Advanced)
      BY <1>3, <1>4, <2>1
    <2> QED
      BY <2>2 DEF Goes
  <1> DEFINE X == EntriesAhead(t, i, p)
             index == Advanced.index
             entry == Advanced.entry
             parent == Advanced.parent
  <1>6. Ready(t, iter, X) /\ to = MovedTo(iter, index, entry, parent)
    BY <1>4
  <1> SUFFICES to \in Iterators /\ IterRight(t, to)
    BY <1>1 DEF Right, IterGood
  <1>7. CASE index \in Nat /\ entry = NULL /\ parent = NULL /\ X = {}
    <2> HIDE DEF index, entry, parent, to, X, t
    <2>1. Moved(iter, MovedTo(iter, index, NULL, NULL), index, NULL, NULL)
      BY <1>3, <1>7, MovedIs
    <2>2. Moved(iter, to, index, NULL, NULL) /\ Ready(t, iter, {})
      BY <1>6, <1>7, <2>1
    <2>3. IterRight(t, to)
      BY <1>3, <1>7, <2>2, ArrivesAtEnd
    <2> QED
      BY <2>2, <2>3 DEF Moved
  <1>8. ASSUME NEW k \in 0 .. n - 1, NEW q \in 1 .. Len(t[k]), index = k, entry = t[k][q].entry,
               X = {t[k][q].entry} \cup EntriesAhead(t, k, q), parent \in Entries \cup {NULL},
               parent = IF q = 1 THEN NULL ELSE t[k][q - 1].entry
        PROVE  to \in Iterators /\ IterRight(t, to)
    <2>1. entry \in Entries /\ k \in Nat
      BY <1>2, <1>8, PlaceEntry
    <2> HIDE DEF index, entry, parent, to, X, t
    <2>2. Moved(iter, MovedTo(iter, k, entry, parent), k, entry, parent)
      BY <1>3, <1>8, <2>1, MovedIs
    <2>3. Moved(iter, to, k, entry, parent)
      BY <1>6, <1>8, <2>2
    <2>4. IterRight(t, to)
      <3>1. X = {entry} \cup EntriesAhead(t, k, q)
        BY <1>8
      <3> QED
        BY <1>2, <1>3, <1>6, <1>8, <2>1, <2>3, <3>1, Arrives
    <2> QED
      BY <2>3, <2>4 DEF Moved
  <1>9. CASE /\ p + 1 \in 1 .. Len(t[i]) /\ index = i
             /\ entry = t[i][p + 1].entry /\ parent = iter.entry
             /\ X = {t[i][p + 1].entry} \cup EntriesAhead(t, i, p + 1)
    <2>1. p + 1 # 1 /\ (p + 1) - 1 = p /\ p \in 1 .. Len(t[i])
      <3>1. Len(t[i]) \in Nat
        BY <1>2, <1>3 DEF Chains
      <3> QED
        BY <3>1
    <2>2. parent \in Entries \cup {NULL}
      BY <1>3, <1>9 DEF Iterators
    <2> DEFINE q == p + 1
    <2>3. parent = IF q = 1 THEN NULL ELSE t[i][q - 1].entry
      BY <1>4, <1>9, <2>1
    <2> HIDE DEF q, to, index, entry, parent, X, t
    <2> QED
      BY <1>3, <1>8, <1>9, <2>2, <2>3 DEF q
  <1>10. CASE \E f \in 0 .. n - 1 :
                 /\ f > i /\ 1 \in 1 .. Len(t[f]) /\ index = f
                 /\ entry = t[f][1].entry /\ parent = NULL
                 /\ X = {t[f][1].entry} \cup EntriesAhead(t, f, 1)
    BY <1>8, <1>10
  <1> QED
    BY <1>5, <1>7, <1>9, <1>10

LEMMA SearchStep ==
    ASSUME Right(htable, iter), NEW key \in Keys, pet_htable_iter_search(key)
    PROVE  Right(htable', iter')
  <1> DEFINE n == SizeOf(htable)
             t == htable.table
             i == Index(key)
             p == Find(key)
             it == [iter EXCEPT !.owed = {}, !.seen = <<>>]
             parent == IF p = 1 THEN NULL ELSE t[i][p - 1].entry
             entry == t[i][p].entry
  <1>1. Sound(htable) /\ p # 0 /\ htable' = htable /\ iter \in Iterators
    BY DEF Right, IterGood, pet_htable_iter_search
  <1>2. n \in Nat \ {0} /\ n \in Nat /\ t \in Chains(n) /\ Good(t, n)
    BY <1>1, SoundFacts DEF Sound
  <1>3. i \in 0 .. n - 1 /\ Chain(key) = t[i] /\ Chain(key) \in Seq(Entry)
    BY <1>1, ChainIs
  <1>4. p \in 1 .. Len(t[i])
    <2>1. \A s \in Seq(Entry) : s = Chain(key) => p \in 1 .. Len(s)
      BY <1>1, FindIs
    <2> QED
      BY <1>3, <2>1
  <1>5. iter' = MovedTo(it, i, entry, parent)
    BY <1>3 DEF pet_htable_iter_search
  <1>6. it \in Iterators /\ it.owed = {} /\ it.seen = <<>>
    <2>1. \A owed \in SUBSET Entries, seen \in Seq(Entries) :
             LET to == [iter EXCEPT !.owed = owed, !.seen = seen]
             IN  to \in Iterators /\ to.owed = owed /\ to.seen = seen
      BY <1>1 DEF Iterators
    <2>2. {} \in SUBSET Entries /\ <<>> \in Seq(Entries)
      OBVIOUS
    <2> QED
      BY <2>1, <2>2
  <1> HIDE DEF it, i, p, n, t
  <1>7. entry \in Entries
    BY <1>2, <1>3, <1>4, PlaceEntry
  <1>8. parent \in Entries \cup {NULL}
    <2>1. CASE p = 1
      BY <2>1
    <2>2. CASE p # 1
      <3>1. p - 1 \in 1 .. Len(t[i])
        BY <1>2, <1>3, <1>4, <2>2 DEF Chains
      <3>2. t[i][p - 1].entry \in Entries
        <4> DEFINE q == p - 1
        <4> HIDE DEF q
        <4>1. q \in 1 .. Len(t[i])
          BY <3>1 DEF q
        <4>2. t[i][q].entry \in Entries
          BY <1>2, <1>3, <4>1, PlaceEntry
        <4> QED
          BY <4>2 DEF q
      <3> QED
        BY <2>2, <3>2
    <2> QED
      BY <2>1, <2>2
  <1> DEFINE X == {entry} \cup EntriesAhead(t, i, p)
  <1>9. Ready(t, it, X)
    BY <1>6 DEF Ready, ToSet
  <1>10. parent = IF p = 1 THEN NULL ELSE t[i][p - 1].entry
    OBVIOUS
  <1>11. entry = t[i][p].entry /\ X = {entry} \cup EntriesAhead(t, i, p) /\ i \in Nat
    BY <1>2, <1>3
  <1> HIDE DEF entry, parent, X
  <1>12. Moved(it, MovedTo(it, i, entry, parent), i, entry, parent)
    BY <1>6, <1>7, <1>8, <1>11, MovedIs
  <1>13. Moved(it, iter', i, entry, parent)
    BY <1>5, <1>12
  <1>14. IterRight(t, iter')
    BY <1>2, <1>3, <1>4, <1>6, <1>7, <1>8, <1>9, <1>10, <1>11, <1>13, Arrives
  <1> QED
    BY <1>1, <1>13, <1>14 DEF Right, IterGood, Moved, t

(* What pet_htable_iter_remove does to the table: the entry at the          *)
(* iterator's place is unlinked.                                            *)
LEMMA IterRemoves ==
    ASSUME Right(htable, iter), pet_htable_iter_remove, NEW p \in 1 .. Len(htable.table[iter.index]),
           AtPlace(htable.table, iter, p)
    PROVE  htable' = Unlinked(htable, iter.index, p)
  <1> DEFINE n == SizeOf(htable)
             t == htable.table
             i == iter.index
             s == t[i]
             before == IF iter.parent = NULL THEN 0 ELSE PlaceOf(iter.parent)
  <1>1. Sound(htable) /\ iter # NoIter /\ iter.entry # NULL /\ iter.wrote # "inserted"
    BY DEF Right, pet_htable_iter_remove
  <1>2. n \in Nat /\ t \in Chains(n) /\ i \in 0 .. n - 1
    BY <1>1, SoundFacts, HasPlace
  <1>3. s \in Seq(Entry) /\ Apart(s) /\ Len(s) \in Nat /\ s = IterChain
    BY <1>1, <1>2, SoundFacts DEF IterChain
  <1>4. ASSUME NEW q \in 1 .. Len(s), NEW a, a = s[q].entry PROVE PlaceOf(a) = q
    <2> HIDE DEF s
    <2> QED
      BY <1>3, <1>4, PlaceIs
  <1>5. PlaceOf(iter.entry) = p
    BY <1>4 DEF AtPlace
  <1>6. before = p - 1
    <2>1. iter.parent = IF p = 1 THEN NULL ELSE s[p - 1].entry
      BY <1>1 DEF AtPlace
    <2>2. CASE p = 1
      BY <2>1, <2>2
    <2>3. CASE p # 1
      <3> DEFINE q == p - 1
      <3>1. q \in 1 .. Len(s)
        BY <1>3, <2>3
      <3>2. iter.parent = s[q].entry
        BY <2>1, <2>3
      <3> HIDE DEF q
      <3>3. s[q].entry \in Entries
        BY <1>2, <3>1, PlaceEntry
      <3>4. iter.parent # NULL
        BY <3>2, <3>3, KeysAssumption
      <3>5. PlaceOf(iter.parent) = q
        BY <1>4, <3>1, <3>2
      <3> QED
        BY <3>4, <3>5 DEF q
    <2> QED
      BY <2>2, <2>3
  <1>7. htable' = [htable EXCEPT
                      !.table[i] = SubSeq(@, 1, before)
                                      \o SubSeq(@, PlaceOf(iter.entry) + 1, Len(@)),
                      !.entry_count = @ - 1]
    BY DEF pet_htable_iter_remove
  <1>8. htable' = [htable EXCEPT
                      !.table[i] = SubSeq(@, 1, p - 1) \o SubSeq(@, p + 1, Len(@)),
                      !.entry_count = @ - 1]
    <2> HIDE DEF before
    <2> QED
      BY <1>5, <1>6, <1>7
  <1> QED
    BY <1>8 DEF Unlinked, Dropped, Before, After

LEMMA IterRemoveStep ==
    ASSUME Right(htable, iter), pet_htable_iter_remove
    PROVE  Right(htable', iter')
  <1> DEFINE n == SizeOf(htable)
             t == htable.table
             i == iter.index
             u == htable'.table
             index == Advanced.index
             entry == Advanced.entry
             parent == ParentAfter(Advanced.parent)
             it == [iter EXCEPT !.wrote = "removed"]
  <1>1. Sound(htable) /\ iter # NoIter /\ iter.entry # NULL /\ iter.wrote # "inserted"
    BY DEF Right, pet_htable_iter_remove
  <1>2. n \in Nat \ {0} /\ n \in Nat /\ t \in Chains(n)
    BY <1>1, SoundFacts
  <1>3. iter \in Iterators /\ i \in 0 .. n - 1
    BY <1>1, HasPlace
  <1>4. PICK p \in 1 .. Len(t[i]) : /\ AtPlace(t, iter, p) /\ t[i][p].entry = iter.entry
                                    /\ Ready(t, iter, EntriesAhead(t, i, p))
    BY <1>1, HasPlace
  <1> DEFINE c == Dropped(t[i], p)
             X == EntriesAhead(t, i, p)
  <1>5. htable' = Unlinked(htable, i, p)
    BY <1>4, IterRemoves
  <1>6. Sound(htable') /\ SizeOf(htable') = n /\ Replaced(t, u, i, c, n)
    <2>1. ASSUME NEW k \in 0 .. n - 1, NEW q \in 1 .. Len(t[k]), NEW g, g = Unlinked(htable, k, q)
          PROVE  Sound(g) /\ SizeOf(g) = n /\ Replaced(t, g.table, k, Dropped(t[k], q), n)
      BY <1>1, <2>1, DroppedSound
    <2> QED
      BY <1>3, <1>5, <2>1, Zenon
  <1>7. Good(u, n)
    BY <1>6 DEF Sound
  <1>8. /\ EntriesAhead(u, i, p) = EntriesAhead(t, i, p + 1)
        /\ \A j \in 0 .. n - 1 : \A q \in Nat : j > i => EntriesAhead(u, j, q) = EntriesAhead(t, j, q)
    <2>1. ASSUME NEW k \in 0 .. n - 1, NEW q \in 1 .. Len(t[k]),
                 NEW w, Replaced(t, w, k, Dropped(t[k], q), n)
          PROVE  KeptAhead(t, w, n, k, q)
      BY <1>2, <2>1, AheadDropped
    <2> HIDE DEF u, t, n
    <2>2. KeptAhead(t, u, n, i, p)
      BY <1>3, <1>6, <2>1
    <2> QED
      BY <2>2 DEF KeptAhead
  <1>9. /\ it \in Iterators /\ it.wrote = "removed" /\ it.seen = iter.seen /\ it.owed = iter.owed
    BY <1>3 DEF Iterators
  <1>10. Ready(u, it, X)
    <2> HIDE DEF u, it, X
    <2>1. Ready(t, iter, X)
      BY <1>4 DEF X
    <2> QED
      BY <1>9, <2>1 DEF Ready
  <1>11. Goes(t, n, i, p, iter.entry, Advanced)
    <2>1. ASSUME NEW k \in 0 .. n - 1, iter.index = k, NEW q \in 1 .. Len(t[k]), t[k][q].entry = iter.entry
          PROVE  Goes(t, n, k, q, iter.entry, Advanced)
      BY <1>1, <2>1, AdvancedIs
    <2> QED
      BY <1>3, <1>4, <2>1
  <1>12. iter.parent \in Entries \cup {NULL} /\ iter.entry \in Entries
    BY <1>1, <1>3 DEF Iterators
  <1>13. ASSUME index \in Nat, entry \in Entries \cup {NULL}, parent \in Entries \cup {NULL}
         PROVE  Moved(it, iter', index, entry, parent)
    <2> DEFINE z == MovedTo(iter, index, entry, parent)
    <2>1. iter' = [z EXCEPT !.wrote = "removed"]
      BY DEF pet_htable_iter_remove
    <2> HIDE DEF index, entry, parent
    <2>2. Moved(iter, z, index, entry, parent)
      BY <1>3, <1>13, MovedIs
    <2> HIDE DEF z
    <2>3. /\ z \in Iterators /\ z.index = index /\ z.entry = entry /\ z.parent = parent
          /\ z.owed = iter.owed
          /\ z.seen = IF entry = NULL THEN iter.seen ELSE Append(iter.seen, entry)
      BY <2>2 DEF Moved
    <2>4. /\ iter' \in Iterators /\ iter'.wrote = "removed" /\ iter'.index = z.index
          /\ iter'.entry = z.entry /\ iter'.parent = z.parent /\ iter'.owed = z.owed
          /\ iter'.seen = z.seen
      BY <2>1, <2>3 DEF Iterators
    <2> HIDE DEF it
    <2> QED
      BY <1>9, <2>3, <2>4 DEF Moved
  <1> SUFFICES iter' \in Iterators /\ IterRight(u, iter')
    BY <1>6 DEF Right, IterGood
  <1>14. CASE index \in Nat /\ entry = NULL /\ Advanced.parent = NULL /\ X = {}
    <2>1. parent \in Entries \cup {NULL}
      BY <1>12, <1>14 DEF ParentAfter
    <2>2. Moved(it, iter', index, entry, parent)
      BY <1>13, <1>14, <2>1
    <2> HIDE DEF index, entry, parent, it, X, u
    <2>3. Ready(u, it, {}) /\ Moved(it, iter', index, NULL, parent)
      BY <1>10, <1>14, <2>2
    <2>4. IterRight(u, iter')
      BY <1>9, <1>14, <2>1, <2>3, ArrivesAtEnd
    <2> QED
      BY <2>2, <2>4 DEF Moved
  <1>15. ASSUME NEW k \in 0 .. n - 1, NEW q \in 1 .. Len(u[k]), index = k, entry = u[k][q].entry,
                X = {u[k][q].entry} \cup EntriesAhead(u, k, q), parent \in Entries \cup {NULL},
                parent = IF q = 1 THEN NULL ELSE u[k][q - 1].entry
         PROVE  iter' \in Iterators /\ IterRight(u, iter')
    <2> HIDE DEF index, entry, parent, it, X, u
    <2>1. entry \in Entries /\ k \in Nat
      <3>1. u \in Chains(n)
        BY <1>6 DEF Replaced
      <3> QED
        BY <1>2, <1>15, <3>1, PlaceEntry
    <2>2. Moved(it, iter', k, entry, parent)
      BY <1>13, <1>15, <2>1
    <2>3. IterRight(u, iter')
      <3>1. X = {entry} \cup EntriesAhead(u, k, q)
        BY <1>15
      <3> QED
        BY <1>2, <1>7, <1>9, <1>10, <1>15, <2>1, <2>2, <3>1, Arrives
    <2> QED
      BY <2>2, <2>3 DEF Moved
  <1>16. u \in Chains(n) /\ u[i] = c /\ \A k \in 0 .. n - 1 : k # i => u[k] = t[k]
    BY <1>6 DEF Replaced
  <1>17. CASE /\ p + 1 \in 1 .. Len(t[i]) /\ index = i
              /\ entry = t[i][p + 1].entry /\ Advanced.parent = iter.entry
              /\ X = {t[i][p + 1].entry} \cup EntriesAhead(t, i, p + 1)
    <2>1. /\ Len(c) = Len(t[i]) - 1 /\ Len(t[i]) \in Nat
          /\ \A m \in 1 .. p - 1 : c[m] = t[i][m]
          /\ \A m \in p .. Len(t[i]) - 1 : c[m] = t[i][m + 1]
      <3>1. t[i] \in Seq(Entry) /\ p \in 1 .. Len(t[i])
        BY <1>2, <1>3 DEF Chains
      <3>2. ASSUME NEW s \in Seq(Entry), NEW q \in 1 .. Len(s)
            PROVE  /\ Len(Dropped(s, q)) = Len(s) - 1
                   /\ \A m \in 1 .. q - 1 : Dropped(s, q)[m] = s[m]
                   /\ \A m \in q .. Len(s) - 1 : Dropped(s, q)[m] = s[m + 1]
        BY DroppedIs
      <3>3. Len(t[i]) \in Nat
        BY <3>1
      <3> QED
        BY <3>1, <3>2, <3>3
    <2> HIDE DEF c
    <2>2. p \in 1 .. Len(u[i]) /\ u[i][p] = t[i][p + 1]
      BY <1>16, <1>17, <2>1
    <2>3. parent = iter.parent /\ parent \in Entries \cup {NULL}
      BY <1>12, <1>17 DEF ParentAfter
    <2>4. iter.parent = IF p = 1 THEN NULL ELSE t[i][p - 1].entry
      BY <1>1, <1>4 DEF AtPlace
    <2>5. p # 1 => u[i][p - 1] = t[i][p - 1]
      BY <1>16, <2>1
    <2>6. parent = IF p = 1 THEN NULL ELSE u[i][p - 1].entry
      BY <2>3, <2>4, <2>5
    <2>7. index = i /\ entry = u[i][p].entry /\ X = {u[i][p].entry} \cup EntriesAhead(u, i, p)
      BY <1>8, <1>17, <2>2
    <2> HIDE DEF index, entry, parent, X, u
    <2> QED
      BY <1>3, <1>15, <2>2, <2>3, <2>6, <2>7
  <1>18. CASE \E f \in 0 .. n - 1 :
                 /\ f > i /\ 1 \in 1 .. Len(t[f]) /\ index = f
                 /\ entry = t[f][1].entry /\ Advanced.parent = NULL
                 /\ X = {t[f][1].entry} \cup EntriesAhead(t, f, 1)
    <2>1. PICK f \in 0 .. n - 1 :
                 /\ f > i /\ 1 \in 1 .. Len(t[f]) /\ index = f
                 /\ entry = t[f][1].entry /\ Advanced.parent = NULL
                 /\ X = {t[f][1].entry} \cup EntriesAhead(t, f, 1)
      BY <1>18
    <2>2. u[f] = t[f] /\ EntriesAhead(u, f, 1) = EntriesAhead(t, f, 1)
      BY <1>3, <1>8, <1>16, <2>1
    <2>3. parent = NULL
      BY <1>1, <2>1 DEF ParentAfter
    <2>4. /\ 1 \in 1 .. Len(u[f]) /\ index = f /\ entry = u[f][1].entry
          /\ X = {u[f][1].entry} \cup EntriesAhead(u, f, 1) /\ parent \in Entries \cup {NULL}
          /\ parent = IF 1 = 1 THEN NULL ELSE u[f][1 - 1].entry
      BY <2>1, <2>2, <2>3
    <2> HIDE DEF index, entry, parent, X, u
    <2> QED
      BY <1>15, <2>4
  <1> QED
    BY <1>11, <1>14, <1>17, <1>18 DEF Goes

(* Every step keeps the invariant.                                          *)
LEMMA RightStep ==
    ASSUME Right(htable, iter), [TableNext]_table_vars
    PROVE  Right(htable', iter')
  <1>1. CASE UNCHANGED <<htable, iter>>
    BY <1>1
  <1>2. ASSUME NEW key \in Keys, NEW value \in Values,
               pet_htable_insert(key, value) \/ Update(key, value)
        PROVE  Right(htable', iter')
    BY <1>2, InsertStep, UpdateStep
  <1>3. ASSUME NEW key \in Keys, NotFound(key) \/ pet_htable_search(key)
        PROVE  UNCHANGED <<htable, iter>>
    BY <1>3 DEF NotFound, pet_htable_search
  <1>4. ASSUME NEW key \in Keys, pet_htable_remove(key) \/ pet_htable_iter_search(key)
        PROVE  Right(htable', iter')
    BY <1>4, RemoveStep, SearchStep
  <1>5. ASSUME InsertFails \/ pet_htable_create_iter \/ pet_htable_iter_advance
                  \/ pet_htable_iter_remove
        PROVE  Right(htable', iter')
    BY <1>5, InsertFailsStep, CreateStep, AdvanceStep, IterRemoveStep
  <1>6. ASSUME ExpandByRealloc \/ pet_free_htable PROVE UNCHANGED <<htable, iter>>
    BY <1>6 DEF ExpandByRealloc, pet_free_htable
  <1>7. ASSUME pet_htable_free_iter PROVE Right(htable', iter')
    BY <1>7 DEF pet_htable_free_iter, Right, IterGood
  <1>8. CASE UNCHANGED table_vars
    BY <1>1, <1>8 DEF table_vars
  <1> QED
    BY <1>1, <1>2, <1>3, <1>4, <1>5, <1>6, <1>7, <1>8 DEF TableNext

(* harm and freed stay truth values.                                        *)
LEMMA FlagsStep ==
    ASSUME {harm, freed} \subseteq BOOLEAN, [TableNext]_table_vars
    PROVE  {harm', freed'} \subseteq BOOLEAN
  <1>1. harm' \in {harm, TRUE} /\ freed' \in {freed, TRUE}
    BY DEF TableNext, table_vars, pet_htable_insert, Update, NotFound, pet_htable_search,
           pet_htable_remove, pet_htable_iter_search, InsertFails, ExpandByRealloc,
           pet_htable_create_iter, pet_htable_iter_advance, pet_htable_iter_remove,
           pet_htable_free_iter, pet_free_htable
  <1> QED
    BY <1>1

LEMMA TableInvInit == TableInit => TableInv
  <1> SUFFICES ASSUME TableInit PROVE TableInv
    OBVIOUS
  <1>1. {harm, freed} \subseteq BOOLEAN
    BY DEF TableInit
  <1> QED
    BY <1>1, InitRight, InvIs

LEMMA TableInvStep == TableInv /\ [TableNext]_table_vars => TableInv'
  <1> SUFFICES ASSUME TableInv, [TableNext]_table_vars PROVE TableInv'
    OBVIOUS
  <1>1. Right(htable, iter) /\ {harm, freed} \subseteq BOOLEAN
    BY InvIs
  <1>2. Right(htable', iter')
    BY <1>1, RightStep
  <1>3. {harm', freed'} \subseteq BOOLEAN
    BY <1>1, FlagsStep
  <1> QED
    BY <1>2, <1>3, InvIsNext

(* The inductive invariant holds in every state of the table that           *)
(* pet_hashtable.c can reach while its client respects the iterators:       *)
(* through collisions, growth along the primes, growth without memory and   *)
(* removals by key or by an iterator.                                       *)
THEOREM TableSafe == TableSpec => []TableInv
  BY TableInvInit, TableInvStep, PTL DEF TableSpec

(* Size and load limit are those of prime_index, also when hashtable_expand *)
(* got no memory, entry_count is the number of entries, and every entry is  *)
(* linked once, in the chain that indexFor gives for its key.               *)
THEOREM TableWellFormed == TableSpec => []WellFormed
  <1>1. TableInv => WellFormed
    BY DEF TableInv
  <1> QED
    BY <1>1, TableSafe, PTL

(* pet_htable_iter_advance and pet_htable_iter_remove take an iterator to   *)
(* every entry there was when pet_htable_create_iter made it, and to none   *)
(* twice.                                                                   *)
THEOREM TableIterComplete == TableSpec => []IterComplete
  <1>1. TableInv => IterComplete
    BY DEF TableInv, IterRight, IterComplete
  <1> QED
    BY <1>1, TableSafe, PTL

----------------------------------------------------------------------------
(* The stacks of the abstract table. *)

Pair == [entry : Entries, value : Values]
PairOf(e) == [entry |-> e.entry, value |-> e.value]
Pairs(s) == [n \in DOMAIN s |-> PairOf(s[n])]

(* the entries of a key, in their order *)
EntriesOf(h, key) == Only(h.table[indexFor(SizeOf(h), key)], {key})

LEMMA PairsAre ==
    ASSUME NEW s \in Seq(Entry)
    PROVE  /\ Pairs(s) \in Seq(Pair) /\ Len(Pairs(s)) = Len(s)
           /\ \A n \in 1 .. Len(s) : Pairs(s)[n] = PairOf(s[n]) /\ PairOf(s[n]) \in Pair
  <1>1. DOMAIN s = 1 .. Len(s) /\ Len(s) \in Nat /\ \A n \in 1 .. Len(s) : s[n] \in Entry
    OBVIOUS
  <1>2. \A n \in 1 .. Len(s) : PairOf(s[n]) \in Pair
    BY <1>1 DEF PairOf, Pair, Entry
  <1>3. Pairs(s) = [n \in 1 .. Len(s) |-> PairOf(s[n])]
    BY <1>1 DEF Pairs
  <1> QED
    BY <1>1, <1>2, <1>3

LEMMA PairOfIs ==
    ASSUME NEW e \in Entry
    PROVE  PairOf(e) \in Pair /\ PairOf(e).entry = e.entry /\ PairOf(e).value = e.value
  BY DEF PairOf, Pair, Entry

LEMMA PairsEmpty == Pairs(<<>>) = <<>>
  BY DEF Pairs

LEMMA PairsCons ==
    ASSUME NEW s \in Seq(Entry), NEW e \in Entry
    PROVE  Pairs(Cons(e, s)) = Cons(PairOf(e), Pairs(s))
  <1> DEFINE c == Cons(e, s)
             x == Pairs(c)
             o == Pairs(s)
             y == Cons(PairOf(e), o)
             n == Len(s)
  <1>1. c \in Seq(Entry) /\ Len(c) = n + 1 /\ n \in Nat /\ c[1] = e /\ \A i \in 1 .. n : c[i + 1] = s[i]
    <2>1. /\ Cons(e, s) \in Seq(Entry) /\ Len(Cons(e, s)) = Len(s) + 1 /\ Cons(e, s)[1] = e
          /\ \A i \in 1 .. Len(s) : Cons(e, s)[i + 1] = s[i]
      BY ConsIs
    <2>2. Len(s) \in Nat
      OBVIOUS
    <2> QED
      BY <2>1, <2>2
  <1> HIDE DEF c
  <1>2. /\ x \in Seq(Pair) /\ Len(x) = n + 1 /\ \A i \in 1 .. n + 1 : x[i] = PairOf(c[i])
    BY <1>1, PairsAre
  <1>3. o \in Seq(Pair) /\ Len(o) = n /\ \A i \in 1 .. n : o[i] = PairOf(s[i])
    BY PairsAre
  <1> HIDE DEF x, o
  <1>4. /\ y \in Seq(Pair) /\ Len(y) = n + 1 /\ y[1] = PairOf(e)
        /\ \A i \in 1 .. n : y[i + 1] = o[i]
    BY <1>3, PairOfIs, ConsIs
  <1> HIDE DEF y, n
  <1>5. ASSUME NEW i \in 1 .. n + 1 PROVE x[i] = y[i]
    <2>1. CASE i = 1
      BY <1>1, <1>2, <1>4, <2>1
    <2>2. CASE i # 1
      <3>1. i - 1 \in 1 .. n /\ (i - 1) + 1 = i
        BY <1>1, <2>2
      <3>2. y[i] = o[i - 1] /\ c[i] = s[i - 1]
        BY <1>1, <1>4, <3>1
      <3> QED
        BY <1>2, <1>3, <3>1, <3>2
    <2> QED
      BY <2>1, <2>2
  <1>6. x = y
    BY <1>2, <1>4, <1>5, SeqEqual
  <1> QED
    BY <1>6 DEF x, y, o, c

LEMMA PairsReverse ==
    ASSUME NEW s \in Seq(Entry)
    PROVE  Pairs(Reverse(s)) = Reverse(Pairs(s))
  <1> DEFINE r == Reverse(s)
             x == Pairs(r)
             o == Pairs(s)
             y == Reverse(o)
             n == Len(s)
  <1>1. r \in Seq(Entry) /\ Len(r) = n /\ n \in Nat /\ \A i \in 1 .. n : r[i] = s[(n - i) + 1]
    BY ReverseIs
  <1> HIDE DEF r
  <1>2. x \in Seq(Pair) /\ Len(x) = n /\ \A i \in 1 .. n : x[i] = PairOf(r[i])
    BY <1>1, PairsAre
  <1>3. o \in Seq(Pair) /\ Len(o) = n /\ \A i \in 1 .. n : o[i] = PairOf(s[i])
    BY PairsAre
  <1> HIDE DEF x, o
  <1>4. y \in Seq(Pair) /\ Len(y) = n /\ \A i \in 1 .. n : y[i] = o[(n - i) + 1]
    BY <1>3, ReverseIs
  <1> HIDE DEF y, n
  <1>5. ASSUME NEW i \in 1 .. n PROVE x[i] = y[i]
    <2>1. (n - i) + 1 \in 1 .. n
      BY <1>1
    <2> QED
      BY <1>1, <1>2, <1>3, <1>4, <2>1
  <1>6. x = y
    BY <1>2, <1>4, <1>5, SeqEqual
  <1> QED
    BY <1>6 DEF x, y, o, r

(* One element is taken out of a stack.                                     *)
LEMMA PairsDropped ==
    ASSUME NEW a \in Seq(Entry), NEW b \in Seq(Entry), NEW e \in Entry
    PROVE  LET all == Pairs(a \o Cons(e, b)) n == Len(a) + 1
           IN  n \in DOMAIN all /\ Pairs(a \o b) = RemoveAt(all, n)
  <1> DEFINE c == Cons(e, b)
             w == a \o c
             v == a \o b
             all == Pairs(w)
             rest == Pairs(v)
             l == Len(a)
             m == Len(b)
             n == l + 1
             y == RemoveAt(all, n)
  <1>1. c \in Seq(Entry) /\ Len(c) = m + 1 /\ m \in Nat /\ l \in Nat /\ \A i \in 1 .. m : c[i + 1] = b[i]
    <2>1. /\ Cons(e, b) \in Seq(Entry) /\ Len(Cons(e, b)) = Len(b) + 1
          /\ \A i \in 1 .. Len(b) : Cons(e, b)[i + 1] = b[i]
      BY ConsIs
    <2>2. Len(a) \in Nat /\ Len(b) \in Nat
      OBVIOUS
    <2> QED
      BY <2>1, <2>2
  <1> HIDE DEF c
  <1>2. /\ w \in Seq(Entry) /\ Len(w) = l + (m + 1)
        /\ \A i \in 1 .. l : w[i] = a[i]
        /\ \A i \in 1 .. m + 1 : w[l + i] = c[i]
    <2>1. c \in Seq(Entry) /\ Len(c) = m + 1
      BY <1>1
    <2>2. /\ a \o c \in Seq(Entry) /\ Len(a \o c) = Len(a) + Len(c)
          /\ \A i \in 1 .. Len(a) : (a \o c)[i] = a[i]
          /\ \A i \in 1 .. Len(c) : (a \o c)[Len(a) + i] = c[i]
      <3>1. c \in Seq(Entry)
        BY <2>1
      <3> HIDE DEF l, m, w, v, n
      <3> QED
        BY <3>1, ConcatIs
    <2> QED
      BY <2>1, <2>2
  <1>3. /\ v \in Seq(Entry) /\ Len(v) = l + m
        /\ \A i \in 1 .. l : v[i] = a[i]
        /\ \A i \in 1 .. m : v[l + i] = b[i]
    BY ConcatIs
  <1> HIDE DEF w, v
  <1>4. all \in Seq(Pair) /\ Len(all) = l + (m + 1) /\ \A i \in 1 .. l + (m + 1) : all[i] = PairOf(w[i])
    BY <1>2, PairsAre
  <1>5. rest \in Seq(Pair) /\ Len(rest) = l + m /\ \A i \in 1 .. l + m : rest[i] = PairOf(v[i])
    BY <1>3, PairsAre
  <1> HIDE DEF all, rest, l, m
  <1>6. n \in 1 .. Len(all) /\ n \in DOMAIN all /\ n - 1 = l
    BY <1>1, <1>4
  <1> DEFINE before == Before(all, n)
             after == After(all, n)
  <1> HIDE DEF n
  <1>7. /\ before \in Seq(Pair) /\ Len(before) = n - 1 /\ \A i \in 1 .. n - 1 : before[i] = all[i]
        /\ after \in Seq(Pair) /\ Len(after) = Len(all) - n
        /\ \A i \in 1 .. Len(all) - n : after[i] = all[n + i]
    BY <1>4, <1>6, Pieces
  <1>8. y = before \o after
    BY DEF RemoveAt, Before, After
  <1> HIDE DEF before, after, y
  <1>9. Len(all) - n = m
    BY <1>1, <1>4, <1>6 DEF n
  <1>10. /\ y \in Seq(Pair) /\ Len(y) = l + m
         /\ \A i \in 1 .. l : y[i] = all[i]
         /\ \A i \in 1 .. m : y[l + i] = all[n + i]
    <2>1. /\ before \in Seq(Pair) /\ Len(before) = l /\ after \in Seq(Pair) /\ Len(after) = m
      BY <1>6, <1>7, <1>9
    <2> DEFINE z == before \o after
    <2>2. /\ z \in Seq(Pair) /\ Len(z) = Len(before) + Len(after)
          /\ \A i \in 1 .. Len(before) : z[i] = before[i]
          /\ \A i \in 1 .. Len(after) : z[Len(before) + i] = after[i]
      <3>1. before \in Seq(Pair) /\ after \in Seq(Pair)
        BY <2>1
      <3> QED
        BY <3>1, ConcatIs
    <2> HIDE DEF z
    <2>3. y = z
      BY <1>8 DEF z
    <2> QED
      BY <1>6, <1>7, <1>9, <2>1, <2>2, <2>3
  <1>11. ASSUME NEW i \in 1 .. l + m PROVE rest[i] = y[i]
    <2>1. CASE i \in 1 .. l
      BY <1>1, <1>2, <1>3, <1>4, <1>5, <1>10, <2>1
    <2>2. CASE i \notin 1 .. l
      <3> DEFINE k == i - l
      <3>1. k \in 1 .. m /\ l + k = i /\ n + k = l + (k + 1) /\ k + 1 \in 1 .. m + 1
            /\ l + (k + 1) \in 1 .. l + (m + 1)
        BY <1>1, <2>2 DEF n
      <3> HIDE DEF k
      <3>2. v[i] = b[k] /\ c[k + 1] = b[k] /\ w[l + (k + 1)] = c[k + 1]
        BY <1>1, <1>2, <1>3, <3>1
      <3>3. y[i] = all[l + (k + 1)]
        BY <1>10, <3>1
      <3> QED
        BY <1>4, <1>5, <3>1, <3>2, <3>3
    <2> QED
      BY <2>1, <2>2
  <1>12. rest = y
    BY <1>5, <1>10, <1>11, SeqEqual
  <1> QED
    BY <1>6, <1>12 DEF rest, y, all, w, v, c, n, l

(* The stacks of a table: what Contents is for.                             *)
Stacks(h) == [k \in Keys |-> Pairs(EntriesOf(h, k))]

(* One stack is another.                                                    *)
Put(c, d, k, x) ==
    /\ d \in [Keys -> Seq(Pair)] /\ d[k] = x
    /\ \A j \in Keys : j # k => d[j] = c[j]

LEMMA PutIs ==
    ASSUME NEW c \in [Keys -> Seq(Pair)], NEW d, NEW k \in Keys, NEW x, Put(c, d, k, x)
    PROVE  d = [c EXCEPT ![k] = x]
  BY DEF Put

LEMMA EntriesAre ==
    ASSUME NEW h, Sound(h), NEW key \in Keys
    PROVE  /\ indexFor(SizeOf(h), key) \in 0 .. SizeOf(h) - 1
           /\ h.table[indexFor(SizeOf(h), key)] \in Seq(Entry)
           /\ EntriesOf(h, key) \in Seq(Entry)
           /\ \A e \in ToSet(EntriesOf(h, key)) : e.entry \in Addresses(h.table)
  <1> DEFINE n == SizeOf(h)
             i == indexFor(n, key)
             s == h.table[i]
  <1>1. n \in Nat \ {0}
    BY SoundFacts
  <1>2. i \in 0 .. n - 1
    <2> HIDE DEF n
    <2> QED
      BY <1>1, IndexIs
  <1> HIDE DEF i
  <1>3. s \in Seq(Entry) /\ AddressesOf(s) \subseteq Addresses(h.table)
    BY <1>2, SoundFacts
  <1> HIDE DEF s
  <1>4. Only(s, {key}) \in Seq(Entry) /\ ToSet(Only(s, {key})) \subseteq ToSet(s)
    BY <1>3, OnlyHolds
  <1>5. \A e \in ToSet(s) : e.entry \in AddressesOf(s)
    BY DEF AddressesOf
  <1>6. EntriesOf(h, key) = Only(s, {key})
    BY DEF EntriesOf, s, i
  <1> QED
    BY <1>2, <1>3, <1>4, <1>5, <1>6 DEF s, i

LEMMA StacksAre ==
    ASSUME NEW h, Sound(h)
    PROVE  /\ Stacks(h) \in [Keys -> Seq(Pair)]
           /\ \A k \in Keys : Stacks(h)[k] = Pairs(EntriesOf(h, k))
  <1>1. \A k \in Keys : Pairs(EntriesOf(h, k)) \in Seq(Pair)
    BY EntriesAre, PairsAre
  <1> QED
    BY <1>1 DEF Stacks

LEMMA ContentsAre ==
    /\ Sound(htable) => Contents = Stacks(htable)
    /\ Sound(htable') => Contents' = Stacks(htable')
  <1>1. ASSUME NEW h, Sound(h), NEW key \in Keys
        PROVE  LET of == Only(h.table[indexFor(Length(h), key)], {key})
               IN  [n \in DOMAIN of |-> [entry |-> of[n].entry, value |-> of[n].value]] = Pairs(EntriesOf(h, key))
    <2>1. Length(h) = SizeOf(h)
      BY <1>1, SoundFacts
    <2> QED
      BY <2>1 DEF Pairs, PairOf, EntriesOf
  <1>2. Sound(htable) => Contents = Stacks(htable)
    BY <1>1 DEF Contents, OfKey, Chain, Index, Stacks
  <1>3. Sound(htable') => Contents' = Stacks(htable')
    BY <1>1 DEF Contents, OfKey, Chain, Index, Stacks
  <1> QED
    BY <1>2, <1>3

(* One chain of the table is another.                                       *)
LEMMA EntriesReplaced ==
    ASSUME NEW h, Sound(h), NEW g, Sound(g), SizeOf(g) = SizeOf(h), NEW i \in 0 .. SizeOf(h) - 1,
           NEW x, Replaced(h.table, g.table, i, x, SizeOf(h)), NEW k \in Keys
    PROVE  EntriesOf(g, k) = IF indexFor(SizeOf(h), k) = i THEN Only(x, {k}) ELSE EntriesOf(h, k)
  <1>1. indexFor(SizeOf(h), k) \in 0 .. SizeOf(h) - 1
    BY EntriesAre
  <1>2. g.table[indexFor(SizeOf(h), k)] =
           IF indexFor(SizeOf(h), k) = i THEN x ELSE h.table[indexFor(SizeOf(h), k)]
    BY <1>1 DEF Replaced
  <1> QED
    BY <1>2 DEF EntriesOf

----------------------------------------------------------------------------
(* What the changes of a chain do to the entries of a key. *)

(* its entries in the two pieces, with e between them or without            *)
Around(s, p, e, key) ==
    Only(Before(s, p), {key}) \o
        (IF e.key = key THEN Cons(e, Only(After(s, p), {key})) ELSE Only(After(s, p), {key}))

LEMMA OnlyAround ==
    ASSUME NEW s \in Seq(Entry), NEW p \in 1 .. Len(s), NEW e \in Entry, NEW key
    PROVE  /\ Only(Before(s, p), {key}) \in Seq(Entry) /\ Only(After(s, p), {key}) \in Seq(Entry)
           /\ Only(Before(s, p) \o Cons(e, After(s, p)), {key}) = Around(s, p, e, key)
           /\ Only(Dropped(s, p), {key}) = Only(Before(s, p), {key}) \o Only(After(s, p), {key})
  <1> DEFINE u == Before(s, p)
             v == After(s, p)
             w == Cons(e, v)
  <1>1. u \in Seq(Entry) /\ v \in Seq(Entry)
    BY Pieces
  <1>2. Dropped(s, p) = u \o v
    BY DEF Dropped
  <1> HIDE DEF u, v
  <1>3. w \in Seq(Entry)
    BY <1>1, ConsIs
  <1>4. Only(w, {key}) = IF e.key = key THEN Cons(e, Only(v, {key})) ELSE Only(v, {key})
    <2>1. Only(Cons(e, v), {key}) = IF e.key \in {key} THEN Cons(e, Only(v, {key})) ELSE Only(v, {key})
      BY <1>1, OnlyOne
    <2> QED
      BY <2>1
  <1>5. Only(u, {key}) \in Seq(Entry) /\ Only(v, {key}) \in Seq(Entry)
    BY <1>1, OnlyHolds
  <1> HIDE DEF w
  <1>6. Only(u \o w, {key}) = Only(u, {key}) \o Only(w, {key})
    BY <1>1, <1>3, OnlyConcat
  <1>7. Only(u \o v, {key}) = Only(u, {key}) \o Only(v, {key})
    BY <1>1, OnlyConcat
  <1>8. Only(Dropped(s, p), {key}) = Only(u, {key}) \o Only(v, {key})
    BY <1>2, <1>7
  <1>9. Only(u \o w, {key}) =
          Only(u, {key}) \o (IF e.key = key THEN Cons(e, Only(v, {key})) ELSE Only(v, {key}))
    BY <1>4, <1>6
  <1> QED
    BY <1>5, <1>8, <1>9 DEF Around, u, v, w

(* Nothing of a key before the first of it.                                 *)
LEMMA NoneBefore ==
    ASSUME NEW s \in Seq(Entry), NEW p \in 1 .. Len(s), NEW key, \A j \in 1 .. p - 1 : s[j].key # key
    PROVE  Only(Before(s, p), {key}) = <<>>
  <1> DEFINE u == Before(s, p)
  <1>1. u \in Seq(Entry) /\ Len(u) = p - 1 /\ \A j \in 1 .. p - 1 : u[j] = s[j]
    BY Pieces
  <1> HIDE DEF u
  <1>2. ASSUME NEW e \in ToSet(u) PROVE e.key \notin {key}
    <2>1. PICK j \in 1 .. Len(u) : e = u[j]
      BY <1>1 DEF ToSet
    <2> QED
      BY <1>1, <2>1
  <1>3. Only(u, {key}) = <<>>
    BY <1>1, <1>2, OnlyNone
  <1> QED
    BY <1>3 DEF u

(* The first of a key is the top of its stack.                              *)
First(s, p, key) ==
    p \in 1 .. Len(s) /\ s[p].key = key /\ \A j \in 1 .. p - 1 : s[j].key # key
WithValue(e, v) == [e EXCEPT !.value = v]
OnTop(s, p, key, r) ==
    /\ Only(s, {key}) = Cons(s[p], r)
    /\ Only(Dropped(s, p), {key}) = r
    /\ \A v, x : ValueAt(s, x, p, v) /\ v \in Values => Only(x, {key}) = Cons(WithValue(s[p], v), r)

LEMMA OnlyFirst ==
    ASSUME NEW s \in Seq(Entry), NEW p \in 1 .. Len(s), NEW key, First(s, p, key)
    PROVE  \E r \in Seq(Entry) : OnTop(s, p, key, r)
  <1> DEFINE a == Only(Before(s, p), {key})
             r == Only(After(s, p), {key})
             e == s[p]
  <1>1. e \in Entry
    OBVIOUS
  <1>2. a = <<>>
    <2>1. \A j \in 1 .. p - 1 : s[j].key # key
      BY DEF First
    <2> QED
      BY <2>1, NoneBefore
  <1>3. ASSUME NEW f \in Entry, f.key = key
        PROVE  /\ r \in Seq(Entry) /\ Only(Before(s, p) \o Cons(f, After(s, p)), {key}) = Cons(f, r)
               /\ Only(Dropped(s, p), {key}) = r
    <2>1. /\ r \in Seq(Entry)
          /\ Only(Before(s, p) \o Cons(f, After(s, p)), {key}) = a \o Cons(f, r)
          /\ Only(Dropped(s, p), {key}) = a \o r
      <3>1. /\ Only(Before(s, p) \o Cons(f, After(s, p)), {key}) =
                  a \o (IF f.key = key THEN Cons(f, r) ELSE r)
            /\ Only(Dropped(s, p), {key}) = a \o r
        <4>1. Only(Before(s, p) \o Cons(f, After(s, p)), {key}) = Around(s, p, f, key)
          BY OnlyAround
        <4>2. Only(Dropped(s, p), {key}) = a \o r
          BY OnlyAround
        <4> QED
          BY <4>1, <4>2 DEF Around
      <3>2. r \in Seq(Entry)
        BY OnlyAround
      <3> HIDE DEF a, r
      <3> QED
        BY <1>3, <3>1, <3>2
    <2> HIDE DEF a, r
    <2>2. Cons(f, r) \in Seq(Entry)
      BY <2>1, ConsIs
    <2>3. \A z \in Seq(Entry) : <<>> \o z = z
      OBVIOUS
    <2>4. a \o Cons(f, r) = Cons(f, r) /\ a \o r = r
      BY <1>2, <2>1, <2>2, <2>3
    <2> QED
      BY <2>1, <2>4
  <1>4. s = Before(s, p) \o Cons(e, After(s, p))
    BY Split
  <1> HIDE DEF a, r
  <1>5. r \in Seq(Entry) /\ Only(s, {key}) = Cons(e, r) /\ Only(Dropped(s, p), {key}) = r
    <2>1. /\ r \in Seq(Entry) /\ Only(Before(s, p) \o Cons(e, After(s, p)), {key}) = Cons(e, r)
          /\ Only(Dropped(s, p), {key}) = r
      BY <1>1, <1>3 DEF First
    <2> QED
      BY <1>4, <2>1
  <1>6. ASSUME NEW v \in Values, NEW x, ValueAt(s, x, p, v)
        PROVE  Only(x, {key}) = Cons(WithValue(s[p], v), r)
    <2> DEFINE f == [s[p] EXCEPT !.value = v]
    <2>1. f \in Entry /\ f.key = key
      BY <1>1, <1>6 DEF Entry, First
    <2>2. x \in Seq(Entry) /\ Len(x) = Len(s) /\ \A i \in 1 .. Len(s) : x[i] = IF i = p THEN f ELSE s[i]
      BY <1>6 DEF ValueAt
    <2> HIDE DEF f
    <2>3. x = Before(s, p) \o Cons(f, After(s, p))
      BY <2>1, <2>2, Mended
    <2>4. Only(Before(s, p) \o Cons(f, After(s, p)), {key}) = Cons(f, r)
      BY <1>3, <2>1
    <2>5. Only(x, {key}) = Cons(f, r)
      BY <2>3, <2>4
    <2> QED
      BY <2>5 DEF f, WithValue
  <1> QED
    BY <1>5, <1>6 DEF OnTop

(* The change of a value leaves the other keys' entries alone, and so does  *)
(* a removal; a removal takes one of its own key's.                         *)
LEMMA OnlyOthers ==
    ASSUME NEW s \in Seq(Entry), NEW p \in 1 .. Len(s), NEW key, s[p].key # key
    PROVE  /\ Only(Dropped(s, p), {key}) = Only(s, {key})
           /\ \A v, x : ValueAt(s, x, p, v) /\ v \in Values => Only(x, {key}) = Only(s, {key})
  <1> DEFINE a == Only(Before(s, p), {key})
             r == Only(After(s, p), {key})
             e == s[p]
  <1>1. e \in Entry
    OBVIOUS
  <1>2. ASSUME NEW f \in Entry, f.key # key
        PROVE  /\ Only(Before(s, p) \o Cons(f, After(s, p)), {key}) = a \o r
               /\ Only(Dropped(s, p), {key}) = a \o r
    <2>1. /\ Only(Before(s, p) \o Cons(f, After(s, p)), {key}) =
                a \o (IF f.key = key THEN Cons(f, r) ELSE r)
          /\ Only(Dropped(s, p), {key}) = a \o r
      <3>1. Only(Before(s, p) \o Cons(f, After(s, p)), {key}) = Around(s, p, f, key)
        BY OnlyAround
      <3>2. Only(Dropped(s, p), {key}) = a \o r
        BY OnlyAround
      <3> QED
        BY <3>1, <3>2 DEF Around
    <2> HIDE DEF a, r
    <2> QED
      BY <1>2, <2>1
  <1>3. s = Before(s, p) \o Cons(e, After(s, p))
    BY Split
  <1> DEFINE z == a \o r
  <1> HIDE DEF z
  <1>4. Only(s, {key}) = z /\ Only(Dropped(s, p), {key}) = z
    <2>1. /\ Only(Before(s, p) \o Cons(e, After(s, p)), {key}) = z
          /\ Only(Dropped(s, p), {key}) = z
      BY <1>1, <1>2 DEF z
    <2> QED
      BY <1>3, <2>1
  <1>5. ASSUME NEW v \in Values, NEW x, ValueAt(s, x, p, v)
        PROVE  Only(x, {key}) = z
    <2> DEFINE f == [s[p] EXCEPT !.value = v]
    <2>1. f \in Entry /\ f.key # key
      BY <1>1, <1>5 DEF Entry
    <2>2. x \in Seq(Entry) /\ Len(x) = Len(s) /\ \A i \in 1 .. Len(s) : x[i] = IF i = p THEN f ELSE s[i]
      BY <1>5 DEF ValueAt
    <2> HIDE DEF f
    <2>3. x = Before(s, p) \o Cons(f, After(s, p))
      BY <2>1, <2>2, Mended
    <2>4. Only(Before(s, p) \o Cons(f, After(s, p)), {key}) = z
      BY <1>2, <2>1 DEF z
    <2> QED
      BY <2>3, <2>4
  <1> QED
    BY <1>4, <1>5

LEMMA OnlyTakes ==
    ASSUME NEW s \in Seq(Entry), NEW p \in 1 .. Len(s), NEW key, s[p].key = key
    PROVE  \E n \in DOMAIN Pairs(Only(s, {key})) :
              Pairs(Only(Dropped(s, p), {key})) = RemoveAt(Pairs(Only(s, {key})), n)
  <1> DEFINE a == Only(Before(s, p), {key})
             r == Only(After(s, p), {key})
             e == s[p]
             w == Only(s, {key})
             d == Only(Dropped(s, p), {key})
             n == Len(a) + 1
  <1>1. e \in Entry
    OBVIOUS
  <1>2. /\ a \in Seq(Entry) /\ r \in Seq(Entry)
        /\ Only(Before(s, p) \o Cons(e, After(s, p)), {key}) =
              a \o (IF e.key = key THEN Cons(e, r) ELSE r)
        /\ d = a \o r
    <2>1. ASSUME NEW f \in Entry
          PROVE  /\ Only(Before(s, p) \o Cons(f, After(s, p)), {key}) =
                       a \o (IF f.key = key THEN Cons(f, r) ELSE r)
                 /\ Only(Dropped(s, p), {key}) = a \o r
      <3>1. Only(Before(s, p) \o Cons(f, After(s, p)), {key}) = Around(s, p, f, key)
        BY OnlyAround
      <3>2. Only(Dropped(s, p), {key}) = a \o r
        BY OnlyAround
      <3> QED
        BY <3>1, <3>2 DEF Around
    <2>2. ASSUME NEW f \in Entry PROVE a \in Seq(Entry) /\ r \in Seq(Entry)
      BY OnlyAround
    <2> HIDE DEF a, r, e
    <2> QED
      BY <1>1, <2>1, <2>2 DEF d
  <1>3. s = Before(s, p) \o Cons(e, After(s, p))
    BY Split
  <1> HIDE DEF a, r, d
  <1>4. w = a \o Cons(e, r)
    BY <1>2, <1>3
  <1> HIDE DEF w, e
  <1>5. n \in DOMAIN Pairs(a \o Cons(e, r)) /\ Pairs(a \o r) = RemoveAt(Pairs(a \o Cons(e, r)), n)
    <2> HIDE DEF n
    <2>1. LET all == Pairs(a \o Cons(e, r)) m == Len(a) + 1
          IN  m \in DOMAIN all /\ Pairs(a \o r) = RemoveAt(all, m)
      BY <1>1, <1>2, PairsDropped
    <2> QED
      BY <2>1 DEF n
  <1>6. n \in DOMAIN Pairs(w) /\ Pairs(d) = RemoveAt(Pairs(w), n)
    BY <1>2, <1>4, <1>5
  <1> QED
    BY <1>6 DEF w, d

----------------------------------------------------------------------------
(* The changes of a table are the abstract table's. *)

(* The top of a stack.                                                      *)
LEMMA TopIs ==
    ASSUME NEW s \in Seq(Pair), NEW q \in Pair
    PROVE  Cons(q, s) # <<>> /\ Head(Cons(q, s)) = q /\ Tail(Cons(q, s)) = s
  <1>1. <<q>> \o s # <<>> /\ Head(<<q>> \o s) = q
    OBVIOUS
  <1>2. Tail(<<q>> \o s) = s
    OBVIOUS
  <1> QED
    BY <1>1, <1>2 DEF Cons

(* A value is stored on top of a stack.                                     *)
TopStored(c, k, v) == [c EXCEPT ![k][1].value = v]
LEMMA TopStoredIs ==
    ASSUME NEW c \in [Keys -> Seq(Pair)], NEW k \in Keys, NEW v, NEW q \in Pair, NEW r \in Seq(Pair),
           c[k] = Cons(q, r), NEW f \in Pair, f = WithValue(q, v),
           NEW d, Put(c, d, k, Cons(f, r))
    PROVE  d = TopStored(c, k, v)
  <1> DEFINE s == Cons(q, r)
             x == Cons(f, r)
             y == [s EXCEPT ![1] = f]
             n == Len(r)
  <1>0. ASSUME NEW z \in Pair
        PROVE  /\ Cons(z, r) \in Seq(Pair) /\ Len(Cons(z, r)) = Len(r) + 1 /\ Cons(z, r)[1] = z
               /\ \A i \in 1 .. Len(r) : Cons(z, r)[i + 1] = r[i]
    BY ConsIs
  <1>1. s \in Seq(Pair) /\ Len(s) = n + 1 /\ s[1] = q /\ (\A i \in 1 .. n : s[i + 1] = r[i])
    BY <1>0
  <1>2. x \in Seq(Pair) /\ Len(x) = n + 1 /\ x[1] = f /\ (\A i \in 1 .. n : x[i + 1] = r[i])
    BY <1>0
  <1>3. n \in Nat
    OBVIOUS
  <1>4. c[k] = s /\ Put(c, d, k, x)
    OBVIOUS
  <1> HIDE DEF s, x, n
  <1>5. y \in Seq(Pair) /\ Len(y) = n + 1 /\ \A i \in 1 .. n + 1 : y[i] = IF i = 1 THEN f ELSE s[i]
    BY <1>1, <1>3
  <1> HIDE DEF y
  <1>6. ASSUME NEW i \in 1 .. n + 1 PROVE x[i] = y[i]
    <2>1. CASE i = 1
      BY <1>2, <1>3, <1>5, <2>1
    <2>2. CASE i # 1
      <3>1. i - 1 \in 1 .. n /\ (i - 1) + 1 = i
        BY <1>3, <2>2
      <3> QED
        BY <1>1, <1>2, <1>5, <2>2, <3>1
    <2> QED
      BY <2>1, <2>2
  <1>7. x = y
    BY <1>2, <1>5, <1>6, SeqEqual
  <1>8. d = [c EXCEPT ![k] = y]
    <2>1. Put(c, d, k, y)
      BY <1>4, <1>7
    <2> QED
      BY <2>1, PutIs
  <1>9. TopStored(c, k, v) = [c EXCEPT ![k] = [c[k] EXCEPT ![1] = [c[k][1] EXCEPT !.value = v]]]
    BY DEF TopStored
  <1>10. [c[k] EXCEPT ![1] = [c[k][1] EXCEPT !.value = v]] = y
    <2>1. [q EXCEPT !.value = v] = f /\ c[k][1] = q
      BY <1>1, <1>4 DEF WithValue
    <2> QED
      BY <1>4, <2>1 DEF y
  <1> QED
    BY <1>8, <1>9, <1>10

(* A pair is put on top of its stack.                                       *)
LEMMA LinkedStacks ==
    ASSUME NEW h, Sound(h), NEW e \in Entry, e.entry \notin Addresses(h.table)
    PROVE  /\ Sound(Linked(h, e))
           /\ Put(Stacks(h), Stacks(Linked(h, e)), e.key, Cons(PairOf(e), Stacks(h)[e.key]))
  <1> DEFINE n == SizeOf(h)
             i == indexFor(n, e.key)
             g == Linked(h, e)
             s == h.table[i]
             x == Cons(e, s)
  <1>1. /\ i \in 0 .. n - 1 /\ Sound(g) /\ SizeOf(g) = n /\ Replaced(h.table, g.table, i, x, n)
    BY LinkedSound
  <1>2. e.key \in Keys
    BY DEF Entry
  <1>3. s \in Seq(Entry)
    BY <1>2, EntriesAre
  <1> HIDE DEF g
  <1>4. ASSUME NEW k \in Keys
        PROVE  EntriesOf(g, k) = IF k = e.key THEN Cons(e, EntriesOf(h, k)) ELSE EntriesOf(h, k)
    <2>1. EntriesOf(g, k) = IF indexFor(n, k) = i THEN Only(x, {k}) ELSE EntriesOf(h, k)
      <3>1. i \in 0 .. SizeOf(h) - 1 /\ SizeOf(g) = SizeOf(h) /\ Replaced(h.table, g.table, i, x, SizeOf(h))
        BY <1>1
      <3> HIDE DEF n, i, x, s
      <3>2. EntriesOf(g, k) = IF indexFor(SizeOf(h), k) = i THEN Only(x, {k}) ELSE EntriesOf(h, k)
        BY <1>1, <3>1, EntriesReplaced
      <3> QED
        BY <3>2 DEF n
    <2>2. Only(x, {k}) = IF e.key \in {k} THEN Cons(e, Only(s, {k})) ELSE Only(s, {k})
      <3> HIDE DEF s
      <3> QED
        BY <1>3, OnlyOne
    <2>3. indexFor(n, k) = i => EntriesOf(h, k) = Only(s, {k})
      BY DEF EntriesOf
    <2>4. k = e.key => indexFor(n, k) = i
      OBVIOUS
    <2> HIDE DEF n, i, s, x
    <2> QED
      BY <2>1, <2>2, <2>3, <2>4
  <1>5. /\ Stacks(g) \in [Keys -> Seq(Pair)]
        /\ \A k \in Keys : Stacks(g)[k] = Pairs(EntriesOf(g, k)) /\ Stacks(h)[k] = Pairs(EntriesOf(h, k))
    BY <1>1, StacksAre
  <1>6. Stacks(g)[e.key] = Cons(PairOf(e), Stacks(h)[e.key])
    <2>1. EntriesOf(h, e.key) \in Seq(Entry)
      BY <1>2, EntriesAre
    <2>2. Pairs(Cons(e, EntriesOf(h, e.key))) = Cons(PairOf(e), Pairs(EntriesOf(h, e.key)))
      BY <2>1, PairsCons
    <2> QED
      BY <1>2, <1>4, <1>5, <2>2
  <1>7. \A k \in Keys : k # e.key => Stacks(g)[k] = Stacks(h)[k]
    BY <1>4, <1>5
  <1> QED
    BY <1>1, <1>5, <1>6, <1>7 DEF Put, g

(* A table that has grown has its stacks as they were or reversed.          *)
LEMMA GrownStacks ==
    ASSUME NEW h, Sound(h), NEW g, Sound(g), SameOrder(h, g) \/ Reversed(h, g)
    PROVE  Stacks(g) \in {Stacks(h), [k \in Keys |-> Reverse(Stacks(h)[k])]}
  <1>1. CASE SameOrder(h, g)
    <2>1. \A k \in Keys : EntriesOf(g, k) = EntriesOf(h, k)
      BY <1>1 DEF SameOrder, EntriesOf
    <2> QED
      BY <2>1 DEF Stacks
  <1>2. CASE Reversed(h, g)
    <2>1. \A k \in Keys : EntriesOf(g, k) = Reverse(EntriesOf(h, k))
      BY <1>2 DEF Reversed, EntriesOf
    <2>2. ASSUME NEW k \in Keys PROVE Pairs(EntriesOf(g, k)) = Reverse(Stacks(h)[k])
      <3>1. EntriesOf(h, k) \in Seq(Entry)
        BY EntriesAre
      <3>2. Pairs(Reverse(EntriesOf(h, k))) = Reverse(Pairs(EntriesOf(h, k)))
        BY <3>1, PairsReverse
      <3> QED
        BY <2>1, <3>2, StacksAre
    <2> QED
      BY <2>2 DEF Stacks
  <1> QED
    BY <1>1, <1>2

(* A chain is another with the same entries for every other key.            *)
ChainOf(h, key, i, s) == i = indexFor(SizeOf(h), key) /\ s = h.table[i]
OthersSame(s, x, key) == \A k \in Keys : k # key => Only(x, {k}) = Only(s, {k})

LEMMA StacksReplaced ==
    ASSUME NEW h, Sound(h), NEW g, Sound(g), SizeOf(g) = SizeOf(h), NEW i \in 0 .. SizeOf(h) - 1,
           NEW x, Replaced(h.table, g.table, i, x, SizeOf(h)), NEW key \in Keys, NEW s,
           ChainOf(h, key, i, s), OthersSame(s, x, key)
    PROVE  Put(Stacks(h), Stacks(g), key, Pairs(Only(x, {key})))
  <1>1. \A k \in Keys :
           EntriesOf(g, k) = IF indexFor(SizeOf(h), k) = i THEN Only(x, {k}) ELSE EntriesOf(h, k)
    <2>1. \A k \in Keys : indexFor(SizeOf(h), k) \in 0 .. SizeOf(h) - 1
      BY EntriesAre
    <2> QED
      BY <2>1 DEF EntriesOf, Replaced
  <1>2. indexFor(SizeOf(h), key) = i /\ \A k \in Keys : indexFor(SizeOf(h), k) = i => EntriesOf(h, k) = Only(s, {k})
    BY DEF EntriesOf, ChainOf
  <1>3. EntriesOf(g, key) = Only(x, {key}) /\ \A k \in Keys : k # key => EntriesOf(g, k) = EntriesOf(h, k)
    BY <1>1, <1>2 DEF OthersSame
  <1>4. /\ Stacks(g) \in [Keys -> Seq(Pair)]
        /\ \A k \in Keys : Stacks(g)[k] = Pairs(EntriesOf(g, k)) /\ Stacks(h)[k] = Pairs(EntriesOf(h, k))
    BY StacksAre
  <1> QED
    BY <1>3, <1>4 DEF Put

(* The entry that a call by key finds is on top of its stack: to store into *)
(* it or to remove it is to do so there.                                    *)
LEMMA TopStacks ==
    ASSUME NEW h, Sound(h), NEW key \in Keys, NEW i, NEW s, ChainOf(h, key, i, s),
           NEW p \in 1 .. Len(s), First(s, p, key)
    PROVE  \E q \in Pair : \E r \in Seq(Pair) :
              /\ q = PairOf(s[p]) /\ s[p] \in Entry
              /\ Stacks(h)[key] = Cons(q, r)
              /\ \A g : g = Unlinked(h, i, p) => Put(Stacks(h), Stacks(g), key, r)
              /\ \A g : \A v \in Values : g = Stored(h, i, p, v) =>
                    Put(Stacks(h), Stacks(g), key, Cons(PairOf(WithValue(s[p], v)), r))
  <1> DEFINE n == SizeOf(h)
             e == s[p]
  <1>1. i \in 0 .. n - 1 /\ s \in Seq(Entry)
    BY EntriesAre DEF ChainOf
  <1>2. e \in Entry
    BY <1>1
  <1>A. PICK r \in Seq(Entry) : OnTop(s, p, key, r)
    BY <1>1, OnlyFirst
  <1>3. /\ Only(s, {key}) = Cons(e, r)
        /\ Only(Dropped(s, p), {key}) = r
        /\ \A v, x : ValueAt(s, x, p, v) /\ v \in Values => Only(x, {key}) = Cons(WithValue(e, v), r)
    BY <1>A DEF OnTop
  <1>4. ASSUME NEW k \in Keys, k # key
        PROVE  /\ Only(Dropped(s, p), {k}) = Only(s, {k})
               /\ \A v, x : ValueAt(s, x, p, v) /\ v \in Values => Only(x, {k}) = Only(s, {k})
    <2>1. s[p].key # k
      BY <1>4 DEF First
    <2> QED
      BY <1>1, <2>1, OnlyOthers
  <1>5. EntriesOf(h, key) = Only(s, {key}) /\ \A k \in Keys : indexFor(n, k) = i => EntriesOf(h, k) = Only(s, {k})
    BY DEF EntriesOf, ChainOf
  <1>6. /\ Stacks(h) \in [Keys -> Seq(Pair)]
        /\ \A k \in Keys : Stacks(h)[k] = Pairs(EntriesOf(h, k))
    BY StacksAre
  <1> DEFINE q == PairOf(e)
             o == Pairs(r)
  <1>7. q \in Pair /\ o \in Seq(Pair)
    BY <1>2, <1>3, PairOfIs, PairsAre
  <1>8. Stacks(h)[key] = Cons(q, o)
    <2>1. Pairs(Cons(e, r)) = Cons(q, o)
      BY <1>2, PairsCons
    <2> QED
      BY <1>3, <1>5, <1>6, <2>1
  <1>9. ASSUME NEW g, Sound(g), SizeOf(g) = SizeOf(h), NEW x,
               Replaced(h.table, g.table, i, x, SizeOf(h)), OthersSame(s, x, key)
        PROVE  Put(Stacks(h), Stacks(g), key, Pairs(Only(x, {key})))
    BY <1>1, <1>9, StacksReplaced
  <1>10. ASSUME NEW g, g = Unlinked(h, i, p) PROVE Put(Stacks(h), Stacks(g), key, o)
    <2>1. Sound(g) /\ SizeOf(g) = n /\ Replaced(h.table, g.table, i, Dropped(s, p), n)
      <3>1. h.table[i] = s
        BY DEF ChainOf
      <3>2. i \in 0 .. SizeOf(h) - 1 /\ p \in 1 .. Len(h.table[i])
        BY <1>1, <3>1
      <3>3. Sound(g) /\ SizeOf(g) = SizeOf(h) /\ Replaced(h.table, g.table, i, Dropped(h.table[i], p), SizeOf(h))
        BY <1>10, <3>2, DroppedSound
      <3> QED
        BY <3>1, <3>3
    <2>2. Put(Stacks(h), Stacks(g), key, Pairs(Only(Dropped(s, p), {key})))
      <3>1. OthersSame(s, Dropped(s, p), key)
        BY <1>4 DEF OthersSame
      <3> QED
        BY <1>9, <2>1, <3>1
    <2> QED
      BY <1>3, <2>2
  <1>11. ASSUME NEW g, NEW v \in Values, g = Stored(h, i, p, v)
         PROVE  Put(Stacks(h), Stacks(g), key, Cons(PairOf(WithValue(e, v)), o))
    <2>1. /\ Sound(g) /\ SizeOf(g) = n
          /\ \E x : ValueAt(s, x, p, v) /\ Replaced(h.table, g.table, i, x, n)
      <3>1. h.table[i] = s
        BY DEF ChainOf
      <3>2. i \in 0 .. SizeOf(h) - 1 /\ p \in 1 .. Len(h.table[i])
        BY <1>1, <3>1
      <3>3. /\ Sound(g) /\ SizeOf(g) = SizeOf(h)
            /\ \E x : ValueAt(h.table[i], x, p, v) /\ Replaced(h.table, g.table, i, x, SizeOf(h))
        BY <1>11, <3>2, StoredSound
      <3> QED
        BY <3>1, <3>3
    <2>2. PICK x : ValueAt(s, x, p, v) /\ Replaced(h.table, g.table, i, x, n)
      BY <2>1
    <2>3. Put(Stacks(h), Stacks(g), key, Pairs(Only(x, {key})))
      <3>1. OthersSame(s, x, key)
        BY <1>4, <2>2 DEF OthersSame
      <3> QED
        BY <1>9, <2>1, <2>2, <3>1
    <2> DEFINE f == WithValue(e, v)
    <2>4. f \in Entry
      BY <1>2 DEF Entry, WithValue
    <2>5. Only(x, {key}) = Cons(f, r)
      BY <1>3, <2>2
    <2> HIDE DEF f
    <2>6. Pairs(Cons(f, r)) = Cons(PairOf(f), o)
      BY <2>4, PairsCons
    <2>7. Put(Stacks(h), Stacks(g), key, Cons(PairOf(f), o))
      BY <2>3, <2>5, <2>6
    <2> QED
      BY <2>7 DEF f
  <1> QED
    BY <1>2, <1>7, <1>8, <1>10, <1>11

(* An entry that goes is taken out of the stack of its key.                 *)
LEMMA TakenStacks ==
    ASSUME NEW h, Sound(h), NEW i \in 0 .. SizeOf(h) - 1, NEW p \in 1 .. Len(h.table[i]),
           NEW g, g = Unlinked(h, i, p)
    PROVE  \E k \in Keys : \E n \in DOMAIN Stacks(h)[k] :
              Put(Stacks(h), Stacks(g), k, RemoveAt(Stacks(h)[k], n))
  <1> DEFINE s == h.table[i]
             x == Dropped(s, p)
             e == s[p]
             k == e.key
  <1>1. /\ s \in Seq(Entry) /\ \A f \in ToSet(s) : indexFor(SizeOf(h), f.key) = i
    BY SoundFacts
  <1>2. Sound(g) /\ SizeOf(g) = SizeOf(h) /\ Replaced(h.table, g.table, i, x, SizeOf(h))
    BY DroppedSound
  <1>3. e \in Entry /\ k \in Keys /\ indexFor(SizeOf(h), k) = i
    <2>1. e \in Entry /\ e \in ToSet(s)
      BY <1>1 DEF ToSet
    <2> QED
      BY <1>1, <2>1 DEF Entry
  <1>4. ChainOf(h, k, i, s)
    BY <1>3 DEF ChainOf
  <1> HIDE DEF s, k
  <1>5. p \in 1 .. Len(s)
    BY DEF s
  <1>6. OthersSame(s, x, k)
    <2>1. ASSUME NEW j \in Keys, j # k PROVE Only(x, {j}) = Only(s, {j})
      <3>1. s[p].key # j
        BY <2>1 DEF k
      <3> QED
        BY <1>1, <1>5, <3>1, OnlyOthers
    <2> QED
      BY <2>1 DEF OthersSame
  <1> DEFINE o == Only(s, {k})
             w == Only(x, {k})
  <1>7. PICK n \in DOMAIN Pairs(o) : Pairs(w) = RemoveAt(Pairs(o), n)
    <2>1. s[p].key = k
      BY DEF k
    <2> QED
      BY <1>1, <1>5, <2>1, OnlyTakes
  <1> HIDE DEF x, o, w, e
  <1>8. Put(Stacks(h), Stacks(g), k, Pairs(w))
    <2>1. Put(Stacks(h), Stacks(g), k, Pairs(Only(x, {k})))
      BY <1>2, <1>3, <1>4, <1>6, StacksReplaced
    <2> QED
      BY <2>1 DEF w
  <1>9. Stacks(h)[k] = Pairs(o)
    <2>1. Stacks(h)[k] = Pairs(EntriesOf(h, k))
      BY <1>3, StacksAre
    <2>2. EntriesOf(h, k) = o
      BY <1>4 DEF ChainOf, EntriesOf, o
    <2> QED
      BY <2>1, <2>2
  <1>10. Put(Stacks(h), Stacks(g), k, RemoveAt(Stacks(h)[k], n))
    BY <1>7, <1>8, <1>9
  <1> QED
    BY <1>3, <1>7, <1>9, <1>10

----------------------------------------------------------------------------
(* The calls. *)

(* What Find says of the key's stack.                                       *)
LEMMA FindStack ==
    ASSUME Sound(htable), NEW key \in Keys
    PROVE  /\ Find(key) = 0 => Stacks(htable)[key] = <<>>
           /\ Find(key) # 0 => \E i, s : /\ i = Index(key) /\ s = Chain(key)
                                         /\ ChainOf(htable, key, i, s) /\ Find(key) \in 1 .. Len(s)
                                         /\ First(s, Find(key), key)
  <1> DEFINE i == Index(key)
             s == Chain(key)
             f == Find(key)
  <1>1. i = indexFor(SizeOf(htable), key) /\ s = htable.table[i] /\ s \in Seq(Entry)
    BY ChainIs
  <1>2. ChainOf(htable, key, i, s)
    BY <1>1 DEF ChainOf
  <1>3. \/ f = 0 /\ \A e \in ToSet(s) : e.key # key
        \/ /\ f \in 1 .. Len(s) /\ f # 0 /\ s[f].key = key
           /\ \A j \in 1 .. f - 1 : s[j].key # key
    <2>1. ASSUME NEW z \in Seq(Entry), z = Chain(key), NEW p, p = Find(key)
          PROVE  \/ p = 0 /\ \A e \in ToSet(z) : e.key # key
                 \/ /\ p \in 1 .. Len(z) /\ p # 0 /\ z[p].key = key
                    /\ \A j \in 1 .. p - 1 : z[j].key # key
      BY <2>1, FindIs
    <2> HIDE DEF s, f
    <2> QED
      BY <1>1, <2>1 DEF s, f
  <1> HIDE DEF f, s, i
  <1>4. f = 0 => Stacks(htable)[key] = <<>>
    <2> SUFFICES ASSUME f = 0 PROVE Stacks(htable)[key] = <<>>
      OBVIOUS
    <2>1. \A e \in ToSet(s) : e.key \notin {key}
      BY <1>3
    <2>2. Only(s, {key}) = <<>>
      BY <1>1, <2>1, OnlyNone
    <2>3. EntriesOf(htable, key) = Only(s, {key})
      BY <1>2 DEF ChainOf, EntriesOf
    <2>4. Stacks(htable)[key] = Pairs(EntriesOf(htable, key))
      BY StacksAre
    <2> QED
      BY <2>2, <2>3, <2>4, PairsEmpty
  <1>5. f # 0 => f \in 1 .. Len(s) /\ First(s, f, key)
    BY <1>3 DEF First
  <1>6. f # 0 => ChainOf(htable, key, i, s) /\ f \in 1 .. Len(s) /\ First(s, f, key)
    BY <1>2, <1>5
  <1> QED
    BY <1>4, <1>6 DEF f, s, i

(* What a call by key finds and changes, on the stacks.                     *)
AtTop(q, r, key) ==
    /\ Contents[key] = Cons(q, r) /\ q.value = Found(key).value
    /\ \A g : g = Unlinked(htable, Index(key), Find(key)) => Put(Contents, Stacks(g), key, r)
    /\ \A g : \A v \in Values : g = Stored(htable, Index(key), Find(key), v) =>
          \E f \in Pair : f = WithValue(q, v) /\ Put(Contents, Stacks(g), key, Cons(f, r))

LEMMA CallIs ==
    ASSUME Sound(htable), NEW key \in Keys, Find(key) # 0
    PROVE  \E q \in Pair : \E r \in Seq(Pair) : AtTop(q, r, key)
  <1> DEFINE p == Find(key)
  <1>1. PICK i, s : i = Index(key) /\ s = Chain(key) /\ ChainOf(htable, key, i, s) /\ p \in 1 .. Len(s)
                    /\ First(s, p, key)
    BY FindStack
  <1>2. Found(key) = s[p]
    BY <1>1 DEF Found
  <1> HIDE DEF p
  <1>3. PICK q \in Pair, r \in Seq(Pair) :
              /\ q = PairOf(s[p]) /\ s[p] \in Entry
              /\ Stacks(htable)[key] = Cons(q, r)
              /\ \A g : g = Unlinked(htable, i, p) => Put(Stacks(htable), Stacks(g), key, r)
              /\ \A g : \A v \in Values : g = Stored(htable, i, p, v) =>
                    Put(Stacks(htable), Stacks(g), key, Cons(PairOf(WithValue(s[p], v)), r))
    BY <1>1, TopStacks
  <1>4. q.value = s[p].value
    BY <1>3, PairOfIs
  <1>5. ASSUME NEW v \in Values
        PROVE  PairOf(WithValue(s[p], v)) \in Pair /\ PairOf(WithValue(s[p], v)) = WithValue(q, v)
    <2>1. s[p] \in Entry /\ q = PairOf(s[p])
      BY <1>3
    <2>2. ASSUME NEW e \in Entry
          PROVE  PairOf(WithValue(e, v)) \in Pair /\ PairOf(WithValue(e, v)) = WithValue(PairOf(e), v)
      BY DEF PairOf, WithValue, Entry, Pair
    <2> QED
      BY <2>1, <2>2
  <1>6. Contents = Stacks(htable)
    BY ContentsAre
  <1>7. Contents[key] = Cons(q, r) /\ q.value = Found(key).value
    BY <1>2, <1>3, <1>4, <1>6
  <1>8. \A g : g = Unlinked(htable, Index(key), Find(key)) => Put(Contents, Stacks(g), key, r)
    BY <1>1, <1>3, <1>6 DEF p
  <1>9. ASSUME NEW g, NEW v \in Values, g = Stored(htable, Index(key), Find(key), v)
        PROVE  \E f \in Pair : f = WithValue(q, v) /\ Put(Contents, Stacks(g), key, Cons(f, r))
    <2>1. Put(Contents, Stacks(g), key, Cons(PairOf(WithValue(s[p], v)), r))
      BY <1>1, <1>3, <1>6, <1>9 DEF p
    <2> QED
      BY <1>5, <2>1
  <1> QED
    BY <1>7, <1>8, <1>9 DEF AtTop

(* The abstract table's helpers on sequences are the same.                  *)
LEMMA SameHelpers ==
    /\ \A s : Table!ToSet(s) = ToSet(s) /\ Table!Reverse(s) = Reverse(s)
    /\ \A s, n : Table!RemoveAt(s, n) = RemoveAt(s, n)
  <1>1. ASSUME NEW s PROVE Table!ToSet(s) = ToSet(s)
    BY DEF Table!ToSet, ToSet
  <1>2. ASSUME NEW s PROVE Table!Reverse(s) = Reverse(s)
    BY DEF Table!Reverse, Reverse
  <1>3. ASSUME NEW s, NEW n PROVE Table!RemoveAt(s, n) = RemoveAt(s, n)
    BY DEF Table!RemoveAt, RemoveAt
  <1> QED
    BY <1>1, <1>2, <1>3

LEMMA OrderedIs == Table!Ordered = {Contents, [k \in Keys |-> Reverse(Contents[k])]}
  BY SameHelpers DEF Table!Ordered

LEMMA InsertMaps ==
    ASSUME Right(htable, iter), Right(htable', iter'), NEW key \in Keys, NEW value \in Values,
           pet_htable_insert(key, value)
    PROVE  Table!Next
  <1>1. MayInsert /\ answer' = <<>>
    BY DEF pet_htable_insert
  <1>2. PICK h \in IF Full THEN Expand(htable) ELSE {htable},
             new_entry \in Entries \ Addresses(htable.table) :
                htable' = Linked(h, [entry |-> new_entry, key |-> key, value |-> value])
    BY DEF pet_htable_insert
  <1> DEFINE e == [entry |-> new_entry, key |-> key, value |-> value]
             c == Stacks(h)
             d == Stacks(Linked(h, e))
  <1>3. e \in Entry /\ e.entry = new_entry /\ e.key = key /\ htable' = Linked(h, e)
        /\ PairOf(e) = [entry |-> new_entry, value |-> value]
    BY <1>2 DEF Entry, PairOf
  <1> HIDE DEF e
  <1>4. /\ Sound(h) /\ Addresses(h.table) = Addresses(htable.table)
        /\ SameOrder(htable, h) \/ Reversed(htable, h)
    BY <1>1, <1>2, GrownRight
  <1>5. Contents = Stacks(htable) /\ Contents' = d /\ Sound(htable)
    BY <1>3, ContentsAre DEF Right
  <1>6. c \in {Contents, [k \in Keys |-> Reverse(Contents[k])]}
    BY <1>4, <1>5, GrownStacks
  <1>7. c \in [Keys -> Seq(Pair)]
    BY <1>4, StacksAre
  <1>8. Put(c, d, key, Cons(PairOf(e), c[key]))
    <2>1. e.entry \notin Addresses(h.table)
      BY <1>2, <1>3, <1>4
    <2>2. Put(Stacks(h), Stacks(Linked(h, e)), e.key, Cons(PairOf(e), Stacks(h)[e.key]))
      BY <1>3, <1>4, <2>1, LinkedStacks
    <2> QED
      BY <1>3, <2>2
  <1> HIDE DEF c, d
  <1>9. d = [c EXCEPT ![key] = Cons(PairOf(e), c[key])]
    BY <1>7, <1>8, PutIs
  <1>10. Contents' = [c EXCEPT ![key] = <<[entry |-> new_entry, value |-> value]>> \o @]
    BY <1>3, <1>5, <1>9 DEF Cons
  <1>11. ASSUME NEW k \in Keys, NEW s \in ToSet(Contents[k]) PROVE s.entry # new_entry
    <2> DEFINE es == EntriesOf(htable, k)
    <2>1. Contents[k] = Pairs(es)
      BY <1>5, StacksAre
    <2>2. es \in Seq(Entry) /\ \A f \in ToSet(es) : f.entry \in Addresses(htable.table)
      BY <1>5, EntriesAre
    <2> HIDE DEF es
    <2>3. PICK n \in 1 .. Len(es) : s = PairOf(es[n])
      <3>1. Pairs(es) \in Seq(Pair) /\ Len(Pairs(es)) = Len(es)
            /\ \A n \in 1 .. Len(es) : Pairs(es)[n] = PairOf(es[n])
        BY <2>2, PairsAre
      <3>2. DOMAIN Pairs(es) = 1 .. Len(es)
        BY <3>1
      <3>3. s \in ToSet(Pairs(es))
        BY <1>11, <2>1
      <3> QED
        BY <3>1, <3>2, <3>3 DEF ToSet
    <2>4. es[n] \in Entry /\ es[n] \in ToSet(es)
      BY <2>2 DEF ToSet
    <2>5. s.entry = es[n].entry
      BY <2>3, <2>4, PairOfIs
    <2> QED
      BY <1>2, <2>2, <2>4, <2>5
  <1>12. new_entry \notin Table!Stored
    <2>1. Table!Stored = {s.entry : s \in UNION {ToSet(Contents[k]) : k \in Keys}}
      BY SameHelpers DEF Table!Stored
    <2> QED
      BY <1>11, <2>1
  <1>13. Table!Insert(new_entry, key, value)
    <2>1. c \in Table!Ordered
      BY <1>6, OrderedIs
    <2> QED
      BY <1>1, <1>10, <1>12, <2>1 DEF Table!Insert
  <1> QED
    BY <1>2, <1>13 DEF Table!Next, Values

LEMMA OtherMaps ==
    ASSUME Contents' \in Table!Ordered, answer' = <<>>
    PROVE  Table!Next
  BY DEF Table!Next, Table!Other

LEMMA InsertFailsMaps ==
    ASSUME Right(htable, iter), InsertFails
    PROVE  Table!Next
  <1>1. MayInsert /\ htable' \in (IF Full THEN Expand(htable) ELSE {htable}) /\ answer' = <<>>
    BY DEF InsertFails
  <1>2. Sound(htable') /\ (SameOrder(htable, htable') \/ Reversed(htable, htable')) /\ Sound(htable)
    BY <1>1, GrownRight DEF Right
  <1>3. Stacks(htable') \in {Stacks(htable), [k \in Keys |-> Reverse(Stacks(htable)[k])]}
    BY <1>2, GrownStacks
  <1>4. Contents = Stacks(htable) /\ Contents' = Stacks(htable')
    BY <1>2, ContentsAre
  <1> QED
    BY <1>1, <1>3, <1>4, OtherMaps, OrderedIs

LEMMA NotFoundMaps ==
    ASSUME Right(htable, iter), NEW key \in Keys, NotFound(key)
    PROVE  Table!Next
  <1>1. Find(key) = 0 /\ answer' = <<key, 0>> /\ htable' = htable
    BY DEF NotFound
  <1>2. Contents[key] = <<>> /\ Contents' = Contents
    BY <1>1, FindStack, ContentsAre DEF Right
  <1> QED
    BY <1>1, <1>2 DEF Table!Next, Table!Absent

LEMMA SearchMaps ==
    ASSUME Right(htable, iter), NEW key \in Keys, pet_htable_search(key)
    PROVE  Table!Next
  <1>1. Find(key) # 0 /\ answer' = <<key, Found(key).value>> /\ htable' = htable
    BY DEF pet_htable_search
  <1>2. Contents' = Contents
    BY <1>1, ContentsAre DEF Right
  <1>3. PICK q \in Pair, r \in Seq(Pair) : AtTop(q, r, key)
    BY <1>1, CallIs DEF Right
  <1>4. Contents[key] # <<>> /\ Head(Contents[key]).value = Found(key).value
    BY <1>3, TopIs DEF AtTop
  <1> QED
    BY <1>1, <1>2, <1>4 DEF Table!Next, Table!Search

LEMMA UpdateMaps ==
    ASSUME Right(htable, iter), Right(htable', iter'), NEW key \in Keys, NEW value \in Values,
           Update(key, value)
    PROVE  Table!Next
  <1>1. Find(key) # 0 /\ answer' = <<key, -1>>
    BY DEF Update
  <1>2. PICK v \in Values : Store(key, v)
    BY UpdateStores
  <1>3. PICK q \in Pair, r \in Seq(Pair) : AtTop(q, r, key)
    BY <1>1, CallIs DEF Right
  <1>4. htable' = Stored(htable, Index(key), Find(key), v)
    BY <1>2 DEF Store, Stored
  <1>5. Contents \in [Keys -> Seq(Pair)] /\ Contents' = Stacks(htable')
    BY ContentsAre, StacksAre DEF Right
  <1>6. PICK f \in Pair : f = WithValue(q, v) /\ Put(Contents, Contents', key, Cons(f, r))
    <2>1. \E f \in Pair : f = WithValue(q, v) /\ Put(Contents, Stacks(htable'), key, Cons(f, r))
      BY <1>3, <1>4 DEF AtTop
    <2> QED
      BY <1>5, <2>1
  <1>7. Contents[key] = Cons(q, r) /\ Contents[key] # <<>>
    BY <1>3, TopIs DEF AtTop
  <1>8. Contents' = TopStored(Contents, key, v)
    <2>1. ASSUME NEW c \in [Keys -> Seq(Pair)], NEW d, c[key] = Cons(q, r), Put(c, d, key, Cons(f, r))
          PROVE  d = TopStored(c, key, v)
      <3>1. f = WithValue(q, v)
        BY <1>6
      <3> QED
        BY <2>1, <3>1, TopStoredIs
    <2> QED
      BY <1>5, <1>6, <1>7, <2>1
  <1> QED
    BY <1>1, <1>7, <1>8 DEF Table!Next, Table!Update, Values, TopStored

LEMMA RemoveMaps ==
    ASSUME Right(htable, iter), Right(htable', iter'), NEW key \in Keys, pet_htable_remove(key)
    PROVE  Table!Next
  <1>1. Find(key) # 0 /\ answer' = <<key, Found(key).value>>
    BY DEF pet_htable_remove
  <1>2. htable' = Unlinked(htable, Index(key), Find(key))
    BY DEF pet_htable_remove, Unlinked, Dropped, RemoveAt, Before, After
  <1>3. PICK q \in Pair, r \in Seq(Pair) : AtTop(q, r, key)
    BY <1>1, CallIs DEF Right
  <1>4. Contents \in [Keys -> Seq(Pair)] /\ Contents' = Stacks(htable')
    BY ContentsAre, StacksAre DEF Right
  <1>5. Put(Contents, Contents', key, r)
    BY <1>2, <1>3, <1>4 DEF AtTop
  <1>6. Contents[key] # <<>> /\ Head(Contents[key]).value = Found(key).value /\ Tail(Contents[key]) = r
    BY <1>3, TopIs DEF AtTop
  <1>7. Contents' = [Contents EXCEPT ![key] = r]
    BY <1>4, <1>5, PutIs
  <1>8. Contents' = [Contents EXCEPT ![key] = Tail(@)]
    BY <1>6, <1>7
  <1> QED
    BY <1>1, <1>6, <1>8 DEF Table!Next, Table!RemoveTop

LEMMA IterRemoveMaps ==
    ASSUME Right(htable, iter), Right(htable', iter'), pet_htable_iter_remove
    PROVE  Table!Next
  <1>1. Sound(htable) /\ iter # NoIter /\ iter.entry # NULL /\ answer' = <<>>
    BY DEF Right, pet_htable_iter_remove
  <1>2. /\ iter.index \in 0 .. SizeOf(htable) - 1
        /\ \E p \in 1 .. Len(htable.table[iter.index]) : AtPlace(htable.table, iter, p)
    BY <1>1, HasPlace
  <1>3. PICK p \in 1 .. Len(htable.table[iter.index]) : AtPlace(htable.table, iter, p)
    BY <1>2
  <1>4. htable' = Unlinked(htable, iter.index, p)
    BY <1>3, IterRemoves
  <1>5. Contents = Stacks(htable) /\ Contents \in [Keys -> Seq(Pair)] /\ Contents' = Stacks(htable')
    BY ContentsAre, StacksAre DEF Right
  <1>6. \E k \in Keys : \E n \in DOMAIN Stacks(htable)[k] :
           Put(Stacks(htable), Stacks(htable'), k, RemoveAt(Stacks(htable)[k], n))
    <2>1. ASSUME NEW g, g = Unlinked(htable, iter.index, p)
          PROVE  \E k \in Keys : \E n \in DOMAIN Stacks(htable)[k] :
                    Put(Stacks(htable), Stacks(g), k, RemoveAt(Stacks(htable)[k], n))
      BY <1>1, <1>2, <2>1, TakenStacks
    <2> QED
      BY <1>4, <2>1
  <1>7. PICK k \in Keys : \E n \in DOMAIN Contents[k] : Put(Contents, Contents', k, RemoveAt(Contents[k], n))
    BY <1>5, <1>6
  <1>8. PICK n \in DOMAIN Contents[k] : Put(Contents, Contents', k, RemoveAt(Contents[k], n))
    BY <1>7
  <1>9. Contents' = [Contents EXCEPT ![k] = RemoveAt(Contents[k], n)]
    <2> DEFINE x == RemoveAt(Contents[k], n)
    <2> HIDE DEF x
    <2>1. Put(Contents, Contents', k, x)
      BY <1>8 DEF x
    <2>2. Contents' = [Contents EXCEPT ![k] = x]
      BY <1>5, <2>1, PutIs
    <2> QED
      BY <2>2 DEF x
  <1>10. Table!IterRemove(k)
    <2>1. Contents' = [Contents EXCEPT ![k] = Table!RemoveAt(Contents[k], n)]
      BY <1>9, SameHelpers
    <2> QED
      BY <1>1, <1>8, <2>1 DEF Table!IterRemove
  <1> QED
    BY <1>10 DEF Table!Next

(* The iterators' other calls, and the ends of the model.                   *)
LEMMA SameMaps ==
    ASSUME htable' = htable, answer' = <<>>
    PROVE  Table!Next
  <1>1. Contents' = Contents
    BY DEF Contents, OfKey, Chain, Index
  <1> QED
    BY <1>1, OtherMaps DEF Table!Ordered

LEMMA TableStepMaps ==
    TableInv /\ TableInv' /\ [TableNext]_table_vars => [Table!Next]_<<Contents, answer>>
  <1> SUFFICES ASSUME TableInv, TableInv', [TableNext]_table_vars
               PROVE  Table!Next \/ UNCHANGED <<Contents, answer>>
    OBVIOUS
  <1>0. Right(htable, iter) /\ Right(htable', iter')
    BY InvIs, InvIsNext
  <1>1. ASSUME UNCHANGED <<htable, answer>> PROVE UNCHANGED <<Contents, answer>>
    BY <1>1 DEF Contents, OfKey, Chain, Index
  <1>2. ASSUME NEW key \in Keys, NEW value \in Values,
               pet_htable_insert(key, value) \/ Update(key, value)
        PROVE  Table!Next
    BY <1>0, <1>2, InsertMaps, UpdateMaps
  <1>3. ASSUME NEW key \in Keys, NotFound(key) \/ pet_htable_search(key) \/ pet_htable_remove(key)
        PROVE  Table!Next
    BY <1>0, <1>3, NotFoundMaps, SearchMaps, RemoveMaps
  <1>4. ASSUME InsertFails \/ pet_htable_iter_remove PROVE Table!Next
    BY <1>0, <1>4, InsertFailsMaps, IterRemoveMaps
  <1>5. ASSUME NEW key \in Keys, pet_htable_iter_search(key) PROVE Table!Next
    <2>1. htable' = htable /\ answer' = <<>>
      BY <1>5 DEF pet_htable_iter_search
    <2> QED
      BY <2>1, SameMaps
  <1>6. ASSUME pet_htable_create_iter \/ pet_htable_iter_advance \/ pet_htable_free_iter PROVE Table!Next
    <2>1. htable' = htable /\ answer' = <<>>
      BY <1>6 DEF pet_htable_create_iter, pet_htable_iter_advance, pet_htable_free_iter
    <2> QED
      BY <2>1, SameMaps
  <1>7. ASSUME ExpandByRealloc \/ pet_free_htable \/ UNCHANGED table_vars
        PROVE  UNCHANGED <<Contents, answer>>
    BY <1>1, <1>7 DEF ExpandByRealloc, pet_free_htable, table_vars
  <1> QED
    BY <1>2, <1>3, <1>4, <1>5, <1>6, <1>7 DEF TableNext

LEMMA TableInitMaps == TableInit => Table!Init
  <1> SUFFICES ASSUME TableInit PROVE Table!Init
    OBVIOUS
  <1>1. Sound(htable) /\ answer = <<>>
    BY InitRight DEF Right, TableInit
  <1>2. \A i \in DOMAIN htable.table : htable.table[i] = <<>>
    BY DEF TableInit
  <1>3. ASSUME NEW k \in Keys PROVE Stacks(htable)[k] = <<>>
    <2>1. indexFor(SizeOf(htable), k) \in DOMAIN htable.table
      BY <1>1, EntriesAre, SoundFacts
    <2>2. EntriesOf(htable, k) = <<>>
      BY <1>2, <2>1, OnlyRecursion DEF EntriesOf
    <2> QED
      BY <1>1, <2>2, StacksAre, PairsEmpty
  <1>4. Contents = [k \in Keys |-> <<>>]
    BY <1>1, <1>3, ContentsAre, StacksAre
  <1> QED
    BY <1>1, <1>4 DEF Table!Init

(* The calls of pet_hashtable.c are those on one stack of values per key,   *)
(* of which hashtable_expand may reverse all: a call by key finds, changes  *)
(* or removes the top, and says so when there is none.                      *)
THEOREM TableImplementsStacks == TableSpec => TableContract
  BY TableInitMaps, TableStepMaps, TableSafe, PTL DEF TableSpec, TableContract, Table!Spec

=============================================================================
