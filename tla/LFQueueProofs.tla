--------------------------- MODULE LFQueueProofs ---------------------------
(***************************************************************************)
(* Proofs about the lock-free queue, for any finite set of producers and   *)
(* any number of iterations: lf_enqueue is an atomic append, the tail lags *)
(* by at most one node and only moves forward.  (QueueInv also says why    *)
(* lf_dequeue never finds a node.)                                         *)
(***************************************************************************)
EXTENDS LFQueue, FiniteSetTheorems, WellFoundedInduction, TLAPS

----------------------------------------------------------------------------
(* Induction over the naturals, and functions defined by it.  A predicate   *)
(* is given as the set of numbers that satisfy it.                          *)

LEMMA SetInduction ==
    ASSUME NEW P \in SUBSET Nat, 0 \in P, \A n \in P : n + 1 \in P
    PROVE  P = Nat
  <1> SUFFICES ASSUME Nat \ P # {} PROVE FALSE
    OBVIOUS
  <1>1. PICK x \in Nat \ P : \A y \in Nat \ P : <<y, x>> \notin OpToRel(<, Nat)
    BY NatLessThanWellFounded, WFMin
  <1>2. \A y \in Nat \ P : ~(y < x)
    BY <1>1 DEF OpToRel
  <1>3. x # 0 /\ x - 1 \in Nat /\ x - 1 < x
    OBVIOUS
  <1>4. x - 1 \in P
    BY <1>2, <1>3
  <1>5. (x - 1) + 1 = x
    OBVIOUS
  <1> QED
    BY <1>4, <1>5

(* g is the iteration of step from x0, up to n *)
IteratesTo(S, x0, step, g, n) ==
    /\ g \in [0 .. n -> S] /\ g[0] = x0
    /\ \A m \in 0 .. n - 1 : g[m + 1] = step[g[m]]

Iterates(f, S, x0, step) ==
    /\ f \in [Nat -> S] /\ f[0] = x0
    /\ \A n \in Nat : f[n + 1] = step[f[n]]

LEMMA Iteration ==
    ASSUME NEW S, NEW x0 \in S, NEW step \in [S -> S]
    PROVE  \E f : Iterates(f, S, x0, step)
  <1>1. ASSUME NEW n \in Nat, NEW k \in Nat, NEW g, NEW h, n <= k,
               IteratesTo(S, x0, step, g, n), IteratesTo(S, x0, step, h, k)
        PROVE  \A m \in 0 .. n : g[m] = h[m]
    <2> DEFINE P == {m \in Nat : m <= n => g[m] = h[m]}
    <2>1. 0 \in P
      BY <1>1 DEF IteratesTo
    <2>2. ASSUME NEW m \in P PROVE m + 1 \in P
      BY <1>1, <2>2 DEF IteratesTo
    <2>3. P = Nat
      <3>1. P \in SUBSET Nat
        OBVIOUS
      <3> HIDE DEF P
      <3> QED
        BY <2>1, <2>2, <3>1, SetInduction
    <2> QED
      BY <2>3
  <1>2. \A n \in Nat : \E g : IteratesTo(S, x0, step, g, n)
    <2> DEFINE P == {n \in Nat : \E g : IteratesTo(S, x0, step, g, n)}
    <2>1. 0 \in P
      <3>1. IteratesTo(S, x0, step, [m \in 0 .. 0 |-> x0], 0)
        BY DEF IteratesTo
      <3> QED
        BY <3>1
    <2>2. ASSUME NEW n \in P PROVE n + 1 \in P
      <3>1. PICK g : IteratesTo(S, x0, step, g, n)
        BY <2>2
      <3> DEFINE h == [m \in 0 .. n + 1 |-> IF m <= n THEN g[m] ELSE step[g[n]]]
      <3>2. h \in [0 .. n + 1 -> S] /\ h[0] = x0
        BY <3>1 DEF IteratesTo
      <3>3. ASSUME NEW m \in 0 .. (n + 1) - 1 PROVE h[m + 1] = step[h[m]]
        BY <3>1 DEF IteratesTo
      <3> HIDE DEF h
      <3>4. IteratesTo(S, x0, step, h, n + 1)
        BY <3>2, <3>3 DEF IteratesTo
      <3> QED
        BY <3>4
    <2>3. P = Nat
      <3>1. P \in SUBSET Nat
        OBVIOUS
      <3> HIDE DEF P
      <3> QED
        BY <2>1, <2>2, <3>1, SetInduction
    <2> QED
      BY <2>3
  <1> DEFINE G(n) == CHOOSE g : IteratesTo(S, x0, step, g, n)
             f == [n \in Nat |-> G(n)[n]]
  <1>3. \A n \in Nat : IteratesTo(S, x0, step, G(n), n)
    BY <1>2
  <1> HIDE DEF G
  <1>4. f \in [Nat -> S] /\ f[0] = x0
    BY <1>3 DEF IteratesTo
  <1>5. ASSUME NEW n \in Nat PROVE f[n + 1] = step[f[n]]
    <2>1. G(n + 1)[n] = G(n)[n]
      <3>1. n + 1 \in Nat /\ n <= n + 1 /\ n \in 0 .. n
        OBVIOUS
      <3> QED
        BY <1>1, <1>3, <3>1
    <2>2. G(n + 1)[n + 1] = step[G(n + 1)[n]]
      BY <1>3 DEF IteratesTo
    <2> QED
      BY <2>1, <2>2
  <1> HIDE DEF f
  <1>6. Iterates(f, S, x0, step)
    BY <1>4, <1>5 DEF Iterates
  <1> QED
    BY <1>6

----------------------------------------------------------------------------
(* Walk computes the list that the next fields link. *)

Links == [Nodes -> Nodes \cup {NULL}]

(* Walk satisfies the equation that defines it: there is such a function.   *)
LEMMA WalkEquation ==
    ASSUME NEW nxt \in Links
    PROVE  \A k \in Nat : Walk(nxt)[k] =
              [n \in Nodes \cup {NULL} |->
                 IF n = NULL \/ k = 0 THEN <<>> ELSE <<n>> \o Walk(nxt)[k - 1][nxt[n]]]
  <1> DEFINE N0 == Nodes \cup {NULL}
             S == [N0 -> Seq(Nodes)]
             none == [n \in N0 |-> <<>>]
             step == [g \in S |-> [n \in N0 |-> IF n = NULL THEN <<>>
                                                ELSE <<n>> \o g[nxt[n]]]]
  <1> USE NULLAssumption DEF Links
  <1>1. none \in S
    OBVIOUS
  <1>2. step \in [S -> S]
    <2> SUFFICES ASSUME NEW g \in S, NEW n \in N0
                 PROVE  (IF n = NULL THEN <<>> ELSE <<n>> \o g[nxt[n]]) \in Seq(Nodes)
      OBVIOUS
    <2>1. CASE n # NULL
      <3>1. <<n>> \in Seq(Nodes) /\ g[nxt[n]] \in Seq(Nodes)
        BY <2>1
      <3> QED
        BY <2>1, <3>1
    <2> QED
      BY <2>1
  <1>3. PICK g : Iterates(g, S, none, step)
    <2> HIDE DEF S, none, step
    <2> QED
      BY <1>1, <1>2, Iteration
  <1>4. ASSUME NEW k \in Nat
        PROVE  g[k] = [n \in N0 |-> IF n = NULL \/ k = 0 THEN <<>>
                                    ELSE <<n>> \o g[k - 1][nxt[n]]]
    <2>1. CASE k = 0
      BY <1>3, <2>1 DEF Iterates
    <2>2. CASE k # 0
      <3>1. k - 1 \in Nat /\ k = (k - 1) + 1
        BY <2>2
      <3>2. g[k] = step[g[k - 1]] /\ g[k - 1] \in S
        BY <1>3, <3>1 DEF Iterates
      <3>3. g[k] = [n \in N0 |-> IF n = NULL THEN <<>>
                                 ELSE <<n>> \o g[k - 1][nxt[n]]]
        BY <3>2
      <3> QED
        BY <2>2, <3>3
    <2> QED
      BY <2>1, <2>2
  <1>5. g = [k \in Nat |-> [n \in Nodes \cup {NULL} |->
               IF n = NULL \/ k = 0 THEN <<>> ELSE <<n>> \o g[k - 1][nxt[n]]]]
    <2>1. g \in [Nat -> S]
      BY <1>3 DEF Iterates
    <2> QED
      BY <1>4, <2>1
  <1>6. Walk(nxt) = [k \in Nat |-> [n \in Nodes \cup {NULL} |->
               IF n = NULL \/ k = 0 THEN <<>>
               ELSE <<n>> \o Walk(nxt)[k - 1][nxt[n]]]]
    BY <1>5, Zenon DEF Walk
  <1> QED
    BY <1>6

LEMMA WalkAt ==
    ASSUME NEW nxt \in Links, NEW k \in Nat
    PROVE  /\ Walk(nxt)[k][NULL] = <<>>
           /\ k > 0 => \A n \in Nodes :
                 Walk(nxt)[k][n] = <<n>> \o Walk(nxt)[k - 1][nxt[n]]
  <1>1. Walk(nxt)[k] =
            [n \in Nodes \cup {NULL} |->
                 IF n = NULL \/ k = 0 THEN <<>> ELSE <<n>> \o Walk(nxt)[k - 1][nxt[n]]]
    BY WalkEquation
  <1>2. ASSUME NEW n \in Nodes \cup {NULL}
        PROVE  Walk(nxt)[k][n] = IF n = NULL \/ k = 0 THEN <<>>
                                 ELSE <<n>> \o Walk(nxt)[k - 1][nxt[n]]
    BY <1>1, Zenon
  <1>3. k > 0 => k # 0
    OBVIOUS
  <1> QED
    BY <1>2, <1>3, NULLAssumption, Zenon

LEMMA NodesFinite == IsFiniteSet(Nodes) /\ Cardinality(Nodes) \in Nat
  <1>1. IsFiniteSet(1 .. ITERATIONS)
    BY ITERATIONSAssumption, FS_Interval
  <1>2. IsFiniteSet(Items)
    BY <1>1, RolesAssumption, FS_Product DEF Items
  <1>3. IsFiniteSet({HeadDummy}) /\ IsFiniteSet({HeadDummy} \cup {TailDummy})
    BY FS_Singleton, FS_AddElement
  <1>4. {HeadDummy} \cup {TailDummy} = {HeadDummy, TailDummy}
    OBVIOUS
  <1>5. IsFiniteSet(Nodes)
    BY <1>2, <1>3, <1>4, FS_Union DEF Nodes
  <1> QED
    BY <1>5, FS_CardinalityType

(* A list without repetitions is no longer than there are nodes. *)
LEMMA ChainLength ==
    ASSUME NEW nxt, NEW s, IsChain(nxt, s)
    PROVE  Len(s) \in Nat /\ Len(s) <= Cardinality(Nodes)
  <1>1. s \in [1 .. Len(s) -> Nodes] /\ Len(s) \in Nat
    BY DEF IsChain
  <1>2. \A j, k \in 1 .. Len(s) : s[j] = s[k] => j = k
    BY DEF IsChain
  <1>3. s \in Injection(1 .. Len(s), Nodes)
    BY <1>1, <1>2 DEF Injection, IsInjective
  <1>4. Cardinality(1 .. Len(s)) <= Cardinality(Nodes)
    BY <1>3, NodesFinite, FS_Injection
  <1>5. Cardinality(1 .. Len(s)) = Len(s)
    <2>1. 1 \in Int /\ Len(s) \in Int /\ Len(s) > 0
      BY <1>1 DEF IsChain
    <2> HIDE <1>1, <1>2, <1>3
    <2> QED
      BY <2>1, FS_Interval
  <1> QED
    BY <1>1, <1>4, <1>5

(* Walking from the j-th node, m from the end, gives the rest of the list. *)
Follows(nxt, s, m) ==
    \A j \in 1 .. Len(s) : \A K \in Nat :
        Len(s) = j + m /\ K > m => Walk(nxt)[K][s[j]] = SubSeq(s, j, Len(s))

LEMMA WalkFollows ==
    ASSUME NEW nxt \in Links, NEW s, IsChain(nxt, s)
    PROVE  \A m \in Nat : Follows(nxt, s, m)
  <1> DEFINE P == {m \in Nat : Follows(nxt, s, m)}
  <1>1. s \in Seq(Nodes) /\ Len(s) \in Nat
    BY DEF IsChain
  <1>2. ASSUME NEW j \in 1 .. Len(s), NEW K \in Nat, K > 0
        PROVE  Walk(nxt)[K][s[j]] = <<s[j]>> \o Walk(nxt)[K - 1][nxt[s[j]]]
    <2>1. s[j] \in Nodes
      BY <1>1
    <2> QED
      BY <1>2, <2>1, WalkAt
  <1>3. Follows(nxt, s, 0)
    <2> SUFFICES ASSUME NEW j \in 1 .. Len(s), NEW K \in Nat, Len(s) = j + 0, K > 0
                 PROVE  Walk(nxt)[K][s[j]] = SubSeq(s, j, Len(s))
      BY DEF Follows
    <2>1. j = Len(s) /\ K - 1 \in Nat
      OBVIOUS
    <2>2. nxt[s[j]] = NULL
      BY <2>1 DEF IsChain
    <2>3. Walk(nxt)[K - 1][NULL] = <<>>
      BY <2>1, WalkAt
    <2>4. Walk(nxt)[K][s[j]] = <<s[j]>> \o <<>>
      BY <1>2, <2>2, <2>3, Zenon
    <2>5. SubSeq(s, j, j) = <<s[j]>>
      <3> DEFINE a == SubSeq(s, j, j)
                 b == <<s[j]>>
      <3>1. a \in Seq(Nodes) /\ Len(a) = 1 /\ a[1] = s[j]
        BY <1>1
      <3>2. b \in Seq(Nodes) /\ Len(b) = 1 /\ b[1] = s[j]
        BY <1>1
      <3> HIDE DEF a, b
      <3>3. a = b
        BY <3>1, <3>2
      <3> QED
        BY <3>3 DEF a, b
    <2>6. <<s[j]>> \o <<>> = <<s[j]>>
      OBVIOUS
    <2> QED
      BY <2>1, <2>4, <2>5, <2>6, Zenon
  <1>4. ASSUME NEW m \in Nat, Follows(nxt, s, m) PROVE Follows(nxt, s, m + 1)
    <2> SUFFICES ASSUME NEW j \in 1 .. Len(s), NEW K \in Nat,
                        Len(s) = j + (m + 1), K > m + 1
                 PROVE  Walk(nxt)[K][s[j]] = SubSeq(s, j, Len(s))
      BY DEF Follows
    <2>1. /\ j + 1 \in 1 .. Len(s) /\ j \in 1 .. Len(s) - 1 /\ Len(s) = (j + 1) + m
          /\ K - 1 \in Nat /\ K - 1 > m /\ K > 0
      BY <1>1
    <2>2. nxt[s[j]] = s[j + 1]
      BY <2>1 DEF IsChain
    <2>3. Walk(nxt)[K - 1][s[j + 1]] = SubSeq(s, j + 1, Len(s))
      BY <1>4, <2>1, Zenon DEF Follows
    <2>4. Walk(nxt)[K][s[j]] = <<s[j]>> \o SubSeq(s, j + 1, Len(s))
      BY <1>2, <2>1, <2>2, <2>3, Zenon
    <2>5. <<s[j]>> \o SubSeq(s, j + 1, Len(s)) = SubSeq(s, j, Len(s))
      BY <1>1, <2>1
    <2> QED
      BY <2>4, <2>5
  <1>5. P = Nat
    <2>1. P \in SUBSET Nat /\ 0 \in P /\ \A m \in P : m + 1 \in P
      BY <1>3, <1>4
    <2> HIDE DEF P
    <2> QED
      BY <2>1, SetInduction
  <1> QED
    BY <1>5

(* There is one list, and Walk finds it. *)
LEMMA ChainUnique ==
    ASSUME NEW nxt \in Links, NEW s, IsChain(nxt, s)
    PROVE  Walk(nxt)[Cardinality(Nodes)][TailDummy] = s
  <1>1. s \in Seq(Nodes) /\ s[1] = TailDummy /\ 1 \in 1 .. Len(s)
    BY DEF IsChain
  <1>2. Cardinality(Nodes) \in Nat /\ Cardinality(Nodes) > Len(s) - 1
    BY ChainLength, NodesFinite
  <1>3. Walk(nxt)[Cardinality(Nodes)][s[1]] = SubSeq(s, 1, Len(s))
    <2>1. Len(s) - 1 \in Nat /\ Len(s) = 1 + (Len(s) - 1)
      BY <1>1
    <2>2. Follows(nxt, s, Len(s) - 1)
      BY <2>1, WalkFollows
    <2> QED
      BY <1>1, <1>2, <2>1, <2>2, Zenon DEF Follows
  <1>4. SubSeq(s, 1, Len(s)) = s
    BY <1>1
  <1> QED
    BY <1>1, <1>3, <1>4

LEMMA ListShape ==
    ASSUME NEW nxt \in Links, NEW s, IsChain(nxt, s)
    PROVE  /\ TailDummy \in Elems(s) /\ s[Len(s)] \in Elems(s)
           /\ Elems(s) \subseteq Nodes
           /\ \A n \in Elems(s) : nxt[n] = NULL <=> n = s[Len(s)]
           /\ \A n \in Elems(s) : nxt[n] # NULL => nxt[n] \in Elems(s)
  <1>1. /\ s \in Seq(Nodes) /\ Len(s) \in Nat /\ Len(s) > 0 /\ s[1] = TailDummy
        /\ 1 \in 1 .. Len(s) /\ Len(s) \in 1 .. Len(s)
        /\ nxt[s[Len(s)]] = NULL
    BY DEF IsChain
  <1>2. TailDummy \in Elems(s) /\ s[Len(s)] \in Elems(s) /\ Elems(s) \subseteq Nodes
    BY <1>1 DEF Elems
  <1>3. ASSUME NEW n \in Elems(s), n # s[Len(s)]
        PROVE  nxt[n] # NULL /\ nxt[n] \in Elems(s)
    <2>1. PICK k \in 1 .. Len(s) : n = s[k]
      BY DEF Elems
    <2>2. k \in 1 .. Len(s) - 1 /\ k + 1 \in 1 .. Len(s)
      BY <1>1, <1>3, <2>1
    <2>3. nxt[n] = s[k + 1]
      BY <2>1, <2>2 DEF IsChain
    <2> QED
      BY <1>1, <2>2, <2>3, NULLAssumption DEF Elems
  <1> QED
    BY <1>1, <1>2, <1>3

(* Linking a new node behind the last one extends the list by it. *)
LEMMA ListGrows ==
    ASSUME NEW nxt \in Links, NEW s, IsChain(nxt, s),
           NEW m \in Nodes, m \notin Elems(s), nxt[m] = NULL,
           NEW nxt2, nxt2 = [nxt EXCEPT ![s[Len(s)]] = m]
    PROVE  /\ nxt2 \in Links /\ IsChain(nxt2, Append(s, m))
           /\ Elems(Append(s, m)) = Elems(s) \cup {m}
  <1> DEFINE r == Append(s, m)
  <1>1. /\ s \in Seq(Nodes) /\ Len(s) \in Nat /\ Len(s) > 0 /\ s[1] = TailDummy
        /\ \A j, k \in 1 .. Len(s) : s[j] = s[k] => j = k
    BY DEF IsChain
  <1>2. /\ r \in Seq(Nodes) /\ Len(r) = Len(s) + 1 /\ r[Len(s) + 1] = m
        /\ \A k \in 1 .. Len(s) : r[k] = s[k]
    BY <1>1
  <1> HIDE DEF r
  <1>3. s[Len(s)] \in Nodes /\ nxt2 \in Links
    BY <1>1 DEF Links
  <1>4. \A k \in 1 .. Len(s) : s[k] # m
    BY DEF Elems
  <1>5. ASSUME NEW k \in 1 .. Len(r) - 1 PROVE nxt2[r[k]] = r[k + 1]
    <2>1. CASE k = Len(s)
      BY <1>1, <1>2, <1>3, <2>1 DEF Links
    <2>2. CASE k # Len(s)
      <3>1. k \in 1 .. Len(s) - 1 /\ k \in 1 .. Len(s) /\ k + 1 \in 1 .. Len(s)
            /\ Len(s) \in 1 .. Len(s)
        BY <1>1, <1>2, <2>2
      <3>2. nxt[s[k]] = s[k + 1]
        BY <3>1 DEF IsChain
      <3>3. s[k] # s[Len(s)] /\ s[k] \in Nodes
        BY <1>1, <2>2, <3>1
      <3> QED
        BY <1>2, <3>1, <3>2, <3>3 DEF Links
    <2> QED
      BY <2>1, <2>2
  <1>6. nxt2[r[Len(r)]] = NULL
    <2>1. r[Len(r)] = m /\ m # s[Len(s)]
      BY <1>1, <1>2, <1>4
    <2> QED
      BY <2>1 DEF Links
  <1>7. ASSUME NEW j \in 1 .. Len(r), NEW k \in 1 .. Len(r), r[j] = r[k] PROVE j = k
    BY <1>1, <1>2, <1>4, <1>7
  <1>8. r[1] = TailDummy
    BY <1>1, <1>2
  <1>9. Elems(r) = Elems(s) \cup {m}
    BY <1>1, <1>2 DEF Elems
  <1>10. IsChain(nxt2, r)
    BY <1>1, <1>2, <1>5, <1>6, <1>7, <1>8 DEF IsChain
  <1> QED
    BY <1>3, <1>9, <1>10 DEF r

----------------------------------------------------------------------------
(* QueueInv is inductive. *)

LEMMA Dummies ==
    /\ HeadDummy \in Nodes /\ TailDummy \in Nodes /\ HeadDummy # TailDummy
    /\ \A t \in Producers : \A v : <<t, v>> # HeadDummy /\ <<t, v>> # TailDummy
    /\ \A t \in Producers : \A v \in 1 .. ITERATIONS : <<t, v>> \in Nodes
  BY RolesAssumption DEF HeadDummy, TailDummy, Nodes, Items

LEMMA InitChain == Init => IsChain(next, <<TailDummy>>) /\ Chain = <<TailDummy>>
  <1> SUFFICES ASSUME Init PROVE IsChain(next, <<TailDummy>>) /\ Chain = <<TailDummy>>
    OBVIOUS
  <1>1. next \in Links
    BY DEF Init, Links
  <1>2. IsChain(next, <<TailDummy>>)
    <2> DEFINE s == <<TailDummy>>
    <2>1. s \in Seq(Nodes) /\ Len(s) = 1 /\ s[1] = TailDummy
      BY Dummies
    <2> HIDE DEF s
    <2>2. IsChain(next, s)
      BY <2>1, Dummies DEF Init, IsChain
    <2> QED
      BY <2>2 DEF s
  <1> QED
    BY <1>1, <1>2, ChainUnique DEF Chain

LEMMA InitInv == Init => QueueInv
  <1> SUFFICES ASSUME Init PROVE QueueInv
    OBVIOUS
  <1>1. TypeOK
    BY ITERATIONSAssumption, Dummies DEF Init, TypeOK
  <1>2. IsChain(next, <<TailDummy>>) /\ Chain = <<TailDummy>>
    BY InitChain
  <1>3. Elems(Chain) = {TailDummy}
    BY <1>2 DEF Elems
  <1>4. HeadAlone /\ PositionsRight
    BY Dummies, RolesAssumption DEF Init, HeadAlone, PositionsRight
  <1>5. ListRight(Chain)
    BY <1>3, Dummies DEF Init, ListRight, Linked
  <1> QED
    BY <1>1, <1>2, <1>4, <1>5 DEF QueueInv

LEMMA LinksKept ==
    ASSUME QueueInv, next' = next
    PROVE  Chain' = Chain /\ IsChain(next, Chain)' /\ next \in Links
  BY DEF QueueInv, TypeOK, Links, Chain, IsChain

(* What QueueInv says of the node of a producer that is calling. *)
LEMMA OwnNode ==
    ASSUME QueueInv, NEW t \in Producers, i[t] < ITERATIONS
    PROVE  /\ i[t] \in Nat /\ i[t] + 1 \in 1 .. ITERATIONS
           /\ q(t) \in Nodes /\ q(t) # NULL
           /\ q(t) \in Elems(Chain) <=> Linked(t)
  <1>1. i[t] \in Nat /\ i[t] + 1 \in 1 .. ITERATIONS /\ ~(i[t] + 1 <= i[t])
    BY ITERATIONSAssumption DEF QueueInv, TypeOK
  <1>2. q(t) \in Nodes /\ q(t) # NULL
    BY <1>1, Dummies, NULLAssumption DEF q
  <1>3. <<t, i[t] + 1>> \in Elems(Chain) <=>
            i[t] + 1 <= i[t] \/ (i[t] + 1 = i[t] + 1 /\ Linked(t))
    BY <1>1, Zenon DEF QueueInv, ListRight
  <1> QED
    BY <1>1, <1>2, <1>3 DEF q

(* Of a producer between the load of the tail and its return. *)
LEMMA LoadedNode ==
    ASSUME QueueInv, NEW t \in Producers,
           pc[t] \in {"link", "test", "next", "help", "swing"}
    PROVE  p[t] \in Elems(Chain) /\ p[t] \in Nodes /\ i[t] < ITERATIONS
  <1>1. p[t] \in Elems(Chain) /\ i[t] < ITERATIONS
    BY DEF QueueInv, ListRight, TypeOK
  <1>2. Elems(Chain) \subseteq Nodes
    BY ListShape DEF QueueInv, TypeOK, Links
  <1> QED
    BY <1>1, <1>2

(* What QueueInv says of producer t, given the list. *)
ProducerRight(t, s) ==
    /\ \A v \in 1 .. ITERATIONS :
          <<t, v>> \in Elems(s) <=>
              v <= i[t] \/ (v = i[t] + 1 /\ Linked(t))
    /\ pc[t] \in {"link", "test", "next", "help", "swing"} => p[t] \in Elems(s)
    /\ pc[t] = "link" => (next[p[t]] = NULL => p[t] = tail)
    /\ pc[t] \in {"test", "next", "help", "swing"} => next[p[t]] # NULL
    /\ pc[t] = "help" => nx[t] = next[p[t]]
    /\ pc[t] = "swing" => next[p[t]] = q(t)

LEMMA ByProducer ==
    /\ QueueInv => \A t \in Producers : ProducerRight(t, Chain)
    /\ ListRight(Chain)' /\ PositionsRight' <=>
          /\ \A n \in Nodes : next'[n] # NULL => n \in Elems(Chain')
          /\ tail' \in Elems(Chain')
          /\ next'[tail'] # NULL => next'[next'[tail']] = NULL
          /\ HeadDummy \notin Elems(Chain')
          /\ \A t \in Producers : ProducerRight(t, Chain)'
  BY DEF QueueInv, ListRight, PositionsRight, ProducerRight, HeadDummy

(* A step that leaves the links and the tail and concerns one producer. *)
LEMMA LocalStep ==
    ASSUME QueueInv, TypeOK', NEW t \in Producers,
           UNCHANGED <<head, tail, next, i>>,
           \A u \in (Producers \cup {Consumer}) \ {t} : pc'[u] = pc[u] /\ p'[u] = p[u],
           \A u \in Producers \ {t} : nx'[u] = nx[u],
           ProducerRight(t, Chain)'
    PROVE  QueueInv'
  <1>1. Chain' = Chain /\ IsChain(next, Chain)'
    BY LinksKept
  <1>2. \A u \in Producers : ProducerRight(u, Chain)'
    <2> SUFFICES ASSUME NEW u \in Producers \ {t} PROVE ProducerRight(u, Chain)'
      OBVIOUS
    <2>1. ProducerRight(u, Chain)
      BY ByProducer
    <2> QED
      BY <1>1, <2>1 DEF ProducerRight, Linked, q
  <1>3. HeadAlone'
    BY RolesAssumption DEF QueueInv, HeadAlone, HeadDummy
  <1>4. ListRight(Chain)' /\ PositionsRight'
    BY <1>1, <1>2, ByProducer DEF QueueInv, ListRight
  <1> QED
    BY <1>1, <1>3, <1>4 DEF QueueInv

LEMMA AllocateInv == ASSUME QueueInv, NEW t \in Producers, Allocate(t) PROVE QueueInv'
  <1>1. pc[t] = "call" /\ i[t] < ITERATIONS /\ ~Linked(t)
    BY DEF Allocate, Linked
  <1>2. q(t) \in Nodes /\ q(t) \notin Elems(Chain)
    BY <1>1, OwnNode
  <1>3. next' = next
    BY <1>2 DEF QueueInv, TypeOK, ListRight, Allocate
  <1>4. TypeOK'
    BY <1>1, <1>3, RolesAssumption DEF QueueInv, TypeOK, Allocate, Goto
  <1>5. pc'[t] = "tail" /\ ~Linked(t)'
    BY DEF QueueInv, TypeOK, Allocate, Goto, Linked
  <1>6. ProducerRight(t, Chain)'
    BY <1>1, <1>3, <1>5, ByProducer, LinksKept DEF ProducerRight, Allocate
  <1> QED
    BY <1>3, <1>4, <1>6, LocalStep DEF Allocate, Goto, QueueInv, TypeOK

LEMMA LoadTailInv == ASSUME QueueInv, NEW t \in Producers, LoadTail(t) PROVE QueueInv'
  <1>1. next' = next /\ i' = i /\ pc[t] = "tail" /\ ~Linked(t)
    BY DEF LoadTail, Linked
  <1>2. TypeOK'
    BY RolesAssumption DEF QueueInv, TypeOK, LoadTail, Goto
  <1>3. pc'[t] = "link" /\ p'[t] = tail /\ tail' = tail /\ ~Linked(t)'
    BY DEF QueueInv, TypeOK, LoadTail, Goto, Linked
  <1>4. tail \in Elems(Chain)
    BY DEF QueueInv, ListRight
  <1>5. ProducerRight(t, Chain)'
    BY <1>1, <1>3, <1>4, ByProducer, LinksKept DEF ProducerRight
  <1> QED
    BY <1>2, <1>5, LocalStep DEF LoadTail, Goto, QueueInv, TypeOK

LEMMA TestLinkedInv == ASSUME QueueInv, NEW t \in Producers, TestLinked(t) PROVE QueueInv'
  <1>1. next' = next /\ i' = i /\ p' = p /\ nx' = nx /\ pc[t] = "test"
    BY DEF TestLinked
  <1>2. TypeOK'
    BY RolesAssumption DEF QueueInv, TypeOK, TestLinked, Goto
  <1>3. pc'[t] = IF next[p[t]] = q(t) THEN "swing" ELSE "next"
    BY DEF QueueInv, TypeOK, TestLinked, Goto
  <1>4. Linked(t)' <=> Linked(t)
    BY <1>1, <1>3 DEF Linked, q
  <1>5. ProducerRight(t, Chain)'
    BY <1>1, <1>3, <1>4, ByProducer, LinksKept DEF ProducerRight, q
  <1> QED
    BY <1>2, <1>5, LocalStep DEF TestLinked, Goto, QueueInv, TypeOK

LEMMA LoadNextInv == ASSUME QueueInv, NEW t \in Producers, LoadNext(t) PROVE QueueInv'
  <1>1. next' = next /\ i' = i /\ p' = p /\ pc[t] = "next" /\ ~Linked(t)
    BY DEF LoadNext, Linked
  <1>2. next[p[t]] \in Nodes \cup {NULL}
    BY <1>1, LoadedNode DEF QueueInv, TypeOK
  <1>3. TypeOK'
    BY <1>2, RolesAssumption DEF QueueInv, TypeOK, LoadNext, Goto
  <1>4. pc'[t] = "help" /\ nx'[t] = next[p[t]] /\ ~Linked(t)'
    BY DEF QueueInv, TypeOK, LoadNext, Goto, Linked
  <1>5. ProducerRight(t, Chain)'
    BY <1>1, <1>4, ByProducer, LinksKept DEF ProducerRight
  <1> QED
    BY <1>3, <1>5, LocalStep DEF LoadNext, Goto, QueueInv, TypeOK

LEMMA ConsumerInv == ASSUME QueueInv, dequeue_fn PROVE QueueInv'
  <1>1. /\ UNCHANGED <<head, tail, next, nx>>
        /\ \A t \in Producers : pc'[t] = pc[t] /\ p'[t] = p[t] /\ i'[t] = i[t]
    BY RolesAssumption DEF QueueInv, TypeOK, dequeue_fn, LoadHead, TestEmpty, NextPass, Goto
  <1>2. Chain' = Chain /\ IsChain(next, Chain)'
    BY <1>1, LinksKept
  <1>3. TypeOK'
    <2>1. CASE LoadHead
      BY <2>1, RolesAssumption DEF QueueInv, TypeOK, LoadHead, Goto
    <2>2. CASE TestEmpty
      BY <2>2, RolesAssumption DEF QueueInv, TypeOK, TestEmpty, Goto
    <2>3. CASE NextPass
      BY <2>3, RolesAssumption DEF QueueInv, TypeOK, NextPass, Goto
    <2> QED
      BY <2>1, <2>2, <2>3 DEF dequeue_fn
  <1>4. HeadAlone'
    <2>1. CASE LoadHead
      BY <2>1 DEF QueueInv, TypeOK, HeadAlone, HeadDummy, LoadHead, Goto
    <2>2. CASE TestEmpty
      BY <2>2 DEF QueueInv, TypeOK, HeadAlone, HeadDummy, TestEmpty, Goto
    <2>3. CASE NextPass
      BY <2>3 DEF QueueInv, TypeOK, HeadAlone, HeadDummy, NextPass, Goto
    <2> QED
      BY <2>1, <2>2, <2>3 DEF dequeue_fn
  <1>5. \A t \in Producers : ProducerRight(t, Chain)'
    BY <1>1, <1>2, ByProducer DEF ProducerRight, Linked, q
  <1>6. ListRight(Chain)' /\ PositionsRight'
    BY <1>1, <1>2, <1>5, ByProducer DEF QueueInv, ListRight
  <1> QED
    BY <1>2, <1>3, <1>4, <1>6 DEF QueueInv

(* The tail moves only from p[t], and then to its successor. *)
LEMMA TailSteps ==
    ASSUME QueueInv, NEW t \in Producers, Help(t) \/ SwingTail(t)
    PROVE  /\ next' = next /\ p' = p /\ nx' = nx /\ head' = head
           /\ tail' \in Elems(Chain)
           /\ tail' # tail => tail' = next[tail] /\ next[tail] # NULL
           /\ next[tail'] # NULL => next[next[tail']] = NULL
           /\ next[tail] = NULL => tail' = tail
  <1>1. next' = next /\ p' = p /\ nx' = nx /\ head' = head /\ pc[t] \in {"help", "swing"}
    BY DEF Help, SwingTail
  <1>2. next[p[t]] # NULL /\ p[t] \in Elems(Chain)
    BY <1>1 DEF QueueInv, PositionsRight, ListRight
  <1>3. tail' = tail \/ (tail = p[t] /\ tail' = next[tail])
    BY DEF QueueInv, PositionsRight, Help, SwingTail, CompareAndSwap, TypeOK
  <1>4. tail \in Elems(Chain) /\ (next[tail] # NULL => next[tail] \in Elems(Chain))
    BY ListShape DEF QueueInv, ListRight, TypeOK, Links
  <1>5. next[tail] # NULL => next[next[tail]] = NULL
    BY DEF QueueInv, ListRight
  <1> QED
    BY <1>1, <1>2, <1>3, <1>4, <1>5

LEMMA HelpInv == ASSUME QueueInv, NEW t \in Producers, Help(t) PROVE QueueInv'
  <1>1. next' = next /\ p' = p /\ nx' = nx /\ head' = head /\ i' = i
    BY DEF Help
  <1>2. Chain' = Chain /\ IsChain(next, Chain)'
    BY <1>1, LinksKept
  <1>3. /\ tail' \in Elems(Chain)
        /\ next[tail'] # NULL => next[next[tail']] = NULL
        /\ next[tail] = NULL => tail' = tail
    BY TailSteps
  <1>4. tail' \in Nodes
    BY <1>3, ListShape DEF QueueInv, TypeOK, Links
  <1>5. TypeOK'
    BY <1>4, RolesAssumption DEF QueueInv, TypeOK, Help, Goto
  <1>6. HeadAlone'
    BY <1>1, RolesAssumption DEF QueueInv, TypeOK, HeadAlone, HeadDummy, Help, Goto
  <1>7. ASSUME NEW u \in Producers PROVE ProducerRight(u, Chain)'
    <2>1. ProducerRight(u, Chain)
      BY ByProducer
    <2>2. pc'[u] = IF u = t THEN "tail" ELSE pc[u]
      BY DEF QueueInv, TypeOK, Help, Goto
    <2>3. Linked(u)' <=> Linked(u)
      BY <1>1, <2>2 DEF Linked, Help, q
    <2>4. next[p[u]] = NULL /\ p[u] = tail => tail' = tail
      BY <1>3
    <2> QED
      BY <1>1, <1>2, <2>1, <2>2, <2>3, <2>4 DEF ProducerRight, q
  <1>8. ListRight(Chain)' /\ PositionsRight'
    BY <1>1, <1>2, <1>3, <1>7, ByProducer DEF QueueInv, ListRight
  <1> QED
    BY <1>2, <1>5, <1>6, <1>8 DEF QueueInv

LEMMA SwingTailInv == ASSUME QueueInv, NEW t \in Producers, SwingTail(t) PROVE QueueInv'
  <1>1. next' = next /\ p' = p /\ nx' = nx /\ head' = head /\ pc[t] = "swing" /\ Linked(t)
    BY DEF SwingTail, Linked
  <1>2. Chain' = Chain /\ IsChain(next, Chain)'
    BY <1>1, LinksKept
  <1>3. /\ tail' \in Elems(Chain)
        /\ next[tail'] # NULL => next[next[tail']] = NULL
        /\ next[tail] = NULL => tail' = tail
    BY TailSteps
  <1>4. tail' \in Nodes
    BY <1>3, ListShape DEF QueueInv, TypeOK, Links
  <1>5. i[t] \in Nat /\ i[t] < ITERATIONS /\ i[t] + 1 <= ITERATIONS
    BY <1>1, ITERATIONSAssumption DEF QueueInv, TypeOK
  <1>6. /\ \A u \in Producers \cup {Consumer} : i'[u] = IF u = t THEN i[t] + 1 ELSE i[u]
        /\ \A u \in Producers \cup {Consumer} :
              pc'[u] = IF u # t THEN pc[u]
                       ELSE IF i[t] + 1 < ITERATIONS THEN "call" ELSE "done"
    BY DEF QueueInv, TypeOK, SwingTail, Goto
  <1>7. TypeOK'
    BY <1>1, <1>4, <1>5, RolesAssumption DEF QueueInv, TypeOK, SwingTail, Goto
  <1>8. HeadAlone'
    BY <1>1, <1>6, RolesAssumption DEF QueueInv, HeadAlone, HeadDummy
  <1>9. ASSUME NEW u \in Producers \ {t} PROVE ProducerRight(u, Chain)'
    <2>1. ProducerRight(u, Chain)
      BY ByProducer
    <2>2. Linked(u)' <=> Linked(u)
      BY <1>1, <1>6 DEF Linked, q
    <2>3. next[p[u]] = NULL /\ p[u] = tail => tail' = tail
      BY <1>3
    <2> QED
      BY <1>1, <1>2, <1>6, <2>1, <2>2, <2>3 DEF ProducerRight, q
  <1>10. ProducerRight(t, Chain)'
    <2>1. ~Linked(t)' /\ pc'[t] \in {"call", "done"} /\ i'[t] = i[t] + 1
      BY <1>6 DEF Linked
    <2>2. \A v \in 1 .. ITERATIONS : <<t, v>> \in Elems(Chain) <=> v <= i[t] + 1
      <3>1. \A v \in 1 .. ITERATIONS :
               <<t, v>> \in Elems(Chain) <=> v <= i[t] \/ v = i[t] + 1
        BY <1>1 DEF QueueInv, ListRight
      <3> QED
        BY <1>5, <3>1
    <2> QED
      BY <1>2, <2>1, <2>2 DEF ProducerRight
  <1>11. ListRight(Chain)' /\ PositionsRight'
    BY <1>1, <1>2, <1>3, <1>9, <1>10, ByProducer DEF QueueInv, ListRight
  <1> QED
    BY <1>2, <1>7, <1>8, <1>11 DEF QueueInv

(* The compare-and-swap of p->next fails when p is no longer the last node. *)
LEMMA FailedLinkInv ==
    ASSUME QueueInv, NEW t \in Producers, Link(t), next[p[t]] # NULL
    PROVE  QueueInv' /\ next' = next /\ ~Linked(t)'
  <1>1. pc[t] = "link" /\ i' = i /\ p' = p /\ nx' = nx /\ tail' = tail /\ head' = head /\ ~Linked(t)
    BY DEF Link, Linked
  <1>2. p[t] \in Elems(Chain) /\ p[t] \in Nodes /\ i[t] < ITERATIONS
    BY <1>1, LoadedNode
  <1>3. next' = next
    BY <1>2 DEF Link, CompareAndSwap, QueueInv, TypeOK
  <1>4. next[p[t]] \in Elems(Chain)
    BY <1>2, ListShape DEF QueueInv, TypeOK, Links
  <1>5. next[p[t]] # q(t)
    BY <1>1, <1>2, <1>4, OwnNode
  <1>6. pc'[t] = "test" /\ ~Linked(t)'
    BY <1>1, <1>3, <1>5 DEF QueueInv, TypeOK, Link, Goto, Linked, q
  <1>7. TypeOK'
    BY <1>1, <1>2, <1>3, RolesAssumption DEF QueueInv, TypeOK, Link, Goto
  <1>8. ProducerRight(t, Chain)'
    BY <1>1, <1>3, <1>6, ByProducer, LinksKept DEF ProducerRight
  <1>9. QueueInv'
    BY <1>1, <1>3, <1>7, <1>8, LocalStep DEF Link, Goto, QueueInv, TypeOK
  <1> QED
    BY <1>3, <1>6, <1>9

(* It succeeds only on the last node, and appends the producer's own.       *)
LEMMA LinkAppends ==
    ASSUME QueueInv, NEW t \in Producers, Link(t), next[p[t]] = NULL
    PROVE  /\ p[t] = Chain[Len(Chain)] /\ p[t] = tail /\ p[t] \in Nodes
           /\ q(t) \in Nodes /\ q(t) \notin Elems(Chain)
           /\ next' = [next EXCEPT ![p[t]] = q(t)]
           /\ Chain' = Append(Chain, q(t)) /\ IsChain(next, Chain)'
           /\ Elems(Chain') = Elems(Chain) \cup {q(t)}
           /\ i[t] \in Nat /\ i[t] + 1 \in 1 .. ITERATIONS
  <1>1. pc[t] = "link" /\ ~Linked(t)
    BY DEF Link, Linked
  <1>2. p[t] \in Elems(Chain) /\ p[t] \in Nodes /\ i[t] < ITERATIONS
    BY <1>1, LoadedNode
  <1>3. p[t] = tail
    BY <1>1 DEF QueueInv, PositionsRight
  <1>4. next \in Links /\ IsChain(next, Chain)
    BY DEF QueueInv, TypeOK, Links
  <1>5. p[t] = Chain[Len(Chain)]
    BY <1>2, <1>4, ListShape
  <1>6. /\ q(t) \in Nodes /\ q(t) \notin Elems(Chain)
        /\ i[t] \in Nat /\ i[t] + 1 \in 1 .. ITERATIONS
    BY <1>1, <1>2, OwnNode
  <1>7. next[q(t)] = NULL
    BY <1>6 DEF QueueInv, ListRight
  <1>8. next' = [next EXCEPT ![p[t]] = q(t)]
    BY <1>2 DEF Link, CompareAndSwap
  <1>9. /\ next' \in Links /\ IsChain(next', Append(Chain, q(t)))
        /\ Elems(Append(Chain, q(t))) = Elems(Chain) \cup {q(t)}
    BY <1>4, <1>5, <1>6, <1>7, <1>8, ListGrows
  <1>10. Walk(next')[Cardinality(Nodes)][TailDummy] = Append(Chain, q(t))
    BY <1>9, ChainUnique
  <1>11. Chain' = Append(Chain, q(t))
    BY <1>10 DEF Chain, TailDummy
  <1>12. IsChain(next, Chain)'
    BY <1>9, <1>11 DEF IsChain, TailDummy
  <1> QED
    BY <1>2, <1>3, <1>5, <1>6, <1>8, <1>9, <1>11, <1>12

LEMMA GoodLinkInv ==
    ASSUME QueueInv, NEW t \in Producers, Link(t), next[p[t]] = NULL
    PROVE  QueueInv'
  <1>1. /\ p[t] = tail /\ p[t] \in Nodes
        /\ q(t) \in Nodes /\ q(t) \notin Elems(Chain)
        /\ next' = [next EXCEPT ![p[t]] = q(t)]
        /\ IsChain(next, Chain)'
        /\ Elems(Chain') = Elems(Chain) \cup {q(t)}
        /\ i[t] \in Nat /\ i[t] + 1 \in 1 .. ITERATIONS
    BY LinkAppends
  <1>2. /\ pc[t] = "link" /\ i' = i /\ p' = p /\ nx' = nx /\ tail' = tail /\ head' = head
        /\ next \in [Nodes -> Nodes \cup {NULL}]
        /\ \A u \in Producers \cup {Consumer} : pc'[u] = IF u = t THEN "test" ELSE pc[u]
    BY DEF Link, Goto, QueueInv, TypeOK
  <1>3. /\ next'[tail] = q(t) /\ \A n \in Nodes : n # tail => next'[n] = next[n]
        /\ next[tail] = NULL /\ tail \in Elems(Chain) /\ q(t) # NULL
        /\ q(t) # tail /\ next'[q(t)] = NULL
    BY <1>1, <1>2, NULLAssumption DEF QueueInv, ListRight
  <1>4. TypeOK'
    BY <1>1, <1>2, RolesAssumption DEF QueueInv, TypeOK, Link, Goto
  <1>5. HeadDummy \notin Elems(Chain) /\ q(t) # HeadDummy /\ HeadDummy \in Nodes
    BY Dummies DEF QueueInv, ListRight, q
  <1>6. HeadAlone'
    BY <1>2, <1>3, <1>5, RolesAssumption DEF QueueInv, HeadAlone, HeadDummy
  <1>7. ASSUME NEW u \in Producers PROVE ProducerRight(u, Chain)'
    <2>1. ProducerRight(u, Chain)
      BY ByProducer
    <2>2. CASE u = t
      <3>1. Linked(t)' /\ pc'[t] = "test" /\ p'[t] = tail /\ ~Linked(t)
        BY <1>1, <1>2, <1>3 DEF Linked, q
      <3>2. \A v \in 1 .. ITERATIONS : <<t, v>> = q(t) <=> v = i[t] + 1
        BY <1>1 DEF q
      <3>3. \A v \in 1 .. ITERATIONS :
               <<t, v>> \in Elems(Chain') <=> v <= i[t] \/ v = i[t] + 1
        BY <1>1, <2>1, <2>2, <3>1, <3>2 DEF ProducerRight
      <3> QED
        BY <1>1, <1>2, <1>3, <2>2, <3>1, <3>3 DEF ProducerRight
    <2>3. CASE u # t
      <3>1. pc'[u] = pc[u] /\ p'[u] = p[u] /\ i'[u] = i[u] /\ nx'[u] = nx[u] /\ q(u)' = q(u)
            /\ q(u) # q(t)
        BY <1>2, <2>3 DEF q
      <3>2. pc[u] \in {"link", "test", "next", "help", "swing"} =>
               p[u] \in Elems(Chain) /\ p[u] \in Nodes
        BY LoadedNode
      <3>3. pc[u] \in {"test", "next", "help", "swing"} => next'[p[u]] = next[p[u]]
        BY <1>3, <2>1, <3>2 DEF ProducerRight
      <3>4. Linked(u)' <=> Linked(u)
        BY <1>2, <3>1, <3>3 DEF Linked
      <3>5. \A v \in 1 .. ITERATIONS : <<u, v>> # q(t)
        BY <2>3 DEF q
      <3>6. pc[u] = "link" => (next'[p[u]] = NULL => p[u] = tail)
        BY <1>3, <2>1, <3>2 DEF ProducerRight
      <3> QED
        BY <1>1, <1>2, <2>1, <3>1, <3>2, <3>3, <3>4, <3>5, <3>6 DEF ProducerRight
    <2> QED
      BY <2>2, <2>3
  <1>8. ListRight(Chain)' /\ PositionsRight'
    <2>1. \A n \in Nodes : next'[n] # NULL => n \in Elems(Chain')
      BY <1>1, <1>3 DEF QueueInv, ListRight
    <2>2. next'[next'[tail']] = NULL
      BY <1>2, <1>3
    <2> QED
      BY <1>1, <1>2, <1>3, <1>5, <1>7, <2>1, <2>2, ByProducer
  <1> QED
    BY <1>1, <1>4, <1>6, <1>8 DEF QueueInv

LEMMA StepInv == QueueInv /\ [Next]_vars => QueueInv'
  <1> SUFFICES ASSUME QueueInv, [Next]_vars PROVE QueueInv'
    OBVIOUS
  <1>1. CASE UNCHANGED vars
    <2>1. Chain' = Chain /\ IsChain(next, Chain)'
      BY <1>1, LinksKept DEF vars
    <2> QED
      BY <1>1, <2>1 DEF vars, QueueInv, TypeOK, HeadAlone, ListRight, PositionsRight,
                        Linked, q, HeadDummy
  <1>2. ASSUME NEW t \in Producers, enqueue_fn(t) PROVE QueueInv'
    BY <1>2, AllocateInv, LoadTailInv, FailedLinkInv, GoodLinkInv, TestLinkedInv,
       LoadNextInv, HelpInv, SwingTailInv DEF enqueue_fn
  <1> QED
    BY <1>1, <1>2, ConsumerInv DEF Next

(* The links form one list from the tail dummy, which holds exactly the     *)
(* nodes whose compare-and-swap has succeeded, and every producer's local   *)
(* pointers are right about it.                                             *)
THEOREM QueueSafe == Spec => []QueueInv
  BY InitInv, StepInv, PTL DEF Spec

----------------------------------------------------------------------------
(* TailLag of every execution: queue->tail is at most one node behind.      *)
THEOREM QueueTailLag == Spec => []TailLag
  <1>1. ASSUME QueueInv PROVE TailLag
    <2>1. next \in Links /\ IsChain(next, Chain) /\ Len(Chain) \in Nat /\ Len(Chain) > 0
      <3>1. next \in Links
        BY <1>1 DEF QueueInv, TypeOK, Links
      <3>2. IsChain(next, Chain)
        BY <1>1 DEF QueueInv
      <3>3. Chain \in Seq(Nodes) /\ Len(Chain) > 0
        BY <3>2 DEF IsChain
      <3>4. Len(Chain) \in Nat
        BY <3>3
      <3> QED
        BY <3>1, <3>2, <3>3, <3>4
    <2>2. tail \in Elems(Chain)
      BY <1>1 DEF QueueInv, ListRight
    <2>3. CASE next[tail] = NULL
      <3>1. tail = Chain[Len(Chain)]
        BY <2>1, <2>2, <2>3, ListShape
      <3> QED
        BY <2>1, <3>1 DEF TailLag
    <2>4. CASE next[tail] # NULL
      <3>1. PICK k \in 1 .. Len(Chain) : tail = Chain[k]
        BY <2>2 DEF Elems
      <3>2. k # Len(Chain)
        BY <2>1, <2>4, <3>1 DEF IsChain
      <3>3. k \in 1 .. Len(Chain) - 1 /\ k + 1 \in 1 .. Len(Chain)
        BY <2>1, <3>2
      <3>4. next[tail] = Chain[k + 1]
        BY <2>1, <3>1, <3>3 DEF IsChain
      <3>5. next[Chain[k + 1]] = NULL /\ Chain[k + 1] \in Elems(Chain)
        BY <1>1, <2>4, <3>3, <3>4 DEF QueueInv, ListRight, Elems
      <3>6. Chain[k + 1] = Chain[Len(Chain)]
        BY <2>1, <3>5, ListShape
      <3>7. k + 1 = Len(Chain)
        BY <2>1, <3>3, <3>6 DEF IsChain
      <3>8. k = Len(Chain) - 1 /\ k # 0
        BY <2>1, <3>7
      <3> QED
        BY <3>1, <3>8 DEF TailLag
    <2> QED
      BY <2>3, <2>4
  <1> QED
    BY <1>1, QueueSafe, PTL

(* TailMovesForward of every execution: queue->tail moves to the successor  *)
(* of the node it was on, whichever compare-and-swap moves it.              *)
THEOREM QueueTailMovesForward == Spec => TailMovesForward
  <1>1. QueueInv /\ [Next]_vars => [tail' # tail => tail' = next[tail]]_vars
    <2> SUFFICES ASSUME QueueInv, Next PROVE tail' # tail => tail' = next[tail]
      OBVIOUS
    <2>1. CASE \E t \in Producers : Help(t) \/ SwingTail(t)
      BY <2>1, TailSteps
    <2>2. CASE ~\E t \in Producers : Help(t) \/ SwingTail(t)
      BY <2>2 DEF Next, enqueue_fn, dequeue_fn, Allocate, LoadTail, Link, TestLinked,
                  LoadNext, LoadHead, TestEmpty, NextPass
    <2> QED
      BY <2>1, <2>2
  <1> QED
    BY <1>1, QueueSafe, PTL DEF TailMovesForward, Spec

LEMMA RestOfAppend ==
    ASSUME NEW s \in Seq(Nodes), NEW m \in Nodes, Len(s) > 0
    PROVE  SubSeq(Append(s, m), 2, Len(Append(s, m))) = Append(SubSeq(s, 2, Len(s)), m)
  <1> DEFINE r == Append(s, m)
             a == SubSeq(r, 2, Len(r))
             u == SubSeq(s, 2, Len(s))
             b == Append(u, m)
  <1>1. /\ Len(s) \in Nat /\ r \in Seq(Nodes) /\ Len(r) = Len(s) + 1
        /\ r[Len(s) + 1] = m /\ \A k \in 1 .. Len(s) : r[k] = s[k]
    OBVIOUS
  <1> HIDE DEF r
  <1>2. a \in Seq(Nodes) /\ Len(a) = Len(s) /\ \A k \in 1 .. Len(s) : a[k] = r[k + 1]
    BY <1>1
  <1>3. u \in Seq(Nodes) /\ Len(u) = Len(s) - 1 /\ \A k \in 1 .. Len(s) - 1 : u[k] = s[k + 1]
    <2>1. u \in Seq(Nodes)
      BY <1>1
    <2>2. Len(u) = Len(s) - 1
      <3>1. Len(u) = IF 2 <= Len(s) THEN Len(s) - 2 + 1 ELSE 0
        BY <1>1
      <3> HIDE DEF u
      <3> QED
        BY <1>1, <3>1, SMTT(20)
    <2>3. ASSUME NEW k \in 1 .. Len(s) - 1 PROVE u[k] = s[k + 1]
      BY <1>1
    <2> QED
      BY <2>1, <2>2, <2>3
  <1> HIDE DEF u
  <1>4. /\ b \in Seq(Nodes) /\ Len(b) = Len(s) /\ b[Len(s)] = m
        /\ \A k \in 1 .. Len(s) - 1 : b[k] = u[k]
    BY <1>1, <1>3
  <1> HIDE DEF a, b
  <1>5. ASSUME NEW k \in 1 .. Len(s) PROVE a[k] = b[k]
    <2>1. a[k] = r[k + 1]
      BY <1>2
    <2>2. CASE k = Len(s)
      BY <1>1, <1>4, <2>1, <2>2
    <2>3. CASE k # Len(s)
      <3>1. k \in 1 .. Len(s) - 1 /\ k + 1 \in 1 .. Len(s)
        BY <1>1, <2>3
      <3> QED
        BY <1>1, <1>3, <1>4, <2>1, <3>1
    <2> QED
      BY <2>2, <2>3
  <1>6. a = b
    BY <1>1, <1>2, <1>4, <1>5
  <1> QED
    BY <1>6 DEF a, b, r, u

(* The log holds what the list holds behind the tail dummy. *)
LEMMA LoggedIsListed ==
    ASSUME QueueInv, NEW t \in Producers, NEW v
    PROVE  Log!Logged(t, v) <=> <<t, v>> \in Elems(Chain)
  <1> DEFINE s == Chain
             l == SubSeq(Chain, 2, Len(Chain))
  <1>1. s \in Seq(Nodes) /\ Len(s) \in Nat /\ Len(s) > 0 /\ s[1] = TailDummy
    BY DEF QueueInv, IsChain
  <1>2. l \in Seq(Nodes) /\ DOMAIN l = 1 .. Len(s) - 1 /\ \A n \in 1 .. Len(s) - 1 : l[n] = s[n + 1]
    BY <1>1
  <1>3. <<t, v>> # TailDummy
    BY Dummies
  <1> HIDE DEF s, l
  <1>4. (\E n \in DOMAIN l : l[n] = <<t, v>>) <=> <<t, v>> \in Elems(s)
    <2>1. ASSUME NEW n \in DOMAIN l, l[n] = <<t, v>> PROVE <<t, v>> \in Elems(s)
      <3>1. n + 1 \in 1 .. Len(s) /\ s[n + 1] = <<t, v>>
        BY <1>1, <1>2, <2>1
      <3> QED
        BY <3>1 DEF Elems
    <2>2. ASSUME NEW n \in 1 .. Len(s), s[n] = <<t, v>>
          PROVE  \E m \in DOMAIN l : l[m] = <<t, v>>
      <3>3. n # 1
        BY <1>1, <1>3, <2>2, Zenon
      <3>1. n - 1 \in 1 .. Len(s) - 1 /\ (n - 1) + 1 = n
        BY <1>1, <3>3
      <3>2. n - 1 \in DOMAIN l /\ l[n - 1] = s[n]
        BY <1>2, <3>1
      <3> QED
        BY <2>2, <3>2
    <2> QED
      BY <2>1, <2>2 DEF Elems
  <1> QED
    BY <1>4 DEF s, l, Log!Logged

(* EnqueueIsAppend of every execution: lf_enqueue implements AbstractLog.   *)
(* A successful compare-and-swap of p->next is the append, the swing of the *)
(* tail the return, and everything else leaves the log as it is.            *)
THEOREM QueueImplementsLog == Spec => EnqueueIsAppend
  <1> DEFINE l == SubSeq(Chain, 2, Len(Chain))
             r == [t \in Producers |-> i[t]]
  <1>1. Init => Log!Init
    <2> SUFFICES ASSUME Init PROVE Log!Init
      OBVIOUS
    <2>1. l = SubSeq(<<TailDummy>>, 2, 1)
      BY InitChain
    <2>2. SubSeq(<<TailDummy>>, 2, 1) = <<>>
      OBVIOUS
    <2> QED
      BY <2>1, <2>2 DEF Init, Log!Init
  <1>2. QueueInv /\ [Next]_vars => [Log!Next]_Log!vars
    <2> SUFFICES ASSUME QueueInv, [Next]_vars PROVE [Log!Next]_Log!vars
      OBVIOUS
    <2>1. ASSUME next' = next, \A t \in Producers : i'[t] = i[t] PROVE UNCHANGED Log!vars
      BY <2>1, LinksKept DEF Log!vars
    <2>2. CASE UNCHANGED vars
      BY <2>1, <2>2 DEF vars
    <2>3. CASE dequeue_fn
      BY <2>1, <2>3, RolesAssumption DEF dequeue_fn, LoadHead, TestEmpty, NextPass,
                                         QueueInv, TypeOK
    <2>4. ASSUME NEW t \in Producers, enqueue_fn(t) PROVE [Log!Next]_Log!vars
      <3>1. CASE Allocate(t)
        <4>1. q(t) \in Nodes /\ q(t) \notin Elems(Chain)
          BY <3>1, OwnNode DEF Allocate, Linked
        <4>2. next' = next /\ i' = i
          BY <3>1, <4>1 DEF Allocate, QueueInv, ListRight, TypeOK
        <4> QED
          BY <2>1, <4>2
      <3>2. CASE LoadTail(t) \/ TestLinked(t) \/ LoadNext(t) \/ Help(t)
        BY <2>1, <3>2 DEF LoadTail, TestLinked, LoadNext, Help
      <3>3. CASE Link(t) /\ next[p[t]] # NULL
        BY <2>1, <3>3, FailedLinkInv DEF Link
      <3>4. CASE Link(t) /\ next[p[t]] = NULL
        <4>1. /\ q(t) \notin Elems(Chain) /\ Chain' = Append(Chain, q(t)) /\ q(t) \in Nodes
              /\ i[t] \in Nat /\ i[t] + 1 \in 1 .. ITERATIONS /\ i' = i
          BY <3>4, LinkAppends DEF Link
        <4>2. ~Log!Logged(t, i[t] + 1)
          BY <4>1, LoggedIsListed DEF q
        <4>3. l' = Append(l, q(t))
          <5>1. Chain \in Seq(Nodes) /\ Len(Chain) \in Nat /\ Len(Chain) > 0
            BY DEF QueueInv, IsChain
          <5>2. l' = SubSeq(Append(Chain, q(t)), 2, Len(Append(Chain, q(t))))
            BY <4>1
          <5> QED
            BY <4>1, <5>1, <5>2, RestOfAppend
        <4>4. r[t] = i[t] /\ r' = r /\ i[t] < ITERATIONS
          BY <4>1, ITERATIONSAssumption
        <4>5. Log!Put(t)
          BY <4>2, <4>3, <4>4 DEF Log!Put, q
        <4> QED
          BY <4>5 DEF Log!Next
      <3>5. CASE SwingTail(t)
        <4>1. Linked(t) /\ next' = next /\ i[t] < ITERATIONS
          BY <3>5, LoadedNode DEF SwingTail, Linked
        <4>2. Log!Logged(t, i[t] + 1)
          BY <4>1, OwnNode, LoggedIsListed DEF q
        <4>3. Chain' = Chain
          BY <4>1, LinksKept
        <4>4. r[t] = i[t] /\ r' = [r EXCEPT ![t] = i[t] + 1]
          BY <3>5 DEF SwingTail, QueueInv, TypeOK
        <4>5. Log!Return(t)
          BY <4>2, <4>3, <4>4 DEF Log!Return
        <4> QED
          BY <4>5 DEF Log!Next
      <3> QED
        BY <2>4, <3>1, <3>2, <3>3, <3>4, <3>5 DEF enqueue_fn
    <2> QED
      BY <2>2, <2>3, <2>4 DEF Next
  <1> QED
    BY <1>1, <1>2, QueueSafe, PTL DEF Spec, EnqueueIsAppend, Log!Spec

====
