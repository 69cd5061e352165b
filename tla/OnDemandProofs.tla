-------------------------- MODULE OnDemandProofs ---------------------------
(***************************************************************************)
(* Proofs about the memory map, for any range, any sizes asked for and any *)
(* bound on the nodes: the nodes tile the range, free nodes are merged, an *)
(* allocation fails only for want of room, and the regions a process holds *)
(* behave as AbstractVspace says.  Of demand paging, for tables of any     *)
(* size: the page tables are a tree, what is mapped is held, and a fault   *)
(* or a free changes no other page's translation.                          *)
(***************************************************************************)
EXTENDS OnDemand, WellFoundedInduction, SequenceTheorems, FiniteSetTheorems, TLAPS

Node == [start : 0 .. RegionPages, size : 0 .. RegionPages, allocated : BOOLEAN]

(* A set of indices has a least element, which is the one Min chooses.      *)
LEMMA MinIsLeast ==
    ASSUME NEW S \in SUBSET Nat, S # {}
    PROVE  Min(S) \in S /\ \A y \in S : Min(S) <= y
  <1>1. PICK x \in S : \A y \in S : <<y, x>> \notin OpToRel(<, Nat)
    BY NatLessThanWellFounded, WFMin
  <1>2. \A y \in S : ~(y < x)
    BY <1>1 DEF OpToRel
  <1>3. \E z \in S : \A y \in S : z =< y
    BY <1>2
  <1> QED
    BY <1>3 DEF Min

(* A sequence whose elements lo .. hi are replaced by those of t, element   *)
(* by element.                                                              *)
IsConcat(r, S, a, t, c) ==
    /\ r \in Seq(S) /\ Len(r) = Len(a) + Len(t) + Len(c)
    /\ \A k \in 1 .. Len(a) : r[k] = a[k]
    /\ \A k \in 1 .. Len(t) : r[Len(a) + k] = t[k]
    /\ \A k \in 1 .. Len(c) : r[Len(a) + Len(t) + k] = c[k]

LEMMA Concat3 ==
    ASSUME NEW S, NEW a \in Seq(S), NEW t \in Seq(S), NEW c \in Seq(S)
    PROVE  IsConcat(a \o t \o c, S, a, t, c)
  BY DEF IsConcat

IsSplice(r, s, lo, t, hi) ==
    /\ r \in Seq(Node)
    /\ Len(r) = lo - 1 + Len(t) + (Len(s) - hi)
    /\ \A k \in 1 .. lo - 1 : r[k] = s[k]
    /\ \A k \in lo .. lo - 1 + Len(t) : r[k] = t[k - lo + 1]
    /\ \A k \in lo + Len(t) .. lo - 1 + Len(t) + (Len(s) - hi) :
          r[k] = s[k - lo - Len(t) + hi + 1]

LEMMA Spliced ==
    ASSUME NEW s \in Seq(Node), NEW t \in Seq(Node),
           NEW lo \in 1 .. Len(s), NEW hi \in lo .. Len(s)
    PROVE  IsSplice(SubSeq(s, 1, lo - 1) \o t \o SubSeq(s, hi + 1, Len(s)),
                    s, lo, t, hi)
  <1> DEFINE a == SubSeq(s, 1, lo - 1)
             c == SubSeq(s, hi + 1, Len(s))
             r == a \o t \o c
  <1>1. a \in Seq(Node) /\ c \in Seq(Node)
    OBVIOUS
  <1>2. Len(a) = lo - 1 /\ Len(c) = Len(s) - hi
    OBVIOUS
  <1>3. /\ \A k \in 1 .. lo - 1 : a[k] = s[k]
        /\ \A k \in 1 .. Len(s) - hi : c[k] = s[hi + k]
    OBVIOUS
  <1> HIDE DEF a, c
  <1>4. /\ r \in Seq(Node) /\ Len(r) = Len(a) + Len(t) + Len(c)
        /\ \A k \in 1 .. Len(a) : r[k] = a[k]
        /\ \A k \in 1 .. Len(t) : r[Len(a) + k] = t[k]
        /\ \A k \in 1 .. Len(c) : r[Len(a) + Len(t) + k] = c[k]
    <2>1. IsConcat(r, Node, a, t, c)
      BY <1>1, Concat3
    <2> HIDE DEF r
    <2> QED
      BY <2>1 DEF IsConcat
  <1> HIDE DEF r
  <1>5. Len(r) = lo - 1 + Len(t) + (Len(s) - hi)
    BY <1>2, <1>4
  <1>6. \A k \in 1 .. lo - 1 : r[k] = s[k]
    BY <1>2, <1>3, <1>4
  <1>7. ASSUME NEW k \in lo .. lo - 1 + Len(t) PROVE r[k] = t[k - lo + 1]
    <2>1. k - lo + 1 \in 1 .. Len(t) /\ Len(a) + (k - lo + 1) = k
      BY <1>2, SMTT(20)
    <2> QED
      BY <1>4, <2>1
  <1>8. ASSUME NEW k \in lo + Len(t) .. lo - 1 + Len(t) + (Len(s) - hi)
        PROVE  r[k] = s[k - lo - Len(t) + hi + 1]
    <2> DEFINE m == k - lo - Len(t) + 1
    <2>0. /\ lo \in Nat /\ hi \in Nat /\ Len(s) \in Nat /\ Len(t) \in Nat
          /\ k \in Nat /\ lo + Len(t) <= k /\ k <= lo - 1 + Len(t) + (Len(s) - hi)
      OBVIOUS
    <2>1. m \in 1 .. Len(s) - hi /\ Len(a) + Len(t) + m = k
      <3>1. Len(a) = lo - 1
        BY <1>2
      <3> QED
        BY <2>0, <3>1, SMTT(20)
    <2>2. hi + m = k - lo - Len(t) + hi + 1
      BY <2>0
    <2> HIDE DEF m
    <2>3. c[m] = s[hi + m]
      BY <1>3, <2>1
    <2> QED
      BY <1>2, <1>4, <2>1, <2>2, <2>3
  <1> QED
    BY <1>4, <1>5, <1>6, <1>7, <1>8 DEF a, c, r, IsSplice

----------------------------------------------------------------------------
(* The two changes of the map, element by element. *)

(* petmem_alloc_vspace replaces node i by two. *)
AllocAt(i, n) ==
    /\ i \in 1 .. Len(map) /\ Fits(map[i], n)
    /\ map' \in Seq(Node) /\ Len(map') = Len(map) + 1
    /\ \A k \in 1 .. i - 1 : map'[k] = map[k]
    /\ map'[i] = [start |-> map[i].start, size |-> n, allocated |-> TRUE]
    /\ map'[i + 1] = [start |-> map[i].start + n, size |-> map[i].size - n,
                      allocated |-> FALSE]
    /\ \A k \in i + 2 .. Len(map) + 1 : map'[k] = map[k - 1]

LEMMA AllocMap ==
    ASSUME MapTypeOK, NodesInOrder, NEW n \in Nat, MapAlloc(n)
    PROVE  \E i \in DOMAIN map : AllocAt(i, n)
  <1> DEFINE i == Min(Fitting(n))
  <1>1. map \in Seq(Node)
    BY DEF MapTypeOK, Node
  <1>2. Fitting(n) \subseteq 1 .. Len(map) /\ Fitting(n) # {}
    BY <1>1 DEF Fitting, MapAlloc
  <1>3. i \in Fitting(n)
    <2>1. Fitting(n) \in SUBSET Nat
      BY <1>1, <1>2
    <2> QED
      BY <1>2, <2>1, MinIsLeast
  <1>4. i \in 1 .. Len(map) /\ Fits(map[i], n) /\ map[i] \in Node
    BY <1>1, <1>3 DEF Fitting
  <1>5. map' = SubSeq(map, 1, i - 1) \o Split(map[i], n)
                  \o SubSeq(map, i + 1, Len(map))
    BY DEF MapAlloc
  <1> HIDE DEF i
  <1>6. /\ map[i].start \in 0 .. RegionPages /\ map[i].size \in 0 .. RegionPages
        /\ n <= map[i].size /\ map[i].start + map[i].size <= RegionPages
    BY <1>1, <1>4 DEF Node, Fits, NodesInOrder
  <1> DEFINE t == Split(map[i], n)
  <1>7. t \in Seq(Node) /\ Len(t) = 2
    BY <1>6, RegionAssumption DEF Split, Node
  <1>8. /\ t[1] = [start |-> map[i].start, size |-> n, allocated |-> TRUE]
        /\ t[2] = [start |-> map[i].start + n, size |-> map[i].size - n,
                   allocated |-> FALSE]
    BY DEF Split
  <1> HIDE DEF t
  <1>9. IsSplice(map', map, i, t, i)
    <2>1. i \in 1 .. Len(map) /\ i \in i .. Len(map)
      BY <1>4
    <2> QED
      BY <1>1, <1>5, <1>7, <2>1, Spliced DEF t
  <1>10. /\ map' \in Seq(Node) /\ Len(map') = Len(map) + 1
         /\ \A k \in 1 .. i - 1 : map'[k] = map[k]
    BY <1>1, <1>4, <1>7, <1>9 DEF IsSplice
  <1>11. map'[i] = t[1] /\ map'[i + 1] = t[2]
    BY <1>1, <1>4, <1>7, <1>9 DEF IsSplice
  <1>12. ASSUME NEW k \in i + 2 .. Len(map) + 1 PROVE map'[k] = map[k - 1]
    BY <1>1, <1>4, <1>7, <1>9 DEF IsSplice
  <1>13. i \in DOMAIN map
    BY <1>1, <1>4
  <1>14. AllocAt(i, n)
    BY <1>4, <1>8, <1>10, <1>11, <1>12 DEF AllocAt
  <1> QED
    BY <1>13, <1>14

(* petmem_free_vspace replaces nodes lo .. hi, which are node i and its     *)
(* free neighbours, by one.                                                 *)
FreeAt(i, lo, hi) ==
    /\ i \in 1 .. Len(map) - 1 /\ map[i].allocated
    /\ lo \in 1 .. i /\ lo >= i - 1 /\ hi \in i .. Len(map) /\ hi <= i + 1
    /\ lo = i - 1 => ~map[lo].allocated
    /\ hi = i + 1 => ~map[hi].allocated
    /\ lo = i /\ i > 1 => map[i - 1].allocated
    /\ hi = i => map[i + 1].allocated
    /\ map' \in Seq(Node) /\ Len(map') = Len(map) - (hi - lo)
    /\ \A k \in 1 .. lo - 1 : map'[k] = map[k]
    /\ map'[lo] = [start |-> map[lo].start,
                   size |-> map[hi].start + map[hi].size - map[lo].start,
                   allocated |-> FALSE]
    /\ \A k \in lo + 1 .. Len(map) - (hi - lo) : map'[k] = map[k + (hi - lo)]

(* The node that is freed is never the last one, so that what map0's        *)
(* allocated field happens to hold does not matter.                         *)
LEMMA FreeMap ==
    ASSUME MapInv, file = "open", NEW page, Freeable(page) # {},
           map' = Freed(Min(Freeable(page)))
    PROVE  \E i, lo, hi \in Nat : i = Min(Freeable(page)) /\ FreeAt(i, lo, hi)
  <1> DEFINE i == Min(Freeable(page))
             lo == IF MergesPrev(i) THEN i - 1 ELSE i
             hi == IF MergesNext(i) /\ i < Len(map) THEN i + 1 ELSE i
             merged == [start |-> map[lo].start,
                        size |-> map[hi].start + map[hi].size - map[lo].start,
                        allocated |-> FALSE]
  <1>1. map \in Seq(Node) /\ map # <<>> /\ Len(map) \in Nat
    BY DEF MapInv, MapTypeOK, Node, Tiles
  <1>2. i \in Freeable(page)
    <2>1. Freeable(page) \in SUBSET Nat
      BY <1>1 DEF Freeable
    <2> QED
      BY <2>1, MinIsLeast
  <1>3. i \in 1 .. Len(map) /\ map[i].allocated /\ i # Len(map)
    BY <1>1, <1>2 DEF Freeable, MapInv, Coalesced, Last
  <1>4. map' = SubSeq(map, 1, lo - 1) \o <<merged>> \o SubSeq(map, hi + 1, Len(map))
    BY <1>3 DEF Freed
  <1> HIDE DEF i
  <1>5. /\ lo \in 1 .. i /\ lo >= i - 1 /\ hi \in i .. Len(map) /\ hi <= i + 1
        /\ lo = i - 1 => ~map[lo].allocated
        /\ hi = i + 1 => ~map[hi].allocated
        /\ lo = i /\ i > 1 => map[i - 1].allocated
        /\ hi = i => map[i + 1].allocated
    BY <1>1, <1>3 DEF MergesPrev, MergesNext
  <1> HIDE DEF lo, hi
  <1>6. merged \in Node
    <2>1. lo \in 1 .. Len(map) /\ hi \in 1 .. Len(map) /\ lo <= hi
      BY <1>1, <1>3, <1>5
    <2>2. map[lo] \in Node /\ map[hi] \in Node
      BY <1>1, <2>1
    <2>3. /\ map[lo].start \in 0 .. RegionPages /\ map[lo].size \in Nat
          /\ map[hi].start \in Nat /\ map[hi].size \in Nat
      BY <2>2, RegionAssumption DEF Node
    <2>4. /\ map[lo].start <= map[hi].start
          /\ map[hi].start + map[hi].size <= RegionPages
      BY <1>1, <2>1, <2>3 DEF MapInv, NodesInOrder
    <2> QED
      BY <2>3, <2>4, RegionAssumption DEF Node
  <1> HIDE DEF merged
  <1>7. <<merged>> \in Seq(Node) /\ Len(<<merged>>) = 1 /\ <<merged>>[1] = merged
    BY <1>6
  <1>8. IsSplice(map', map, lo, <<merged>>, hi)
    <2>1. lo \in 1 .. Len(map) /\ hi \in lo .. Len(map)
      BY <1>3, <1>5
    <2> QED
      BY <1>1, <1>4, <1>7, <2>1, Spliced
  <1> DEFINE t == <<merged>>
  <1> HIDE DEF t
  <1>9. t \in Seq(Node) /\ Len(t) = 1 /\ t[1] = merged /\ IsSplice(map', map, lo, t, hi)
    BY <1>7, <1>8 DEF t
  <1>10. /\ map' \in Seq(Node) /\ Len(map') = Len(map) - (hi - lo)
         /\ \A k \in 1 .. lo - 1 : map'[k] = map[k]
         /\ map'[lo] = merged
    BY <1>1, <1>3, <1>5, <1>9 DEF IsSplice
  <1>11. ASSUME NEW k \in lo + 1 .. Len(map) - (hi - lo)
         PROVE  map'[k] = map[k + (hi - lo)]
    <2>1. \A m \in lo + 1 .. lo - 1 + 1 + (Len(map) - hi) :
             map'[m] = map[m - lo - 1 + hi + 1]
      BY <1>9 DEF IsSplice
    <2>2. /\ k \in lo + 1 .. lo - 1 + 1 + (Len(map) - hi)
          /\ k - lo - 1 + hi + 1 = k + (hi - lo)
      BY <1>1, <1>3, <1>5
    <2> QED
      BY <2>1, <2>2
  <1>12. i \in 1 .. Len(map) - 1
    BY <1>1, <1>3
  <1>13. FreeAt(i, lo, hi)
    BY <1>3, <1>5, <1>10, <1>11, <1>12 DEF FreeAt, merged
  <1>14. i \in Nat /\ lo \in Nat /\ hi \in Nat
    BY <1>3, <1>5
  <1>15. i = Min(Freeable(page))
    BY DEF i
  <1> QED
    BY <1>13, <1>14, <1>15

----------------------------------------------------------------------------
(* MapInv is inductive. *)

LEMMA InitInv == MapInit => MapInv
  <1> SUFFICES ASSUME MapInit PROVE MapInv
    OBVIOUS
  <1>1. /\ Len(map) = 1 /\ DOMAIN map = {1} /\ map # <<>>
        /\ map[1] = [start |-> 0, size |-> RegionPages, allocated |-> FALSE]
    BY DEF MapInit
  <1>2. MapTypeOK
    <2>1. [start |-> 0, size |-> RegionPages, allocated |-> FALSE] \in Node
      BY RegionAssumption DEF Node
    <2>2. map \in Seq(Node)
      BY <2>1 DEF MapInit
    <2> QED
      BY <2>2 DEF MapInit, MapTypeOK, Node
  <1>3. NodesInOrder
    BY <1>1, RegionAssumption DEF NodesInOrder
  <1>4. Tiles /\ Coalesced
    BY <1>1, RegionAssumption DEF Tiles, Coalesced, Last
  <1> QED
    BY <1>2, <1>3, <1>4 DEF MapInv

(* What the invariant says of a node, as bounds on integers. *)
LEMMA NodeBounds ==
    ASSUME MapTypeOK, NodesInOrder, NEW k \in 1 .. Len(map)
    PROVE  /\ map[k] \in Node /\ map[k].start \in Nat /\ map[k].size \in Nat
           /\ map[k].allocated \in BOOLEAN
           /\ map[k].start + map[k].size <= RegionPages
  <1>1. map \in Seq(Node) /\ k \in DOMAIN map
    BY DEF MapTypeOK, Node
  <1>2. map[k] \in Node
    BY <1>1
  <1> QED
    BY <1>1, <1>2, RegionAssumption DEF Node, NodesInOrder

LEMMA AllocInv ==
    ASSUME MapInv, file = "open", file' = "open", NEW n \in Nat,
           NEW i \in DOMAIN map, AllocAt(i, n)
    PROVE  NodesInOrder' /\ Tiles' /\ Coalesced'
  <1> DEFINE old(k) == IF k <= i THEN k ELSE k - 1
  <1>1. /\ map \in Seq(Node) /\ map' \in Seq(Node) /\ i \in 1 .. Len(map)
        /\ Len(map) \in Nat /\ Len(map') = Len(map) + 1
        /\ DOMAIN map = 1 .. Len(map) /\ DOMAIN map' = 1 .. Len(map) + 1
    BY DEF MapInv, MapTypeOK, Node, AllocAt
  <1>2. n <= map[i].size /\ ~map[i].allocated
    BY DEF AllocAt, Fits
  <1>3. ASSUME NEW k \in 1 .. Len(map) + 1
        PROVE  /\ old(k) \in 1 .. Len(map)
               /\ map[old(k)].start <= map'[k].start
               /\ map'[k].start + map'[k].size
                     <= map[old(k)].start + map[old(k)].size
               /\ map'[k].start \in Nat /\ map'[k].size \in Nat
    <2>1. old(k) \in 1 .. Len(map) /\ (k > i + 1 => k \in i + 2 .. Len(map) + 1)
      BY <1>1
    <2>2. /\ map[old(k)].start \in Nat /\ map[old(k)].size \in Nat
          /\ map[i].start \in Nat /\ map[i].size \in Nat
      BY <1>1, <2>1, NodeBounds DEF MapInv
    <2>3. CASE k < i
      <3>1. map'[k] = map[k] /\ old(k) = k
        BY <1>1, <2>3 DEF AllocAt
      <3> QED
        BY <2>1, <2>2, <3>1
    <2>4. CASE k = i
      <3>1. map'[k].start = map[i].start /\ map'[k].size = n /\ old(k) = i
        BY <1>1, <2>4 DEF AllocAt
      <3> QED
        BY <1>2, <2>1, <2>2, <3>1
    <2>5. CASE k = i + 1
      <3>1. old(k) = i
        BY <1>1, <2>5
      <3>2. map'[k] = [start |-> map[i].start + n, size |-> map[i].size - n,
                       allocated |-> FALSE]
        BY <2>5 DEF AllocAt
      <3>3. map'[k].start = map[i].start + n /\ map'[k].size = map[i].size - n
        BY <3>2
      <3> HIDE DEF old
      <3> QED
        BY <1>2, <2>1, <2>2, <3>1, <3>3, SMTT(25)
    <2>6. CASE k > i + 1
      <3>1. map'[k] = map[k - 1] /\ old(k) = k - 1
        BY <1>1, <2>1, <2>6 DEF AllocAt
      <3> QED
        BY <2>1, <2>2, <3>1
    <2> QED
      BY <1>1, <2>3, <2>4, <2>5, <2>6
  <1>4. NodesInOrder'
    <2>1. ASSUME NEW k \in DOMAIN map'
          PROVE  map'[k].start + map'[k].size <= RegionPages
      <3>1. /\ old(k) \in 1 .. Len(map) /\ map'[k].start \in Nat /\ map'[k].size \in Nat
            /\ map'[k].start + map'[k].size
                     <= map[old(k)].start + map[old(k)].size
        BY <1>1, <1>3
      <3> HIDE DEF old
      <3> QED
        BY <3>1, NodeBounds, RegionAssumption DEF MapInv
    <2>2. ASSUME NEW k \in DOMAIN map', NEW m \in DOMAIN map', k < m
          PROVE  map'[k].start + map'[k].size <= map'[m].start
      <3>1. CASE k = i /\ m = i + 1
        BY <1>1, <1>3, <3>1 DEF AllocAt
      <3>2. CASE ~(k = i /\ m = i + 1)
        <4>1. old(k) < old(m) /\ old(k) \in 1 .. Len(map) /\ old(m) \in 1 .. Len(map)
          BY <1>1, <2>2, <3>2
        <4>2. /\ map[old(k)].start + map[old(k)].size <= map[old(m)].start
              /\ map[old(k)].start \in Nat /\ map[old(k)].size \in Nat
              /\ map[old(m)].start \in Nat
          BY <1>1, <4>1, NodeBounds DEF MapInv, NodesInOrder
        <4>3. /\ map'[k].start + map'[k].size
                     <= map[old(k)].start + map[old(k)].size
              /\ map[old(m)].start <= map'[m].start
              /\ map'[k].start \in Nat /\ map'[k].size \in Nat /\ map'[m].start \in Nat
          BY <1>1, <1>3
        <4> HIDE DEF old
        <4> QED
          BY <4>2, <4>3
      <3> QED
        BY <3>1, <3>2
    <2> QED
      BY <2>1, <2>2 DEF NodesInOrder
  <1>5. map' # <<>> /\ map'[1].start = 0
    <2>1. map[1].start = 0
      BY DEF MapInv, Tiles
    <2> QED
      BY <1>1, <2>1 DEF AllocAt
  <1>6. /\ Last(map').start + Last(map').size = RegionPages
        /\ ~Last(map').allocated
    <2>1. /\ map[Len(map)].start + map[Len(map)].size = RegionPages
          /\ ~map[Len(map)].allocated
      BY DEF MapInv, Tiles, Coalesced, Last
    <2>2. Last(map') = map'[Len(map) + 1]
      BY <1>1 DEF Last
    <2>3. CASE i = Len(map)
      <3>1. map'[i + 1] = [start |-> map[i].start + n, size |-> map[i].size - n,
                          allocated |-> FALSE]
        BY DEF AllocAt
      <3>2. map[i].start \in Nat /\ map[i].size \in Nat
        BY <1>1, NodeBounds DEF MapInv
      <3> QED
        BY <2>1, <2>2, <2>3, <3>1, <3>2
    <2>4. CASE i # Len(map)
      <3>1. map'[Len(map) + 1] = map[Len(map)]
        BY <1>1, <2>4 DEF AllocAt
      <3> QED
        BY <2>1, <2>2, <3>1
    <2> QED
      BY <2>3, <2>4
  <1>7. ASSUME NEW k \in 1 .. Len(map') - 1
        PROVE  /\ map'[k + 1].start = map'[k].start + map'[k].size
               /\ map'[k].allocated \/ map'[k + 1].allocated
    <2>1. k \in 1 .. Len(map)
      BY <1>1
    <2>2. /\ k < Len(map) => map[k + 1].start = map[k].start + map[k].size
                              /\ (map[k].allocated \/ map[k + 1].allocated)
          /\ k > 1 => map[k].start = map[k - 1].start + map[k - 1].size
                      /\ (map[k - 1].allocated \/ map[k].allocated)
      <3>1. \A m \in 1 .. Len(map) - 1 :
               /\ map[m + 1].start = map[m].start + map[m].size
               /\ map[m].allocated \/ map[m + 1].allocated
        BY DEF MapInv, Tiles, Coalesced
      <3>2. k > 1 => k - 1 \in 1 .. Len(map) - 1 /\ (k - 1) + 1 = k
        BY <1>1, <2>1
      <3> QED
        BY <1>1, <2>1, <3>1, <3>2
    <2>3. map[i].start \in Nat /\ map[i].size \in Nat
      BY <1>1, NodeBounds DEF MapInv
    <2>4. CASE k < i - 1
      <3>1. k \in 1 .. i - 1 /\ k + 1 \in 1 .. i - 1 /\ k < Len(map)
        BY <1>1, <2>1, <2>4
      <3>2. map'[k] = map[k] /\ map'[k + 1] = map[k + 1]
        BY <3>1 DEF AllocAt
      <3> QED
        BY <2>2, <3>1, <3>2
    <2>5. CASE k = i - 1
      BY <1>1, <1>2, <2>1, <2>2, <2>5 DEF AllocAt
    <2>6. CASE k = i
      BY <1>1, <1>2, <2>1, <2>3, <2>6 DEF AllocAt
    <2>7. CASE k = i + 1
      <3>1. /\ map'[k] = [start |-> map[i].start + n, size |-> map[i].size - n,
                          allocated |-> FALSE]
            /\ map'[k + 1] = map[k] /\ k - 1 = i /\ k > 1
        BY <1>1, <2>1, <2>7 DEF AllocAt
      <3> QED
        BY <1>2, <2>2, <2>3, <3>1
    <2>8. CASE k > i + 1
      <3>1. /\ k \in i + 2 .. Len(map) + 1 /\ k + 1 \in i + 2 .. Len(map) + 1
            /\ k > 1 /\ (k + 1) - 1 = k
        BY <1>1, <2>1, <2>8
      <3>2. map'[k] = map[k - 1] /\ map'[k + 1] = map[(k + 1) - 1]
        BY <3>1 DEF AllocAt
      <3> QED
        BY <2>2, <3>1, <3>2
    <2> QED
      BY <1>1, <2>1, <2>4, <2>5, <2>6, <2>7, <2>8
  <1> QED
    BY <1>4, <1>5, <1>6, <1>7 DEF Tiles, Coalesced

LEMMA FreeInv ==
    ASSUME MapInv, file = "open", file' = "open",
           NEW i \in Nat, NEW lo \in Nat, NEW hi \in Nat, FreeAt(i, lo, hi)
    PROVE  NodesInOrder' /\ Tiles' /\ Coalesced'
  <1> DEFINE d == hi - lo
             first(k) == IF k <= lo THEN k ELSE k + d
             last(k) == IF k < lo THEN k ELSE k + d
  <1>1. /\ map \in Seq(Node) /\ map' \in Seq(Node) /\ i \in 1 .. Len(map) - 1
        /\ Len(map) \in Nat /\ Len(map') = Len(map) - d
        /\ DOMAIN map = 1 .. Len(map) /\ DOMAIN map' = 1 .. Len(map) - d
        /\ lo \in 1 .. i /\ lo >= i - 1 /\ hi \in i .. Len(map) /\ hi <= i + 1
    <2>1. map \in Seq(Node) /\ Len(map) \in Nat /\ DOMAIN map = 1 .. Len(map)
      BY DEF MapInv, MapTypeOK, Node
    <2>2. map' \in Seq(Node) /\ Len(map') = Len(map) - d
      BY DEF FreeAt
    <2>3. /\ i \in 1 .. Len(map) - 1 /\ lo \in 1 .. i /\ lo >= i - 1
          /\ hi \in i .. Len(map) /\ hi <= i + 1
      BY DEF FreeAt
    <2>4. DOMAIN map' = 1 .. Len(map')
      BY <2>2
    <2> HIDE DEF d
    <2> QED
      BY <2>1, <2>2, <2>3, <2>4
  <1>2. d \in 0 .. 2 /\ hi = lo + d
    BY <1>1
  <1>3. \A m \in 1 .. Len(map) - 1 :
           /\ map[m + 1].start = map[m].start + map[m].size
           /\ map[m].allocated \/ map[m + 1].allocated
    BY DEF MapInv, Tiles, Coalesced
  <1>4. ASSUME NEW k \in 1 .. Len(map) - d
        PROVE  /\ first(k) \in 1 .. Len(map) /\ last(k) \in 1 .. Len(map)
               /\ map'[k].start = map[first(k)].start
               /\ map'[k].start + map'[k].size
                     = map[last(k)].start + map[last(k)].size
               /\ map'[k].allocated <=> k # lo /\ map[first(k)].allocated
    <2>1. first(k) \in 1 .. Len(map) /\ last(k) \in 1 .. Len(map)
      BY <1>1, <1>2
    <2>2. CASE k < lo
      <3>1. map'[k] = map[k] /\ first(k) = k /\ last(k) = k
        BY <1>1, <2>2 DEF FreeAt
      <3> QED
        BY <2>1, <2>2, <3>1
    <2>3. CASE k = lo
      <3>1. /\ map'[k] = [start |-> map[lo].start,
                          size |-> map[hi].start + map[hi].size - map[lo].start,
                          allocated |-> FALSE]
            /\ first(k) = lo /\ last(k) = hi
        BY <1>1, <1>2, <2>3 DEF FreeAt
      <3>2. /\ map[lo].start \in Nat
            /\ map[hi].start \in Nat /\ map[hi].size \in Nat
        BY <2>1, <3>1, NodeBounds DEF MapInv
      <3> HIDE DEF first, last
      <3> QED
        BY <2>1, <2>3, <3>1, <3>2, SMTT(20)
    <2>4. CASE k > lo
      <3>1. k \in lo + 1 .. Len(map) - d /\ first(k) = k + d /\ last(k) = k + d
        BY <1>1, <1>2, <2>4
      <3>2. map'[k] = map[k + d]
        BY <3>1 DEF FreeAt
      <3> QED
        BY <2>1, <2>4, <3>1, <3>2
    <2> QED
      BY <1>1, <2>2, <2>3, <2>4
  <1>5. ASSUME NEW k \in 1 .. Len(map) - d, NEW m \in 1 .. Len(map) - d, k < m
        PROVE  last(k) < first(m) /\ (m = k + 1 => first(m) = last(k) + 1)
    BY <1>1, <1>2, <1>5
  <1>6. NodesInOrder'
    <2>1. ASSUME NEW k \in DOMAIN map'
          PROVE  map'[k].start + map'[k].size <= RegionPages
      <3>1. /\ last(k) \in 1 .. Len(map)
            /\ map'[k].start + map'[k].size = map[last(k)].start + map[last(k)].size
        BY <1>1, <1>4
      <3> HIDE DEF last
      <3> QED
        BY <3>1, NodeBounds DEF MapInv
    <2>2. ASSUME NEW k \in DOMAIN map', NEW m \in DOMAIN map', k < m
          PROVE  map'[k].start + map'[k].size <= map'[m].start
      <3>1. /\ last(k) \in 1 .. Len(map) /\ first(m) \in 1 .. Len(map)
            /\ last(k) < first(m)
            /\ map'[k].start + map'[k].size = map[last(k)].start + map[last(k)].size
            /\ map'[m].start = map[first(m)].start
        BY <1>1, <1>4, <1>5, <2>2
      <3> HIDE DEF first, last
      <3> QED
        BY <1>1, <3>1 DEF MapInv, NodesInOrder
    <2> QED
      BY <2>1, <2>2 DEF NodesInOrder
  <1>7. map' # <<>> /\ map'[1].start = 0
    <2>1. map[1].start = 0 /\ 1 \in 1 .. Len(map) - d /\ first(1) = 1
      BY <1>1, <1>2 DEF MapInv, Tiles
    <2>2. map'[1].start = map[first(1)].start
      BY <1>4, <2>1
    <2> QED
      BY <1>1, <2>1, <2>2
  <1>8. /\ Last(map').start + Last(map').size = RegionPages
        /\ ~Last(map').allocated
    <2> DEFINE l == Len(map) - d
    <2>1. /\ map[Len(map)].start + map[Len(map)].size = RegionPages
          /\ ~map[Len(map)].allocated
      BY DEF MapInv, Tiles, Coalesced, Last
    <2>2. Last(map') = map'[l] /\ l \in 1 .. Len(map) - d
      BY <1>1, <1>2 DEF Last
    <2>3. last(l) = Len(map) /\ (l # lo => first(l) = Len(map))
      BY <1>1, <1>2
    <2>4. /\ map'[l].start + map'[l].size = map[last(l)].start + map[last(l)].size
          /\ map'[l].allocated <=> l # lo /\ map[first(l)].allocated
      BY <1>4, <2>2
    <2> HIDE DEF l, first, last
    <2> QED
      BY <2>1, <2>2, <2>3, <2>4
  <1>9. ASSUME NEW k \in 1 .. Len(map') - 1
        PROVE  /\ map'[k + 1].start = map'[k].start + map'[k].size
               /\ map'[k].allocated \/ map'[k + 1].allocated
    <2>1. /\ k \in 1 .. Len(map) - d /\ k + 1 \in 1 .. Len(map) - d
          /\ first(k + 1) = last(k) + 1 /\ last(k) \in 1 .. Len(map) - 1
      BY <1>1, <1>2
    <2>2. /\ map'[k].start + map'[k].size = map[last(k)].start + map[last(k)].size
          /\ map'[k + 1].start = map[first(k + 1)].start
          /\ map'[k].allocated <=> k # lo /\ map[first(k)].allocated
          /\ map'[k + 1].allocated <=> k + 1 # lo /\ map[first(k + 1)].allocated
      BY <1>4, <2>1
    <2>3. map[last(k) + 1].start = map[last(k)].start + map[last(k)].size
      BY <1>3, <2>1
    <2>4. map'[k + 1].start = map'[k].start + map'[k].size
      BY <2>1, <2>2, <2>3
    <2>5. CASE k = lo
      <3>1. first(k + 1) = hi + 1 /\ hi + 1 \in 1 .. Len(map)
            /\ (hi = i + 1 => hi \in 1 .. Len(map) - 1)
        BY <1>1, <1>2, <2>1, <2>5
      <3>2. map[hi + 1].allocated
        BY <1>1, <1>3, <3>1 DEF FreeAt
      <3> HIDE DEF first, last
      <3> QED
        BY <1>1, <2>2, <2>4, <2>5, <3>1, <3>2, SMTT(25)
    <2>6. CASE k + 1 = lo
      <3>1. first(k) = lo - 1 /\ lo - 1 \in 1 .. Len(map) - 1 /\ (lo - 1) + 1 = lo
            /\ k # lo
        BY <1>1, <1>2, <2>1, <2>6
      <3>2. map[lo - 1].allocated
        BY <1>1, <1>3, <3>1 DEF FreeAt
      <3> HIDE DEF first, last
      <3> QED
        BY <2>2, <2>4, <3>1, <3>2
    <2>7. CASE k # lo /\ k + 1 # lo
      <3>1. first(k) = last(k)
        BY <2>7
      <3>2. map[last(k)].allocated \/ map[last(k) + 1].allocated
        BY <1>3, <2>1
      <3> QED
        BY <2>1, <2>2, <2>4, <2>7, <3>1, <3>2
    <2> QED
      BY <2>5, <2>6, <2>7
  <1> QED
    BY <1>6, <1>7, <1>8, <1>9 DEF Tiles, Coalesced

(* petmem_deinit_process takes the first node away. *)
LEMMA TailInv ==
    ASSUME MapInv, file # "open", map # <<>>, map' = Tail(map)
    PROVE  /\ map' \in Seq(Node) /\ Len(map') = Len(map) - 1
           /\ DOMAIN map' = 1 .. Len(map) - 1 /\ DOMAIN map = 1 .. Len(map)
           /\ Len(map) \in Nat /\ Len(map) > 0
           /\ \A k \in 1 .. Len(map) - 1 : map'[k] = map[k + 1]
           /\ NodesInOrder'
  <1>1. map \in Seq(Node)
    BY DEF MapInv, MapTypeOK, Node
  <1>2. /\ map' \in Seq(Node) /\ Len(map') = Len(map) - 1
        /\ DOMAIN map' = 1 .. Len(map) - 1 /\ DOMAIN map = 1 .. Len(map)
        /\ Len(map) \in Nat /\ Len(map) > 0
        /\ \A k \in 1 .. Len(map) - 1 : map'[k] = map[k + 1]
    BY <1>1
  <1>3. NodesInOrder'
    BY <1>2 DEF MapInv, NodesInOrder
  <1> QED
    BY <1>2, <1>3

LEMMA StepInv == MapInv /\ [MapNext]_mapVars => MapInv'
  <1> SUFFICES ASSUME MapInv, [MapNext]_mapVars PROVE MapInv'
    OBVIOUS
  <1>1. ASSUME NEW n \in Sizes, LazyAlloc(n) PROVE MapInv'
    <2>1. n \in Nat /\ file = "open" /\ file' = "open" /\ MapAlloc(n)
      BY <1>1, SizesAssumption DEF LazyAlloc
    <2>2. PICK i \in DOMAIN map : AllocAt(i, n)
      BY <2>1, AllocMap DEF MapInv
    <2>3. NodesInOrder' /\ Tiles' /\ Coalesced'
      BY <2>1, <2>2, AllocInv
    <2>4. MapTypeOK'
      BY <1>1, <2>2 DEF LazyAlloc, AllocAt, MapInv, MapTypeOK, Node
    <2> QED
      BY <2>3, <2>4 DEF MapInv
  <1>2. ASSUME NEW page, LazyFree(page) PROVE MapInv'
    <2>1. file = "open" /\ file' = "open" /\ Freeable(page) # {}
          /\ map' = Freed(Min(Freeable(page)))
      BY <1>2 DEF LazyFree
    <2>2. PICK i \in Nat, lo \in Nat, hi \in Nat : FreeAt(i, lo, hi)
      BY <2>1, FreeMap
    <2>3. NodesInOrder' /\ Tiles' /\ Coalesced'
      BY <2>1, <2>2, FreeInv
    <2>4. MapTypeOK'
      BY <1>2, <2>2 DEF LazyFree, FreeAt, MapInv, MapTypeOK, Node
    <2> QED
      BY <2>3, <2>4 DEF MapInv
  <1>3. CASE Close
    BY <1>3 DEF Close, MapInv, MapTypeOK, NodesInOrder, Tiles, Coalesced
  <1>4. CASE CloseNode
    <2>1. CASE map' = Tail(map)
      <3>1. file = "closing" /\ file' = "closing" /\ map # <<>>
            /\ failed' \in BOOLEAN /\ UNCHANGED head_allocated
        BY <1>4 DEF CloseNode, MapInv, MapTypeOK
      <3>2. NodesInOrder' /\ map' \in Seq(Node)
        BY <2>1, <3>1, TailInv
      <3> QED
        BY <3>1, <3>2 DEF MapInv, MapTypeOK, Node, Tiles, Coalesced
    <2>2. CASE UNCHANGED map
      BY <1>4, <2>2 DEF CloseNode, MapInv, MapTypeOK, NodesInOrder, Tiles, Coalesced
    <2> QED
      BY <1>4, <2>1, <2>2 DEF CloseNode
  <1>5. CASE CloseDone
    BY <1>5 DEF CloseDone, MapInv, MapTypeOK, NodesInOrder, Tiles, Coalesced
  <1>6. CASE UNCHANGED mapVars
    BY <1>6 DEF mapVars, MapInv, MapTypeOK, NodesInOrder, Tiles, Coalesced
  <1> QED
    BY <1>1, <1>2, <1>3, <1>4, <1>5, <1>6
    DEF MapNext, LazyAllocFails, LazyFreeUnmapped

(* Types, order, tiling and merging hold in every state. *)
THEOREM MapSafe == MapSpec => []MapInv
  BY InitInv, StepInv, PTL DEF MapSpec

(* Whatever petmem_alloc_vspace has split and petmem_free_vspace has        *)
(* merged, the nodes of an open file's map cover the whole petmem range     *)
(* with no gap and no overlap.                                              *)
THEOREM MapTiles == MapSpec => []Tiles
  <1>1. MapInv => Tiles
    BY DEF MapInv
  <1> QED
    BY <1>1, MapSafe, PTL

(* petmem_free_vspace never leaves two free nodes side by side, and the     *)
(* last node is always free.                                                *)
THEOREM MapCoalesced == MapSpec => []Coalesced
  <1>1. MapInv => Coalesced
    BY DEF MapInv
  <1> QED
    BY <1>1, MapSafe, PTL

(* petmem_alloc_vspace returns NULL only if no run of the pages asked for   *)
(* is free of held regions.  The witness is the first node that ends beyond *)
(* the run's first page or, where that one is free, the node after it.      *)
THEOREM MapFailsOnlyWhenFull == MapSpec => []FailsOnlyWhenFull
  <1>1. MapInv => FailsOnlyWhenFull
    <2> SUFFICES ASSUME MapInv, file = "open", NEW n \in Sizes, Fitting(n) = {},
                        NEW p \in 0 .. RegionPages - n
                 PROVE  \E i \in DOMAIN map :
                           /\ map[i].allocated
                           /\ map[i].start < p + n
                           /\ p < map[i].start + map[i].size
      BY DEF FailsOnlyWhenFull
    <2> DEFINE Beyond == {i \in DOMAIN map : p < map[i].start + map[i].size}
               k == Min(Beyond)
    <2>1. /\ map \in Seq(Node) /\ Len(map) \in Nat /\ Len(map) > 0
          /\ DOMAIN map = 1 .. Len(map) /\ n \in Nat /\ RegionPages \in Nat
      BY SizesAssumption, RegionAssumption DEF MapInv, MapTypeOK, Node, Tiles
    <2>2. \A i \in 1 .. Len(map) :
             /\ map[i].start \in Nat /\ map[i].size \in Nat
             /\ map[i].allocated \/ map[i].size < n
      BY <2>1, NodeBounds DEF MapInv, Fitting, Fits
    <2>3. n > 0
      <3>1. ~map[Len(map)].allocated /\ Len(map) \in 1 .. Len(map)
        BY <2>1 DEF MapInv, Coalesced, Last
      <3> QED
        BY <2>1, <2>2, <3>1
    <2>4. Len(map) \in Beyond
      BY <2>1, <2>2, <2>3 DEF MapInv, Tiles, Last
    <2>5. k \in Beyond /\ \A m \in Beyond : k <= m
      <3>1. Beyond \in SUBSET Nat /\ Beyond # {}
        BY <2>1, <2>4
      <3> HIDE DEF Beyond
      <3> QED
        BY <3>1, MinIsLeast
    <2> HIDE DEF k
    <2>6. k \in 1 .. Len(map) /\ p < map[k].start + map[k].size
      BY <2>1, <2>5
    <2>7. map[k].start <= p
      <3>1. CASE k = 1
        BY <3>1 DEF MapInv, Tiles
      <3>2. CASE k > 1
        <4>1. k - 1 \in 1 .. Len(map) - 1 /\ (k - 1) + 1 = k /\ k - 1 \notin Beyond
          BY <2>1, <2>5, <2>6, <3>2
        <4>2. map[k].start = map[k - 1].start + map[k - 1].size
          BY <4>1 DEF MapInv, Tiles
        <4> QED
          BY <2>1, <2>2, <4>1, <4>2
      <3> QED
        BY <2>6, <3>1, <3>2
    <2>8. CASE map[k].allocated
      BY <2>1, <2>2, <2>3, <2>6, <2>7, <2>8
    <2>9. CASE ~map[k].allocated
      <3>1. map[k].start + map[k].size < p + n
        BY <2>1, <2>2, <2>6, <2>7, <2>9
      <3>2. k # Len(map)
        <4>1. map[Len(map)].start + map[Len(map)].size = RegionPages
          BY DEF MapInv, Tiles, Last
        <4>2. p + n <= RegionPages /\ p \in Nat
          BY <2>1
        <4>3. map[k].start + map[k].size \in Nat
          BY <2>2, <2>6
        <4>4. map[k].start + map[k].size < RegionPages
          BY <2>1, <3>1, <4>2, <4>3
        <4> QED
          BY <2>1, <4>1, <4>4
      <3>3. k \in 1 .. Len(map) - 1 /\ k + 1 \in 1 .. Len(map)
        <4>1. k \in 1 .. Len(map) /\ Len(map) \in Nat
          BY <2>1, <2>6
        <4> QED
          BY ONLY <3>2, <4>1
      <3>4. map[k + 1].allocated
        <4>1. map[k].allocated \/ map[k + 1].allocated
          BY <3>3 DEF MapInv, Coalesced
        <4> QED
          BY <2>9, <4>1
      <3>5. map[k + 1].start = map[k].start + map[k].size
        BY <3>3 DEF MapInv, Tiles
      <3>6. map[k + 1].start < p + n /\ p < map[k + 1].start + map[k + 1].size
        <4>1. map[k + 1].start \in Nat /\ map[k + 1].size \in Nat
          BY <2>2, <3>3
        <4> QED
          BY <2>1, <2>6, <3>1, <3>5, <4>1
      <3> QED
        BY <2>1, <3>3, <3>4, <3>6
    <2> QED
      BY <2>8, <2>9
  <1> QED
    BY <1>1, MapSafe, PTL

----------------------------------------------------------------------------
(* The map implements AbstractVspace. *)

(* the region of node k, and the nodes whose regions are held *)
Region(k) == [start |-> map[k].start, size |-> map[k].size]
Holding(k) == map[k].allocated /\ map[k].size > 0

LEMMA HeldIs ==
    ASSUME map \in Seq(Node), map' \in Seq(Node)
    PROVE  /\ \A r : r \in Held <=>
                 \E k \in 1 .. Len(map) : Holding(k) /\ r = Region(k)
           /\ \A r : r \in Held' <=>
                 \E k \in 1 .. Len(map') : Holding(k)' /\ r = Region(k)'
  <1>1. DOMAIN map = 1 .. Len(map) /\ DOMAIN map' = 1 .. Len(map')
    OBVIOUS
  <1> QED
    BY <1>1 DEF Held, Holding, Region

LEMMA AllocHeld ==
    ASSUME MapInv, NEW n \in Nat, NEW i \in DOMAIN map, AllocAt(i, n)
    PROVE  [Vspace!Next]_Held
  <1> DEFINE r == [start |-> map[i].start, size |-> n]
  <1>1. /\ map \in Seq(Node) /\ map' \in Seq(Node) /\ i \in 1 .. Len(map)
        /\ Len(map) \in Nat /\ Len(map') = Len(map) + 1
    BY DEF MapInv, MapTypeOK, Node, AllocAt
  <1>2. /\ \A h : h \in Held <=> \E k \in 1 .. Len(map) : Holding(k) /\ h = Region(k)
        /\ \A h : h \in Held' <=> \E k \in 1 .. Len(map') : Holding(k)' /\ h = Region(k)'
    BY <1>1, HeldIs
  <1>3. n <= map[i].size /\ ~map[i].allocated
    BY DEF AllocAt, Fits
  <1>4. /\ \A k \in 1 .. i - 1 : (Holding(k)' <=> Holding(k)) /\ Region(k)' = Region(k)
        /\ \A k \in i + 2 .. Len(map) + 1 :
              (Holding(k)' <=> Holding(k - 1)) /\ Region(k)' = Region(k - 1)
        /\ (Holding(i)' <=> n > 0) /\ Region(i)' = r
        /\ ~Holding(i + 1)'
    BY DEF AllocAt, Holding, Region
  <1>5. ~Holding(i)
    BY <1>3 DEF Holding
  <1>6. ASSUME NEW h PROVE h \in Held' <=> h \in Held \/ (n > 0 /\ h = r)
    <2>1. ASSUME h \in Held' PROVE h \in Held \/ (n > 0 /\ h = r)
      <3>1. PICK k \in 1 .. Len(map) + 1 : Holding(k)' /\ h = Region(k)'
        BY <1>1, <1>2, <2>1
      <3>2. CASE k \in 1 .. i - 1
        BY <1>1, <1>2, <1>4, <3>1, <3>2
      <3>3. CASE k \in i + 2 .. Len(map) + 1
        <4>1. k - 1 \in 1 .. Len(map)
          BY <1>1, <3>3
        <4> QED
          BY <1>2, <1>4, <3>1, <3>3, <4>1
      <3>4. CASE k = i
        BY <1>4, <3>1, <3>4
      <3>5. k \in 1 .. i - 1 \/ k \in i + 2 .. Len(map) + 1 \/ k = i \/ k = i + 1
        BY <1>1
      <3> QED
        BY <1>4, <3>1, <3>2, <3>3, <3>4, <3>5
    <2>2. ASSUME h \in Held PROVE h \in Held'
      <3>1. PICK k \in 1 .. Len(map) : Holding(k) /\ h = Region(k)
        BY <1>2, <2>2
      <3>2. CASE k < i
        <4>1. k \in 1 .. i - 1 /\ k \in 1 .. Len(map')
          BY <1>1, <3>2
        <4> QED
          BY <1>2, <1>4, <3>1, <4>1
      <3>3. CASE k > i
        <4>1. k + 1 \in i + 2 .. Len(map) + 1 /\ k + 1 \in 1 .. Len(map')
              /\ (k + 1) - 1 = k
          BY <1>1, <3>3
        <4>2. (Holding(k + 1)' <=> Holding(k)) /\ Region(k + 1)' = Region(k)
          BY <1>4, <4>1
        <4> QED
          BY <1>2, <3>1, <4>1, <4>2
      <3> QED
        BY <1>1, <1>5, <3>1, <3>2, <3>3
    <2>3. ASSUME n > 0, h = r PROVE h \in Held'
      <3>1. i \in 1 .. Len(map')
        BY <1>1
      <3> QED
        BY <1>2, <1>4, <2>3, <3>1
    <2> QED
      BY <2>1, <2>2, <2>3
  <1>7. CASE n = 0
    <2>1. ~(n > 0)
      BY <1>7
    <2>2. \A h : h \in Held' <=> h \in Held
      BY <1>6, <2>1
    <2>3. Held' = Held
      BY <2>2
    <2> QED
      BY <2>3
  <1>8. CASE n > 0
    <2>1. Held' = Held \cup {r}
      BY <1>6, <1>8
    <2>2. /\ map[i].start \in Nat /\ map[i].size \in Nat
          /\ map[i].start + map[i].size <= RegionPages
      BY <1>1, NodeBounds DEF MapInv
    <2>3. /\ map[i].start \in 0 .. RegionPages - 1 /\ n \in 1 .. RegionPages
          /\ map[i].start + n <= RegionPages
      BY <1>3, <1>8, <2>2, RegionAssumption
    <2>4. Vspace!Pages(r) \subseteq 0 .. RegionPages - 1
      <3>1. r.start = map[i].start /\ r.size = n
        OBVIOUS
      <3> HIDE DEF r
      <3> QED
        BY <2>2, <2>3, <3>1, RegionAssumption DEF Vspace!Pages
    <2>5. ASSUME NEW h \in Held PROVE Vspace!Pages(h) \cap Vspace!Pages(r) = {}
      <3>1. PICK k \in 1 .. Len(map) : Holding(k) /\ h = Region(k)
        BY <1>2
      <3>2. map[k].start \in Nat /\ map[k].size \in Nat
        BY <1>1, NodeBounds DEF MapInv
      <3>3. /\ k < i => map[k].start + map[k].size <= map[i].start
            /\ k > i => map[i].start + map[i].size <= map[k].start
        BY <1>1 DEF MapInv, NodesInOrder
      <3>4. k # i
        BY <1>5, <3>1
      <3>5. h.start = map[k].start /\ h.size = map[k].size
        BY <3>1 DEF Region
      <3> QED
        BY <1>1, <1>3, <2>2, <3>2, <3>3, <3>4, <3>5, SMTT(20) DEF Vspace!Pages
    <2>6. Vspace!Grant(map[i].start, n)
      BY <2>1, <2>4, <2>5 DEF Vspace!Grant
    <2> QED
      BY <2>3, <2>6 DEF Vspace!Next
  <1> QED
    BY <1>7, <1>8

(* Freeing node i takes its region away, if it has pages, and no other. *)
LEMMA ReleaseHeld ==
    ASSUME MapInv, map' \in Seq(Node), NEW i \in 1 .. Len(map),
           \A h : h \in Held' <=>
                     \E k \in 1 .. Len(map) : k # i /\ Holding(k) /\ h = Region(k)
    PROVE  [Vspace!Next]_Held
  <1>1. map \in Seq(Node) /\ Len(map) \in Nat /\ DOMAIN map = 1 .. Len(map)
    BY DEF MapInv, MapTypeOK, Node
  <1>2. \A h : h \in Held <=> \E k \in 1 .. Len(map) : Holding(k) /\ h = Region(k)
    BY <1>1, HeldIs
  <1>3. CASE ~Holding(i)
    <2>1. \A h : h \in Held' <=> h \in Held
      BY <1>2, <1>3
    <2>2. Held' = Held
      BY <2>1
    <2> QED
      BY <2>2
  <1>4. CASE Holding(i)
    <2>1. ASSUME NEW k \in 1 .. Len(map), Holding(k), k # i PROVE Region(k) # Region(i)
      <3>1. /\ map[k].start \in Nat /\ map[k].size \in Nat /\ map[k].size > 0
            /\ map[i].start \in Nat /\ map[i].size \in Nat /\ map[i].size > 0
        BY <1>4, <2>1, NodeBounds DEF MapInv, Holding
      <3>2. /\ k < i => map[k].start + map[k].size <= map[i].start
            /\ i < k => map[i].start + map[i].size <= map[k].start
        BY <1>1 DEF MapInv, NodesInOrder
      <3>3. map[k].start # map[i].start
        BY <2>1, <3>1, <3>2
      <3> QED
        BY <3>3 DEF Region
    <2>2. \A h : h \in Held' <=> h \in Held /\ h # Region(i)
      BY <1>2, <2>1
    <2>3. Held' = Held \ {Region(i)}
      BY <2>2
    <2>4. Region(i) \in Held
      BY <1>2, <1>4
    <2> QED
      BY <2>3, <2>4 DEF Vspace!Next, Vspace!Release
  <1> QED
    BY <1>3, <1>4

LEMMA FreeHeld ==
    ASSUME MapInv, NEW i \in Nat, NEW lo \in Nat, NEW hi \in Nat, FreeAt(i, lo, hi)
    PROVE  [Vspace!Next]_Held
  <1> DEFINE d == hi - lo
  <1>1. map \in Seq(Node) /\ Len(map) \in Nat
    BY DEF MapInv, MapTypeOK, Node
  <1>2. /\ map' \in Seq(Node) /\ i \in 1 .. Len(map) /\ Len(map') = Len(map) - d
        /\ lo \in 1 .. i /\ hi \in i .. Len(map) /\ lo >= i - 1 /\ hi <= i + 1
        /\ lo # i => ~map[lo].allocated
        /\ hi # i => ~map[hi].allocated
    BY <1>1 DEF FreeAt
  <1>3. d \in Nat /\ hi = lo + d
    BY <1>2
  <1>4. \A h : h \in Held' <=> \E k \in 1 .. Len(map') : Holding(k)' /\ h = Region(k)'
    BY <1>1, <1>2, HeldIs
  <1>5. /\ \A k \in 1 .. lo - 1 : (Holding(k)' <=> Holding(k)) /\ Region(k)' = Region(k)
        /\ \A k \in lo + 1 .. Len(map) - d :
              (Holding(k)' <=> Holding(k + d)) /\ Region(k)' = Region(k + d)
        /\ ~Holding(lo)'
    BY SMTT(20) DEF FreeAt, Holding, Region
  <1>6. /\ lo # i => ~Holding(lo)
        /\ hi # i => ~Holding(hi)
    BY <1>2 DEF Holding
  <1> HIDE DEF d
  <1>7. ASSUME NEW h
        PROVE  h \in Held' <=>
                  \E k \in 1 .. Len(map) : k # i /\ Holding(k) /\ h = Region(k)
    <2>1. ASSUME h \in Held'
          PROVE  \E k \in 1 .. Len(map) : k # i /\ Holding(k) /\ h = Region(k)
      <3>1. PICK k \in 1 .. Len(map) - d : Holding(k)' /\ h = Region(k)'
        BY <1>2, <1>4, <2>1
      <3>2. CASE k < lo
        <4>1. k \in 1 .. lo - 1 /\ k \in 1 .. Len(map) /\ k # i
          BY <1>1, <1>2, <1>3, <3>2
        <4> QED
          BY <1>5, <3>1, <4>1
      <3>3. CASE k > lo
        <4>1. k \in lo + 1 .. Len(map) - d /\ k + d \in 1 .. Len(map) /\ k + d # i
          BY <1>1, <1>2, <1>3, <3>3
        <4> QED
          BY <1>5, <3>1, <4>1
      <3> QED
        BY <1>2, <1>5, <3>1, <3>2, <3>3
    <2>2. ASSUME NEW k \in 1 .. Len(map), k # i, Holding(k), h = Region(k)
          PROVE  h \in Held'
      <3>1. CASE k < lo
        <4>1. k \in 1 .. lo - 1 /\ k \in 1 .. Len(map')
          BY <1>1, <1>2, <1>3, <3>1
        <4> QED
          BY <1>4, <1>5, <2>2, <4>1
      <3>2. CASE k > hi
        <4>1. /\ k - d \in lo + 1 .. Len(map) - d /\ k - d \in 1 .. Len(map')
              /\ (k - d) + d = k
          BY <1>1, <1>2, <1>3, <3>2
        <4>2. (Holding(k - d)' <=> Holding(k)) /\ Region(k - d)' = Region(k)
          BY <1>5, <4>1
        <4> QED
          BY <1>4, <2>2, <4>1, <4>2
      <3>3. k < lo \/ k > hi
        BY <1>1, <1>2, <1>6, <2>2
      <3> QED
        BY <3>1, <3>2, <3>3
    <2> QED
      BY <2>1, <2>2
  <1> QED
    BY <1>2, <1>7, ReleaseHeld

LEMMA TailHeld ==
    ASSUME MapInv, file # "open", map # <<>>, map' = Tail(map)
    PROVE  [Vspace!Next]_Held
  <1>1. /\ map' \in Seq(Node) /\ Len(map') = Len(map) - 1
        /\ Len(map) \in Nat /\ Len(map) > 0
        /\ \A k \in 1 .. Len(map) - 1 : map'[k] = map[k + 1]
    BY TailInv
  <1>2. map \in Seq(Node)
    BY DEF MapInv, MapTypeOK, Node
  <1>3. \A h : h \in Held' <=> \E k \in 1 .. Len(map') : Holding(k)' /\ h = Region(k)'
    BY <1>1, <1>2, HeldIs
  <1>4. \A k \in 1 .. Len(map) - 1 :
           (Holding(k)' <=> Holding(k + 1)) /\ Region(k)' = Region(k + 1)
    BY <1>1 DEF Holding, Region
  <1>5. ASSUME NEW h
        PROVE  h \in Held' <=>
                  \E k \in 1 .. Len(map) : k # 1 /\ Holding(k) /\ h = Region(k)
    <2>1. ASSUME NEW k \in 1 .. Len(map), k # 1
          PROVE  k - 1 \in 1 .. Len(map) - 1 /\ (k - 1) + 1 = k
      BY <1>1, <2>1
    <2>2. ASSUME NEW k \in 1 .. Len(map) - 1
          PROVE  k + 1 \in 1 .. Len(map) /\ k + 1 # 1
      BY <1>1
    <2>3. ASSUME NEW k \in 1 .. Len(map), k # 1, Holding(k), h = Region(k)
          PROVE  h \in Held'
      <3>1. Holding(k - 1)' /\ Region(k - 1)' = Region(k)
        BY <1>4, <2>1, <2>3
      <3> QED
        BY <1>1, <1>3, <2>1, <2>3, <3>1
    <2> QED
      BY <1>1, <1>3, <1>4, <2>2, <2>3
  <1>6. 1 \in 1 .. Len(map)
    BY <1>1
  <1> QED
    BY <1>1, <1>5, <1>6, ReleaseHeld

LEMMA VspaceStep == MapInv /\ [MapNext]_mapVars => [Vspace!Next]_Held
  <1> SUFFICES ASSUME MapInv, [MapNext]_mapVars PROVE [Vspace!Next]_Held
    OBVIOUS
  <1>1. ASSUME NEW n \in Sizes, LazyAlloc(n) PROVE [Vspace!Next]_Held
    <2>1. n \in Nat /\ MapAlloc(n)
      BY <1>1, SizesAssumption DEF LazyAlloc
    <2>2. PICK i \in DOMAIN map : AllocAt(i, n)
      BY <2>1, AllocMap DEF MapInv
    <2> QED
      BY <2>1, <2>2, AllocHeld
  <1>2. ASSUME NEW page, LazyFree(page) PROVE [Vspace!Next]_Held
    <2>1. PICK i \in Nat, lo \in Nat, hi \in Nat : FreeAt(i, lo, hi)
      BY <1>2, FreeMap DEF LazyFree
    <2> QED
      BY <2>1, FreeHeld
  <1>3. CASE UNCHANGED map
    <2>1. Held' = Held
      BY <1>3 DEF Held
    <2> QED
      BY <2>1
  <1>4. CASE CloseNode
    <2>1. CASE map' = Tail(map)
      BY <1>4, <2>1, TailHeld DEF CloseNode
    <2> QED
      BY <1>3, <1>4, <2>1 DEF CloseNode
  <1> QED
    BY <1>1, <1>2, <1>3, <1>4
    DEF MapNext, LazyAllocFails, LazyFreeUnmapped, Close, CloseDone, mapVars

(* petmem_alloc_vspace and petmem_free_vspace give a process regions of the *)
(* petmem range that never overlap and come and go whole, one at a time;    *)
(* petmem_deinit_process only takes them away.                              *)
THEOREM MapImplementsVspace == MapSpec => VspaceContract
  <1>1. MapInit => Vspace!Init
    <2> SUFFICES ASSUME MapInit PROVE Held = {}
      BY DEF Vspace!Init
    <2>1. DOMAIN map = {1} /\ ~map[1].allocated
      BY DEF MapInit
    <2> QED
      BY <2>1 DEF Held
  <1>2. MapInv /\ [MapNext]_mapVars => [Vspace!Next]_Held
    BY VspaceStep
  <1>3. MapSpec => []MapInv
    BY MapSafe
  <1> QED
    BY <1>1, <1>2, <1>3, PTL DEF MapSpec, VspaceContract, Vspace!Spec

----------------------------------------------------------------------------
(* Every step leaves mem with its fields. *)

HasFields(m) == {"tables", "used", "harm", "ended"} \subseteq DOMAIN m

LEMMA UnlinkFields ==
    ASSUME NEW m, NEW cur, NEW parent, HasFields(m)
    PROVE  HasFields(Unlink(m, cur, parent))
  BY DEF HasFields, Unlink

LEMMA FreeTableFields ==
    ASSUME NEW m, NEW ended, NEW mine, NEW cur, NEW parent, HasFields(m),
           NEW m1 \in FreeTable(m, ended, mine, cur, parent)
    PROVE  HasFields(m1)
  <1> DEFINE end == [m EXCEPT !.ended = TRUE]
  <1>1. HasFields(end)
    BY DEF HasFields
  <1>2. HasFields(Unlink(end, cur, parent))
    <2> HIDE DEF end
    <2> QED
      BY <1>1, UnlinkFields
  <1>3. m1 \in {m, end, Unlink(end, cur, parent)}
    BY DEF FreeTable
  <1> QED
    BY <1>1, <1>2, <1>3

LEMMA VisitFields ==
    ASSUME NEW w, HasFields(mem)
    PROVE  HasFields(Visit(w))
  BY DEF Visit, HasFields

LEMMA FieldsStep ==
    ASSUME HasFields(mem), [Next]_vars
    PROVE  HasFields(mem')
  <1>1. CASE mem' = mem
    BY <1>1
  <1>2. CASE \E page \in Touched : HandlePagefault(page)
    <2>1. PICK page \in Touched : mem' = Mapped(page) \/ mem' = [mem EXCEPT !.harm = "outside"]
      BY <1>2 DEF HandlePagefault
    <2>2. HasFields(Mapped(page))
      BY DEF Mapped, HasFields
    <2>3. HasFields([mem EXCEPT !.harm = "outside"])
      BY DEF HasFields
    <2> QED
      BY <2>1, <2>2, <2>3
  <1>3. CASE \E page \in Touched : PagefaultNoMemory(page)
    <2>1. mem' = [mem EXCEPT !.harm = "no memory"]
      BY <1>3 DEF PagefaultNoMemory
    <2> QED
      BY <2>1 DEF HasFields
  <1>5. CASE WalkRound
    <2> DEFINE w == Cascade(Descend(walk))
               n == [mem EXCEPT !.ended = @ \/ Walking(w)]
               m == IF Reach(walk) = "pte" THEN Visit(w) ELSE n
    <2>1. HasFields(m)
      <3> HIDE DEF w
      <3>1. HasFields(n)
        BY DEF HasFields
      <3> QED
        BY <3>1, VisitFields
    <2>2. \E m1 \in FreeTable(m, Ended(w.pt_index, walk.pt_index), w.pt_mine,
                              w.pt_cur, w.pd_cur) :
          \E m2 \in FreeTable(m1, Ended(w.pd_index, walk.pd_index), w.pd_mine,
                              w.pd_cur, w.pdp_cur) :
             mem' \in FreeTable(m2, Ended(w.pdp_index, walk.pdp_index), w.pdp_mine,
                                w.pdp_cur, At(PML, 0))
      BY <1>5 DEF WalkRound
    <2> HIDE DEF w, m
    <2> QED
      BY <2>1, <2>2, FreeTableFields
  <1>6. CASE WalkOutside
    <2>1. mem' = [mem EXCEPT !.harm = "outside"]
      BY <1>6 DEF WalkOutside
    <2> QED
      BY <2>1 DEF HasFields
  <1> QED
    BY <1>1, <1>2, <1>3, <1>5, <1>6
       DEF Next, vars, Allocate, FreeVspace, PagefaultRefused, WalkEnds, CloseFile,
           DeinitAllocated, DeinitFree, DeinitDone

----------------------------------------------------------------------------
(* The page tables as a tree.  T are the entries of the pages, U the pages  *)
(* in use.                                                                  *)

Index == 0 .. R - 1
Pages == {PML} \cup Phys
Inner(U) == {PML} \cup U

Typed(T, U) ==
    /\ T \in [Pages -> [Index -> Phys \cup {None, Own}]]
    /\ U \subseteq Phys

(* Every entry leads to a page in use, and to one that no other leads to. *)
LinksRight(T, U) ==
    \A a \in Inner(U), i \in Index : T[a][i] \in Phys =>
        /\ T[a][i] \in U
        /\ \A b \in Inner(U), j \in Index : T[b][j] = T[a][i] => b = a /\ j = i

Reached(T, U) == \A p \in U : \E a \in Inner(U), i \in Index : T[a][i] = p

(* A page has the level of the path that leads to it; user pages, with      *)
(* level 4, have no entries.                                                *)
IsLevel(lev, T, U) ==
    /\ lev \in [Pages -> 0 .. 4] /\ lev[PML] = 0
    /\ \A a \in Inner(U), i \in Index : T[a][i] \in Phys => lev[T[a][i]] = lev[a] + 1

(* The program's own PD is in the first entry of the PDP table. *)
OwnRight(T, U) ==
    \A a \in Inner(U), i \in Index : T[a][i] = Own => a \in U /\ T[PML][0] = a /\ i = 0

Tree(T, U) ==
    /\ Typed(T, U) /\ LinksRight(T, U) /\ Reached(T, U) /\ OwnRight(T, U)
    /\ \E lev : IsLevel(lev, T, U)

(* The PML, the two marks and the physical pages are all different. *)
LEMMA PagesApart ==
    PML \notin Phys /\ None \notin Phys /\ Own \notin Phys /\ None # Own
  BY DEF PML, None, Own, Phys

(* A path of entries from the PML to a user page, path[n] to path[n + 1] at *)
(* index at[n], of which the pages that are not in U are fresh.             *)
IsPath(path, at, T, U) ==
    /\ path \in [1 .. 5 -> Pages] /\ path[1] = PML /\ at \in [1 .. 4 -> Index]
    /\ \A n \in 2 .. 5 : path[n] \in Phys
    /\ \A n, m \in 1 .. 5 : path[n] = path[m] => n = m
    /\ \A n \in 1 .. 4 : path[n + 1] \in U =>
          path[n] \in Inner(U) /\ T[path[n]][at[n]] = path[n + 1]
    /\ \A n \in 1 .. 4 : path[n] \in Inner(U) /\ path[n + 1] \notin U =>
          T[path[n]][at[n]] = None

(* T1 is T with the path hung into it. *)
IsHung(T1, path, at, T, U) ==
    /\ T1 \in [Pages -> [Index -> Phys \cup {None, Own}]]
    /\ \A n \in 1 .. 4 : T1[path[n]][at[n]] = path[n + 1]
    /\ \A a \in Pages, i \in Index :
          (\A n \in 1 .. 4 : a # path[n] \/ i # at[n]) =>
              T1[a][i] = IF a \in {path[n] : n \in 2 .. 5} \ U THEN None ELSE T[a][i]

(* A tree with a path hung into it is a tree, of the old pages and the      *)
(* fresh ones on the path.                                                  *)
LEMMA PathHung ==
    ASSUME NEW T, NEW U, Tree(T, U), NEW path, NEW at, IsPath(path, at, T, U),
           NEW T1, IsHung(T1, path, at, T, U)
    PROVE  Tree(T1, U \cup ({path[n] : n \in 2 .. 5} \ U))
  <1> DEFINE new == {path[n] : n \in 2 .. 5} \ U
             U1 == U \cup new
  <1>1. Typed(T1, U1)
    BY DEF Typed, Tree, IsHung, IsPath
  <1>2. U \subseteq Phys /\ new \cap Inner(U) = {} /\ PML \notin U
    <2>1. U \subseteq Phys
      BY DEF Tree, Typed
    <2>2. PML \notin new
      BY PagesApart DEF IsPath
    <2> QED
      BY <2>1, <2>2, PagesApart DEF Inner
  (* an entry of T1 with a page behind it is on the path or was there *)
  <1>3. ASSUME NEW a \in Inner(U1), NEW i \in Index, T1[a][i] \in Phys
        PROVE  \/ a \in Inner(U) /\ T[a][i] = T1[a][i] /\ T1[a][i] \in U
               \/ \E n \in 1 .. 4 : /\ a = path[n] /\ i = at[n] /\ T1[a][i] = path[n + 1]
                                    /\ path[n + 1] \notin U
    <2>1. CASE \E n \in 1 .. 4 : a = path[n] /\ i = at[n]
      <3>1. PICK n \in 1 .. 4 : a = path[n] /\ i = at[n]
        BY <2>1
      <3>2. T1[a][i] = path[n + 1]
        BY <3>1 DEF IsHung
      <3> QED
        BY <3>1, <3>2 DEF IsPath
    <2>2. CASE \A n \in 1 .. 4 : a # path[n] \/ i # at[n]
      <3>1. a \in Pages
        BY <1>1 DEF Typed, Inner, Pages
      <3>2. T1[a][i] = IF a \in new THEN None ELSE T[a][i]
        BY <2>2, <3>1 DEF IsHung
      <3>3. a \notin new /\ a \in Inner(U) /\ T1[a][i] = T[a][i]
        BY <1>3, <3>2, PagesApart DEF Inner
      <3> QED
        BY <1>3, <3>3 DEF Tree, LinksRight
    <2> QED
      BY <2>1, <2>2
  <1>4. ASSUME NEW n \in 1 .. 4 PROVE path[n] \in Inner(U1) /\ path[n + 1] \in U1
    <2>1. path[n] = PML \/ n \in 2 .. 5
      BY DEF IsPath
    <2> QED
      BY <2>1 DEF Inner
  (* an entry of T with a page behind it is still there *)
  <1>5. ASSUME NEW a \in Inner(U), NEW i \in Index, T[a][i] \in Phys
        PROVE  T1[a][i] = T[a][i]
    <2>1. a \in Pages /\ a \notin new
      BY <1>2 DEF Inner, Pages
    <2>2. CASE \E n \in 1 .. 4 : a = path[n] /\ i = at[n]
      <3>1. PICK n \in 1 .. 4 : a = path[n] /\ i = at[n]
        BY <2>2
      <3>2. path[n + 1] \in U
        BY <1>5, <3>1, PagesApart DEF IsPath
      <3> QED
        BY <3>1, <3>2 DEF IsPath, IsHung
    <2>3. CASE \A n \in 1 .. 4 : a # path[n] \/ i # at[n]
      BY <2>1, <2>3 DEF IsHung
    <2> QED
      BY <2>2, <2>3
  <1>6. LinksRight(T1, U1)
    <2> SUFFICES ASSUME NEW a \in Inner(U1), NEW i \in Index, T1[a][i] \in Phys
                 PROVE  /\ T1[a][i] \in U1
                        /\ \A b \in Inner(U1), j \in Index :
                              T1[b][j] = T1[a][i] => b = a /\ j = i
      BY DEF LinksRight
    <2>1. T1[a][i] \in U1
      BY <1>3, <1>4
    <2>2. ASSUME NEW b \in Inner(U1), NEW j \in Index, T1[b][j] = T1[a][i]
          PROVE  b = a /\ j = i
      <3> HIDE DEF new, U1
      <3>1. CASE T1[a][i] \in U
        <4>1. a \in Inner(U) /\ T[a][i] = T1[a][i]
          BY <1>3, <3>1
        <4>2. b \in Inner(U) /\ T[b][j] = T1[b][j]
          BY <1>3, <2>2, <3>1
        <4> QED
          BY <2>2, <4>1, <4>2 DEF Tree, LinksRight
      <3>2. CASE T1[a][i] \notin U
        <4>1. PICK n \in 1 .. 4 : a = path[n] /\ i = at[n] /\ T1[a][i] = path[n + 1]
          BY <1>3, <3>2
        <4>2. PICK m \in 1 .. 4 : b = path[m] /\ j = at[m] /\ T1[b][j] = path[m + 1]
          BY <1>3, <2>2, <3>2
        <4>3. n + 1 = m + 1
          BY <2>2, <4>1, <4>2 DEF IsPath
        <4>4. n = m
          BY <4>3
        <4> QED
          BY <4>1, <4>2, <4>4
      <3> QED
        BY <3>1, <3>2
    <2> QED
      BY <2>1, <2>2
  <1>7. Reached(T1, U1)
    <2> SUFFICES ASSUME NEW p \in U1
                 PROVE  \E a \in Inner(U1), i \in Index : T1[a][i] = p
      BY DEF Reached
    <2>1. CASE p \in U
      <3>1. PICK a \in Inner(U), i \in Index : T[a][i] = p
        BY <2>1 DEF Tree, Reached
      <3>2. T1[a][i] = p
        BY <1>2, <1>5, <2>1, <3>1
      <3> QED
        BY <3>1, <3>2 DEF Inner
    <2>2. CASE p \in new
      <3>1. PICK m \in 2 .. 5 : p = path[m]
        BY <2>2
      <3>2. m - 1 \in 1 .. 4 /\ (m - 1) + 1 = m
        OBVIOUS
      <3>3. T1[path[m - 1]][at[m - 1]] = p /\ at[m - 1] \in Index
        BY <3>1, <3>2 DEF IsHung, IsPath
      <3>4. path[m - 1] \in Inner(U1)
        BY <1>4, <3>2
      <3> QED
        BY <3>3, <3>4
    <2> QED
      BY <2>1, <2>2
  <1>8. \E lev : IsLevel(lev, T1, U1)
    <2>1. PICK lev : IsLevel(lev, T, U)
      BY DEF Tree
    <2> DEFINE lev1 == [p \in Pages |->
                          IF p \in new THEN (CHOOSE n \in 2 .. 5 : path[n] = p) - 1
                          ELSE lev[p]]
    <2>2. ASSUME NEW n \in 2 .. 5 PROVE (CHOOSE m \in 2 .. 5 : path[m] = path[n]) = n
      <3>1. \A m \in 2 .. 5 : path[m] = path[n] => m = n
        BY DEF IsPath
      <3> QED
        BY <3>1
    <2>3. ASSUME NEW n \in 1 .. 5, path[n] \in Inner(U) PROVE lev[path[n]] = n - 1
      <3> DEFINE Right(k) == path[k] \in Inner(U) => lev[path[k]] = k - 1
      <3>1. Right(1)
        BY <2>1 DEF IsLevel, IsPath
      <3>2. ASSUME NEW k \in 1 .. 4, Right(k) PROVE Right(k + 1)
        <4> SUFFICES ASSUME path[k + 1] \in Inner(U) PROVE lev[path[k + 1]] = k
          OBVIOUS
        <4>1. path[k + 1] \in U
          BY PagesApart DEF IsPath, Inner
        <4>2. path[k] \in Inner(U) /\ T[path[k]][at[k]] = path[k + 1]
          BY <4>1 DEF IsPath
        <4>3. lev[path[k]] = k - 1 /\ at[k] \in Index /\ path[k + 1] \in Phys
          BY <3>2, <4>2 DEF IsPath
        <4> QED
          BY <2>1, <4>2, <4>3 DEF IsLevel
      <3>3. Right(2) /\ Right(3) /\ Right(4) /\ Right(5)
        <4> HIDE DEF Right
        <4>1. Right(2)
          BY <3>1, <3>2
        <4>2. Right(3)
          BY <4>1, <3>2
        <4>3. Right(4)
          BY <4>2, <3>2
        <4>4. Right(5)
          BY <4>3, <3>2
        <4> QED
          BY <4>1, <4>2, <4>3, <4>4
      <3> QED
        BY <2>3, <3>1, <3>3
    <2>4. ASSUME NEW n \in 1 .. 5 PROVE lev1[path[n]] = n - 1
      <3>1. path[n] \in Pages
        BY DEF IsPath
      <3>2. CASE path[n] \in Inner(U)
        <4>1. path[n] \notin new
          BY <1>2, <3>2
        <4> QED
          BY <2>3, <3>1, <3>2, <4>1
      <3>3. CASE path[n] \notin Inner(U)
        <4>1. n \in 2 .. 5 /\ path[n] \in new
          BY <3>3 DEF IsPath, Inner
        <4> QED
          BY <2>2, <3>1, <4>1
      <3> QED
        BY <3>2, <3>3
    <2>5. lev1 \in [Pages -> 0 .. 4]
      <3>1. ASSUME NEW p \in Pages PROVE lev1[p] \in 0 .. 4
        <4>1. CASE p \in new
          <5>1. PICK n \in 2 .. 5 : p = path[n]
            BY <4>1
          <5>2. n \in 1 .. 5
            OBVIOUS
          <5>3. lev1[p] = n - 1
            BY <2>4, <5>1, <5>2
          <5> QED
            BY <5>3
        <4>2. CASE p \notin new
          BY <2>1, <4>2 DEF IsLevel
        <4> QED
          BY <4>1, <4>2
      <3> QED
        BY <3>1
    <2>6. \A p \in Inner(U) : lev1[p] = lev[p]
      BY <1>2 DEF Inner, Pages
    <2> HIDE DEF lev1
    <2>7. ASSUME NEW a \in Inner(U1), NEW i \in Index, T1[a][i] \in Phys
          PROVE  lev1[T1[a][i]] = lev1[a] + 1
      <3>1. CASE a \in Inner(U) /\ T[a][i] = T1[a][i] /\ T1[a][i] \in U
        <4>1. lev[T1[a][i]] = lev[a] + 1
          BY <2>1, <2>7, <3>1 DEF IsLevel
        <4> QED
          BY <2>6, <3>1, <4>1 DEF Inner
      <3>2. CASE \E n \in 1 .. 4 : a = path[n] /\ T1[a][i] = path[n + 1]
        <4>1. PICK n \in 1 .. 4 : a = path[n] /\ T1[a][i] = path[n + 1]
          BY <3>2
        <4>2. lev1[path[n]] = n - 1 /\ lev1[path[n + 1]] = (n + 1) - 1
          BY <2>4
        <4> QED
          BY <4>1, <4>2
      <3> QED
        BY <1>3, <2>7, <3>1, <3>2
    <2>8. lev1[PML] = 0
      BY <2>1, <2>6 DEF IsLevel, Inner
    <2> QED
      BY <2>5, <2>7, <2>8 DEF IsLevel
  <1>9. OwnRight(T1, U1)
    <2> SUFFICES ASSUME NEW a \in Inner(U1), NEW i \in Index, T1[a][i] = Own
                 PROVE  a \in U1 /\ T1[PML][0] = a /\ i = 0
      BY DEF OwnRight
    <2>1. \A n \in 1 .. 4 : a # path[n] \/ i # at[n]
      <3> SUFFICES ASSUME NEW n \in 1 .. 4, a = path[n], i = at[n] PROVE FALSE
        OBVIOUS
      <3>1. Own = path[n + 1] /\ n + 1 \in 2 .. 5
        BY DEF IsHung
      <3> QED
        BY <3>1, PagesApart DEF IsPath
    <2>2. a \in Pages
      BY <1>1 DEF Typed, Inner, Pages
    <2>3. T1[a][i] = IF a \in new THEN None ELSE T[a][i]
      BY <2>1, <2>2 DEF IsHung
    <2>4. a \in Inner(U) /\ T[a][i] = Own
      BY <2>3, PagesApart DEF Inner
    <2>5. a \in U /\ T[PML][0] = a /\ i = 0
      BY <2>4 DEF Tree, OwnRight
    <2>6. T1[PML][0] = T[PML][0]
      BY <1>2, <1>5, <2>5 DEF Inner
    <2> QED
      BY <2>5, <2>6
  <1> QED
    BY <1>1, <1>6, <1>7, <1>8, <1>9 DEF Tree

(* There are finitely many free pages. *)
LEMMA FreePagesFinite == IsFiniteSet(FreePages) /\ Cardinality(FreePages) \in Nat
  <1>1. IsFiniteSet(1 .. NumPages)
    BY TablesAssumption, FS_Interval
  <1>2. FreePages \in SUBSET (1 .. NumPages)
    BY DEF FreePages, Phys
  <1> QED
    BY <1>1, <1>2, FS_Subset, FS_CardinalityType

(* Fresh(1), Fresh(2), ... are different free pages. *)
LEMMA FreshPage ==
    ASSUME mem.used \subseteq Phys, NEW n \in Nat \ {0}, n <= Cardinality(FreePages)
    PROVE  /\ Fresh(n) \in FreePages
           /\ Cardinality({q \in FreePages : q <= Fresh(n)}) = n
  <1> DEFINE Low(p) == {q \in FreePages : q <= p}
             S == {p \in Nat : Cardinality(Low(p)) >= n}
  <1>1. NumPages \in Nat
    BY TablesAssumption
  <1>2. \A q \in FreePages : q \in Nat /\ 1 <= q /\ q <= NumPages
    BY <1>1 DEF FreePages, Phys
  <1>3. IsFiniteSet(FreePages)
    BY FreePagesFinite
  <1>4. ASSUME NEW p \in Nat PROVE IsFiniteSet(Low(p)) /\ Cardinality(Low(p)) \in Nat
    BY <1>3, FS_Subset, FS_CardinalityType
  <1>5. Low(NumPages) = FreePages
    BY <1>1, <1>2
  <1>6. NumPages \in S
    BY <1>1, <1>5
  <1>7. PICK p \in S : \A q \in S : p <= q
    <2>1. S \in SUBSET Nat /\ S # {}
      BY <1>6
    <2> HIDE DEF S
    <2> QED
      BY <2>1, MinIsLeast
  <1>8. p \in Nat /\ Cardinality(Low(p)) >= n
    BY <1>7
  <1>9. p # 0
    <2>1. Low(0) = {}
      BY <1>2
    <2>2. Cardinality(Low(0)) = 0
      BY <2>1, FS_EmptySet
    <2> HIDE DEF Low
    <2> QED
      BY <1>8, <2>2
  <1>10. p - 1 \in Nat /\ p - 1 \notin S
    BY <1>7, <1>8, <1>9
  <1>11. Cardinality(Low(p - 1)) < n
    <2>1. Cardinality(Low(p - 1)) \in Nat
      BY <1>4, <1>10
    <2> HIDE DEF Low
    <2> QED
      BY <1>10, <2>1
  <1>12. p \in FreePages
    <2> SUFFICES ASSUME p \notin FreePages PROVE FALSE
      OBVIOUS
    <2>1. Low(p) = Low(p - 1)
      BY <1>2, <1>8
    <2>2. Cardinality(Low(p)) \in Nat
      BY <1>4, <1>8
    <2> HIDE DEF Low
    <2> QED
      BY <1>8, <1>11, <2>1, <2>2
  <1>13. Cardinality(Low(p)) = n
    <2>1. Low(p) = Low(p - 1) \cup {p} /\ p \notin Low(p - 1)
      <3>1. \A q \in FreePages : q <= p <=> q <= p - 1 \/ q = p
        BY <1>2, <1>8
      <3>2. p <= p /\ ~(p <= p - 1)
        BY <1>8
      <3> QED
        BY <1>12, <3>1, <3>2
    <2>2. IsFiniteSet(Low(p - 1)) /\ Cardinality(Low(p - 1)) \in Nat
      BY <1>4, <1>10
    <2> HIDE DEF Low
    <2>3. Cardinality(Low(p)) = Cardinality(Low(p - 1)) + 1
      BY <2>1, <2>2, FS_AddElement
    <2> QED
      BY <1>8, <1>11, <2>2, <2>3
  <1> QED
    BY <1>12, <1>13 DEF Fresh

(* get_zeroed_page's answers within one fault differ from each other. *)
LEMMA FreshDiffer ==
    ASSUME mem.used \subseteq Phys, Cardinality(FreePages) >= 4
    PROVE  /\ \A n \in 1 .. 4 : Fresh(n) \in Phys \ mem.used
           /\ \A n, m \in 1 .. 4 : Fresh(n) = Fresh(m) => n = m
  <1>1. ASSUME NEW n \in 1 .. 4
        PROVE  /\ Fresh(n) \in FreePages
               /\ Cardinality({q \in FreePages : q <= Fresh(n)}) = n
    <2>1. n \in Nat \ {0} /\ n <= Cardinality(FreePages)
      BY FreePagesFinite
    <2> QED
      BY <2>1, FreshPage
  <1>2. \A n \in 1 .. 4 : Fresh(n) \in Phys \ mem.used
    BY <1>1 DEF FreePages
  <1>3. ASSUME NEW n \in 1 .. 4, NEW m \in 1 .. 4, Fresh(n) = Fresh(m) PROVE n = m
    BY <1>1, <1>3
  <1> QED
    BY <1>2, <1>3

(* The indices of a page of the range. *)
LEMMA TimesMonotone ==
    ASSUME NEW a \in Int, NEW b \in Int, NEW d \in Nat, a <= b
    PROVE  a * d <= b * d
  OBVIOUS

(* A bound on a quotient from one on the dividend. *)
LEMMA QuotientLess ==
    ASSUME NEW x \in Nat, NEW d \in Nat \ {0}, NEW b \in Nat, x < b * d
    PROVE  x \div d \in 0 .. b - 1
  <1> DEFINE q == x \div d
  <1>1. q \in Nat /\ q * d <= x
    OBVIOUS
  <1> HIDE DEF q
  <1>2. b <= q => b * d <= q * d
    BY <1>1, TimesMonotone
  <1>3. b * d \in Nat /\ q * d \in Nat
    BY <1>1
  <1>4. q \in 0 .. b - 1
    BY <1>1, <1>2, <1>3
  <1> QED
    BY <1>4 DEF q

(* The indices of a page of the range lie inside the tables. *)
LEMMA IndexInTable ==
    ASSUME NEW page \in Nat, page < RegionPages
    PROVE  /\ PdpIndex(page) \in Index /\ PdIndex(page) \in Index
           /\ PtIndex(page) \in Index
  <1>1. /\ R \in Nat \ {0} /\ FirstPDP \in Nat /\ R - FirstPDP \in Nat
        /\ RegionPages < (R - FirstPDP) * R * R
    BY TablesAssumption
  <1>2. R * R \in Nat \ {0} /\ (R - FirstPDP) * R * R = (R - FirstPDP) * (R * R)
    BY <1>1
  <1>3. page \div (R * R) \in 0 .. (R - FirstPDP) - 1
    <2> DEFINE d == R * R
               b == R - FirstPDP
    <2>1. d \in Nat \ {0} /\ b \in Nat /\ b * d \in Nat /\ page < b * d
      <3>1. b * d \in Nat /\ RegionPages < b * d
        BY <1>1, <1>2
      <3> HIDE DEF b, d
      <3>2. page < b * d
        BY <3>1, RegionAssumption
      <3> QED
        BY <1>1, <1>2, <3>1, <3>2 DEF b, d
    <2> HIDE DEF b, d
    <2>2. page \div d \in 0 .. b - 1
      BY <2>1, QuotientLess
    <2> QED
      BY <2>2 DEF b, d
  <1>4. PdpIndex(page) \in Index
    BY <1>1, <1>3 DEF PdpIndex, Index
  <1>5. page \div R \in Nat
    BY <1>1
  <1>6. (page \div R) % R \in 0 .. R - 1 /\ page % R \in 0 .. R - 1
    <2> DEFINE q == page \div R
    <2> HIDE DEF q
    <2>1. q \in Nat
      BY <1>5 DEF q
    <2>2. q % R \in 0 .. R - 1
      BY <1>1, <2>1
    <2>3. page % R \in 0 .. R - 1
      BY <1>1
    <2> QED
      BY <2>2, <2>3 DEF q
  <1> QED
    BY <1>4, <1>6 DEF PdIndex, PtIndex, Index

Value == Phys \cup {None, Own}
Tables == [Pages -> [Index -> Value]]

(* What a table update changes. *)
LEMMA OneEntry ==
    ASSUME NEW Z \in Tables, NEW a \in Pages, NEW i \in Index, NEW v \in Value
    PROVE  /\ [Z EXCEPT ![a][i] = v] \in Tables
           /\ \A b \in Pages, j \in Index :
                 [Z EXCEPT ![a][i] = v][b][j] = IF b = a /\ j = i THEN v ELSE Z[b][j]
  BY DEF Tables

(* walk_page_table hangs a path of old and fresh tables, and a fresh page,  *)
(* into the tree.                                                           *)
LEMMA FaultHangs ==
    ASSUME Tree(mem.tables, mem.used), NEW page \in Nat, page < RegionPages,
           PageOf(mem.tables, page) = None, TablesOf(page) \subseteq mem.used,
           Cardinality(FreePages) >= 4
    PROVE  \E path, at :
              /\ IsPath(path, at, mem.tables, mem.used)
              /\ IsHung(Mapped(page).tables, path, at, mem.tables, mem.used)
              /\ Mapped(page).used = mem.used \cup ({path[n] : n \in 2 .. 5} \ mem.used)
              /\ at[1] = 0 /\ at[2] = PdpIndex(page) /\ at[3] = PdIndex(page)
              /\ at[4] = PtIndex(page) /\ path[5] \notin mem.used
  <1> DEFINE T == mem.tables
             U == mem.used
             pdp0 == PdpOf(T)
             pd0 == PdOf(T, page)
             pt0 == PtOf(T, page)
             pdp == IF pdp0 = None THEN Fresh(1) ELSE pdp0
             pd == IF pd0 = None THEN Fresh(2) ELSE pd0
             pt == IF pt0 = None THEN Fresh(3) ELSE pt0
             f == Fresh(4)
             i1 == PdpIndex(page)
             i2 == PdIndex(page)
             i3 == PtIndex(page)
             new == {pdp, pd, pt, f} \ U
             Z == [p \in DOMAIN T |-> IF p \in new THEN Empty ELSE T[p]]
             T1 == [Z EXCEPT ![PML][0] = pdp]
             T2 == [T1 EXCEPT ![pdp][i1] = pd]
             T3 == [T2 EXCEPT ![pd][i2] = pt]
             T4 == [T3 EXCEPT ![pt][i3] = f]
             path == <<PML, pdp, pd, pt, f>>
             at == <<0, i1, i2, i3>>
  <1>1. Mapped(page).tables = T4 /\ Mapped(page).used = U \cup new
    BY DEF Mapped
  <1>2. /\ pdp0 \in U \cup {None} /\ pd0 \in U \cup {None} /\ pt0 \in U \cup {None}
        /\ pdp0 = T[PML][0]
        /\ pd0 = IF pdp0 = None THEN None ELSE T[pdp0][i1]
        /\ pt0 = IF pd0 = None THEN None ELSE T[pd0][i2]
        /\ pt0 # None => T[pt0][i3] = None
    BY DEF TablesOf, PdpOf, PdOf, PtOf, PageOf, Entry
  <1>3. /\ Fresh(1) \in Phys \ U /\ Fresh(2) \in Phys \ U
        /\ Fresh(3) \in Phys \ U /\ f \in Phys \ U
        /\ Fresh(1) # Fresh(2) /\ Fresh(1) # Fresh(3) /\ Fresh(1) # f
        /\ Fresh(2) # Fresh(3) /\ Fresh(2) # f /\ Fresh(3) # f
    <2>1. mem.used \subseteq Phys
      BY DEF Tree, Typed
    <2>2. /\ \A n \in 1 .. 4 : Fresh(n) \in Phys \ mem.used
          /\ \A n, m \in 1 .. 4 : Fresh(n) = Fresh(m) => n = m
      BY <2>1, FreshDiffer
    <2>3. 1 \in 1 .. 4 /\ 2 \in 1 .. 4 /\ 3 \in 1 .. 4 /\ 4 \in 1 .. 4
      OBVIOUS
    <2>4. 1 # 2 /\ 1 # 3 /\ 1 # 4 /\ 2 # 3 /\ 2 # 4 /\ 3 # 4
      OBVIOUS
    <2> QED
      BY <2>2, <2>3, <2>4, Zenon
  <1>4. 0 \in Index /\ i1 \in Index /\ i2 \in Index /\ i3 \in Index
    BY IndexInTable, TablesAssumption DEF Index
  <1>5. T \in Tables /\ U \subseteq Phys /\ PML \in Pages /\ Phys \subseteq Pages
    BY DEF Tree, Typed, Tables, Value, Pages
  <1> HIDE DEF T, U, i1, i2, i3, pdp0, pd0, pt0, f
  <1>6. /\ pdp \in U => pdp0 = pdp
        /\ pd \in U => pd0 = pd /\ pdp0 = pdp /\ pdp \in U
        /\ pt \in U => pt0 = pt /\ pd0 = pd /\ pd \in U /\ pdp0 = pdp /\ pdp \in U
    BY <1>2, <1>3
  <1>7. /\ pdp \in Phys /\ pd \in Phys /\ pt \in Phys
        /\ pdp \notin U => pdp = Fresh(1) /\ pdp0 = None
        /\ pd \notin U => pd = Fresh(2) /\ pd0 = None
        /\ pt \notin U => pt = Fresh(3) /\ pt0 = None
    BY <1>2, <1>3, <1>5
  <1>8. /\ pdp \in U => T[PML][0] = pdp
        /\ pd \in U => T[pdp][i1] = pd
        /\ pt \in U => T[pd][i2] = pt
    BY <1>2, <1>5, <1>6, PagesApart
  <1>9. /\ pdp \notin U => T[PML][0] = None
        /\ pdp \in U /\ pd \notin U => T[pdp][i1] = None
        /\ pd \in U /\ pt \notin U => T[pd][i2] = None
        /\ pt \in U => T[pt][i3] = None
    BY <1>2, <1>5, <1>6, <1>7, PagesApart
  <1> HIDE DEF pdp, pd, pt
  <1>10. PICK lev : IsLevel(lev, T, U)
    BY DEF Tree, T, U
  <1>11. /\ pdp \in U => lev[pdp] = 1
         /\ pd \in U => lev[pd] = 2
         /\ pt \in U => lev[pt] = 3
    <2>1. \A a \in Inner(U), i \in Index : T[a][i] \in Phys => lev[T[a][i]] = lev[a] + 1
      BY <1>10 DEF IsLevel
    <2>2. PML \in Inner(U) /\ U \subseteq Inner(U) /\ lev[PML] = 0
      BY <1>10 DEF IsLevel, Inner
    <2>3. pdp \in U => lev[pdp] = 1
      BY <1>4, <1>7, <1>8, <2>1, <2>2
    <2>4. pd \in U => lev[pd] = 2
      BY <1>4, <1>6, <1>7, <1>8, <2>1, <2>2, <2>3
    <2>5. pt \in U => lev[pt] = 3
      BY <1>4, <1>6, <1>7, <1>8, <2>1, <2>2, <2>4
    <2> QED
      BY <2>3, <2>4, <2>5
  <1>12. /\ PML # pdp /\ PML # pd /\ PML # pt /\ PML # f
         /\ pdp # pd /\ pdp # pt /\ pd # pt
         /\ f # pdp /\ f # pd /\ f # pt
    <2>1. PML # pdp /\ PML # pd /\ PML # pt /\ PML # f
      BY <1>3, <1>7, PagesApart
    <2>2. f # pdp /\ f # pd /\ f # pt
      BY <1>3, <1>7
    <2>3. pdp # pd /\ pdp # pt /\ pd # pt
      BY <1>3, <1>7, <1>11
    <2> QED
      BY <2>1, <2>2, <2>3
  <1>13. IsPath(path, at, T, U)
    <2>1. /\ path \in [1 .. 5 -> Pages] /\ path[1] = PML /\ path[2] = pdp
          /\ path[3] = pd /\ path[4] = pt /\ path[5] = f
      BY <1>3, <1>5, <1>7
    <2>2. /\ at \in [1 .. 4 -> Index] /\ at[1] = 0 /\ at[2] = i1
          /\ at[3] = i2 /\ at[4] = i3
      BY <1>4
    <2> HIDE DEF path, at
    <2>3. \A n \in 2 .. 5 : path[n] \in Phys
      BY <1>3, <1>7, <2>1
    <2>4. \A n, m \in 1 .. 5 : path[n] = path[m] => n = m
      BY <1>12, <2>1
    <2>5. ASSUME NEW n \in 1 .. 4, path[n + 1] \in U
          PROVE  path[n] \in Inner(U) /\ T[path[n]][at[n]] = path[n + 1]
      <3>1. n + 1 = 2 \/ n + 1 = 3 \/ n + 1 = 4 \/ n + 1 = 5
        OBVIOUS
      <3> QED
        BY <1>3, <1>6, <1>8, <2>1, <2>2, <2>5, <3>1 DEF Inner
    <2>6. ASSUME NEW n \in 1 .. 4, path[n] \in Inner(U), path[n + 1] \notin U
          PROVE  T[path[n]][at[n]] = None
      <3>1. n + 1 = 2 \/ n + 1 = 3 \/ n + 1 = 4 \/ n + 1 = 5
        OBVIOUS
      <3> QED
        BY <1>9, <1>12, <2>1, <2>2, <2>6, <3>1 DEF Inner
    <2> QED
      BY <2>1, <2>2, <2>3, <2>4, <2>5, <2>6 DEF IsPath
  <1>14. IsHung(T4, path, at, T, U) /\ new = {path[n] : n \in 2 .. 5} \ U
    <2>1. {path[n] : n \in 2 .. 5} = {pdp, pd, pt, f}
      <3>1. path[2] = pdp /\ path[3] = pd /\ path[4] = pt /\ path[5] = f
        OBVIOUS
      <3> HIDE DEF path
      <3> QED
        BY <3>1
    <2>2. /\ Z \in Tables
          /\ \A b \in Pages, j \in Index : Z[b][j] = IF b \in new THEN None ELSE T[b][j]
      BY <1>5 DEF Tables, Empty, Value, Index
    <2> HIDE DEF Z, new
    <2>3. /\ pdp \in Pages /\ pd \in Pages /\ pt \in Pages
          /\ pdp \in Value /\ pd \in Value /\ pt \in Value /\ f \in Value
      BY <1>3, <1>5, <1>7 DEF Value
    <2>4. /\ T1 \in Tables
          /\ \A b \in Pages, j \in Index :
                T1[b][j] = IF b = PML /\ j = 0 THEN pdp ELSE Z[b][j]
      BY <1>4, <1>5, <2>2, <2>3, OneEntry
    <2> HIDE DEF T1
    <2>5. /\ T2 \in Tables
          /\ \A b \in Pages, j \in Index :
                T2[b][j] = IF b = pdp /\ j = i1 THEN pd ELSE T1[b][j]
      BY <1>4, <2>3, <2>4, OneEntry
    <2> HIDE DEF T2
    <2>6. /\ T3 \in Tables
          /\ \A b \in Pages, j \in Index :
                T3[b][j] = IF b = pd /\ j = i2 THEN pt ELSE T2[b][j]
      BY <1>4, <2>3, <2>5, OneEntry
    <2> HIDE DEF T3
    <2>7. /\ T4 \in Tables
          /\ \A b \in Pages, j \in Index :
                T4[b][j] = IF b = pt /\ j = i3 THEN f ELSE T3[b][j]
      BY <1>4, <2>3, <2>6, OneEntry
    <2> HIDE DEF T4
    <2>8. /\ path[1] = PML /\ path[2] = pdp /\ path[3] = pd /\ path[4] = pt
          /\ path[5] = f /\ at[1] = 0 /\ at[2] = i1 /\ at[3] = i2 /\ at[4] = i3
      OBVIOUS
    <2> HIDE DEF path, at
    <2>9. /\ T4[PML][0] = pdp /\ T4[pdp][i1] = pd /\ T4[pd][i2] = pt /\ T4[pt][i3] = f
      BY <1>4, <1>5, <1>12, <2>3, <2>4, <2>5, <2>6, <2>7
    <2>10. \A n \in 1 .. 4 : T4[path[n]][at[n]] = path[n + 1]
      <3> SUFFICES ASSUME NEW n \in 1 .. 4 PROVE T4[path[n]][at[n]] = path[n + 1]
        OBVIOUS
      <3>1. \/ n = 1 /\ n + 1 = 2
            \/ n = 2 /\ n + 1 = 3
            \/ n = 3 /\ n + 1 = 4
            \/ n = 4 /\ n + 1 = 5
        OBVIOUS
      <3> QED
        BY <2>8, <2>9, <3>1
    <2>11. ASSUME NEW a \in Pages, NEW i \in Index,
                  \A n \in 1 .. 4 : a # path[n] \/ i # at[n]
           PROVE  T4[a][i] = IF a \in new THEN None ELSE T[a][i]
      <3>1. (a # PML \/ i # 0) /\ (a # pdp \/ i # i1) /\ (a # pd \/ i # i2)
            /\ (a # pt \/ i # i3)
        <4>1. 1 \in 1 .. 4 /\ 2 \in 1 .. 4 /\ 3 \in 1 .. 4 /\ 4 \in 1 .. 4
          OBVIOUS
        <4> QED
          BY <2>8, <2>11, <4>1
      <3> QED
        BY <2>2, <2>4, <2>5, <2>6, <2>7, <3>1
    <2>12. new = {path[n] : n \in 2 .. 5} \ U
      BY <2>1 DEF new
    <2> QED
      BY <2>7, <2>10, <2>11, <2>12 DEF IsHung, Tables, Value
  <1>15. /\ at[1] = 0 /\ at[2] = PdpIndex(page) /\ at[3] = PdIndex(page)
         /\ at[4] = PtIndex(page) /\ path[5] \notin U
    <2>1. at[1] = 0 /\ at[2] = i1 /\ at[3] = i2 /\ at[4] = i3 /\ path[5] = f
      OBVIOUS
    <2> HIDE DEF path, at
    <2> QED
      BY <1>3, <2>1 DEF i1, i2, i3
  <1> HIDE DEF T4, path, at, new
  <1> QED
    BY <1>1, <1>13, <1>14, <1>15 DEF T, U

(* A page fault leaves a tree. *)
LEMMA FaultTree ==
    ASSUME Tree(mem.tables, mem.used), NEW page \in Nat, page < RegionPages,
           PageOf(mem.tables, page) = None, TablesOf(page) \subseteq mem.used,
           Cardinality(FreePages) >= 4
    PROVE  Tree(Mapped(page).tables, Mapped(page).used)
  <1>1. PICK path, at :
           /\ IsPath(path, at, mem.tables, mem.used)
           /\ IsHung(Mapped(page).tables, path, at, mem.tables, mem.used)
           /\ Mapped(page).used = mem.used \cup ({path[n] : n \in 2 .. 5} \ mem.used)
    BY FaultHangs
  <1> QED
    BY <1>1, PathHung

(* The entry with indices i1, i2 and i3, as the walk finds it. *)
LEMMA VisitTree ==
    ASSUME NEW T, NEW U, Tree(T, U),
           NEW i1 \in Index, NEW i2 \in Index, NEW i3 \in Index,
           NEW pdp \in U, NEW pd \in U, NEW pt \in U, NEW p \in U,
           T[PML][0] = pdp, T[pdp][i1] = pd, T[pd][i2] = pt, T[pt][i3] = p
    PROVE  Tree([T EXCEPT ![pt][i3] = None], U \ {p})
  <1> DEFINE T1 == [T EXCEPT ![pt][i3] = None]
             U1 == U \ {p}
  <1>1. T \in Tables /\ U \subseteq Phys /\ pt \in Pages /\ None \in Value
    BY DEF Tree, Typed, Tables, Pages, Value
  <1>2. /\ T1 \in Tables
        /\ \A b \in Pages, j \in Index :
              T1[b][j] = IF b = pt /\ j = i3 THEN None ELSE T[b][j]
    BY <1>1, OneEntry
  <1> HIDE DEF T1
  <1>3. Inner(U) \subseteq Pages /\ Inner(U1) \subseteq Inner(U) /\ U \subseteq Inner(U)
        /\ PML \in Inner(U) /\ 0 \in Index
    BY <1>1, TablesAssumption DEF Inner, Pages, Index
  <1>4. PICK lev : IsLevel(lev, T, U)
    BY DEF Tree
  <1>5. \A a \in Inner(U), i \in Index : T[a][i] \in Phys => lev[T[a][i]] = lev[a] + 1
    BY <1>4 DEF IsLevel
  <1>6. lev[pdp] = 1 /\ lev[pd] = 2 /\ lev[pt] = 3 /\ lev[p] = 4
    <2>1. lev[pdp] = lev[PML] + 1
      BY <1>1, <1>3, <1>5
    <2>2. lev[pd] = lev[pdp] + 1
      BY <1>1, <1>3, <1>5
    <2>3. lev[pt] = lev[pd] + 1
      BY <1>1, <1>3, <1>5
    <2>4. lev[p] = lev[pt] + 1
      BY <1>1, <1>3, <1>5
    <2>5. lev[PML] = 0
      BY <1>4 DEF IsLevel
    <2> QED
      BY <2>1, <2>2, <2>3, <2>4, <2>5
  (* p is a user page and has no entries *)
  <1>7. \A i \in Index : T[p][i] \notin Phys
    <2> SUFFICES ASSUME NEW i \in Index, T[p][i] \in Phys PROVE FALSE
      OBVIOUS
    <2>1. lev[T[p][i]] = 5
      BY <1>3, <1>5, <1>6
    <2>2. lev[T[p][i]] \in 0 .. 4
      BY <1>4 DEF IsLevel, Pages
    <2> QED
      BY <2>1, <2>2
  <1>8. pt # p /\ p # PML
    BY <1>1, <1>6, PagesApart
  <1>9. ASSUME NEW a \in Inner(U1), NEW i \in Index, T1[a][i] \in Phys
        PROVE  T1[a][i] = T[a][i] /\ a \in Inner(U) /\ (a # pt \/ i # i3)
    BY <1>2, <1>3, <1>9, PagesApart
  <1>10. Typed(T1, U1)
    BY <1>1, <1>2 DEF Typed, Tables, Value
  <1>11. LinksRight(T1, U1)
    <2> SUFFICES ASSUME NEW a \in Inner(U1), NEW i \in Index, T1[a][i] \in Phys
                 PROVE  /\ T1[a][i] \in U1
                        /\ \A b \in Inner(U1), j \in Index :
                              T1[b][j] = T1[a][i] => b = a /\ j = i
      BY DEF LinksRight
    <2>1. T1[a][i] = T[a][i] /\ a \in Inner(U) /\ (a # pt \/ i # i3)
      BY <1>9
    <2>2. T[a][i] \in U /\ T[a][i] # p
      BY <1>1, <1>3, <2>1 DEF Tree, LinksRight
    <2>3. ASSUME NEW b \in Inner(U1), NEW j \in Index, T1[b][j] = T1[a][i]
          PROVE  b = a /\ j = i
      <3>1. T1[b][j] = T[b][j] /\ b \in Inner(U)
        BY <1>9, <2>3
      <3>2. T[b][j] = T[a][i] /\ T[a][i] \in Phys
        BY <2>1, <2>3, <3>1
      <3>3. LinksRight(T, U)
        BY DEF Tree
      <3> QED
        BY <2>1, <3>1, <3>2, <3>3 DEF LinksRight
    <2> QED
      BY <2>1, <2>2, <2>3
  <1>12. Reached(T1, U1)
    <2> SUFFICES ASSUME NEW q \in U1
                 PROVE  \E a \in Inner(U1), i \in Index : T1[a][i] = q
      BY DEF Reached
    <2>1. PICK a \in Inner(U), i \in Index : T[a][i] = q
      BY DEF Tree, Reached
    <2>2. a # p /\ (a # pt \/ i # i3)
      BY <1>1, <1>7, <2>1
    <2>3. a \in Inner(U1) /\ T1[a][i] = q
      BY <1>2, <1>3, <2>1, <2>2 DEF Inner
    <2> QED
      BY <2>3
  <1>13. IsLevel(lev, T1, U1)
    <2>1. ASSUME NEW a \in Inner(U1), NEW i \in Index, T1[a][i] \in Phys
          PROVE  lev[T1[a][i]] = lev[a] + 1
      <3>1. T1[a][i] = T[a][i] /\ a \in Inner(U)
        BY <1>9, <2>1
      <3> QED
        BY <1>5, <2>1, <3>1, Zenon
    <2>2. lev \in [Pages -> 0 .. 4] /\ lev[PML] = 0
      BY <1>4 DEF IsLevel
    <2> QED
      BY <2>1, <2>2, Zenon DEF IsLevel
  <1>14. OwnRight(T1, U1)
    <2> SUFFICES ASSUME NEW a \in Inner(U1), NEW i \in Index, T1[a][i] = Own
                 PROVE  a \in U1 /\ T1[PML][0] = a /\ i = 0
      BY DEF OwnRight
    <2>1. T[a][i] = Own /\ a \in Inner(U)
      BY <1>2, <1>3, PagesApart
    <2>2. a \in U /\ T[PML][0] = a /\ i = 0
      BY <2>1 DEF Tree, OwnRight
    <2>3. PML # pt /\ PML # p
      BY <1>1, PagesApart
    <2>4. T1[PML][0] = T[PML][0]
      BY <1>2, <1>3, <2>3
    <2> QED
      BY <2>2, <2>3, <2>4 DEF Inner
  <1> QED
    BY <1>10, <1>11, <1>12, <1>13, <1>14 DEF Tree, T1

----------------------------------------------------------------------------
(* The locals of a walk. *)

WalkFields == {"start", "num_pages", "pages_covered", "pdp_index", "pd_index",
               "pt_index", "pdp_cur", "pd_cur", "pt_cur", "pdp_mine", "pd_mine",
               "pt_mine", "deinit"}

IsWalk(w) ==
    /\ DOMAIN w = WalkFields
    /\ w.pdp_index \in Nat /\ w.pd_index \in Nat /\ w.pt_index \in Nat
    /\ w.deinit \in {"no", "kept", "deleted"}

(* the table pages that a round comes to *)
PdpAt == PdpOf(mem.tables)
PdAt(w) == Entry(mem.tables, PdpAt, w.pdp_index)
PtAt(w) == Entry(mem.tables, PdAt(w), w.pd_index)

(* What the walk has found, by where the round gets to. *)
LEMMA ReachIs ==
    ASSUME NEW w, Reach(w) # "outside"
    PROVE  /\ Reach(w) \in {"no pdp", "no pd", "no pt", "pte"}
           /\ Reach(w) = "no pdp" <=> PdpAt = None
           /\ Reach(w) = "no pd" => /\ PdpAt \in mem.used /\ ~(w.pdp_index >= R)
                                    /\ PdAt(w) = None
           /\ Reach(w) = "no pt" => /\ PdpAt \in mem.used /\ ~(w.pdp_index >= R)
                                    /\ PdAt(w) \in mem.used /\ ~(w.pd_index >= R)
                                    /\ PtAt(w) = None
           /\ Reach(w) = "pte" => /\ PdpAt \in mem.used /\ ~(w.pdp_index >= R)
                                  /\ PdAt(w) \in mem.used /\ ~(w.pd_index >= R)
                                  /\ PtAt(w) \in mem.used /\ ~(w.pt_index >= R)
                                  /\ PdpAt # None /\ PdAt(w) # None /\ PtAt(w) # None
  BY DEF Reach, PdpAt, PdAt, PtAt

LEMMA Successor == \A n \in Nat : n + 1 \in Nat
  OBVIOUS

(* The locals at the label cascade, field by field. *)
LEMMA DescendIs ==
    ASSUME NEW w, IsWalk(w), Reach(w) \in {"no pdp", "no pd", "no pt", "pte"}
    PROVE  /\ IsWalk(Descend(w))
           /\ Descend(w).start = w.start /\ Descend(w).num_pages = w.num_pages
           /\ Descend(w).deinit = w.deinit
           /\ Descend(w).pages_covered = w.pages_covered + Covered(w)
           /\ Reach(w) = "pte" =>
                 /\ Descend(w).pt_cur = At(PtAt(w), w.pt_index)
                 /\ Descend(w).pt_index = w.pt_index + 1
                 /\ Descend(w).pd_index = w.pd_index
                 /\ Descend(w).pdp_index = w.pdp_index
  <1> DEFINE pdp == PdpAt
             pd == PdAt(w)
             pt == PtAt(w)
             A == [w EXCEPT !.pages_covered = @ + Covered(w),
                         !.pdp_index = 0, !.pd_index = 0, !.pt_index = 0,
                         !.pdp_mine = TRUE, !.pd_mine = TRUE, !.pt_mine = TRUE]
             B == [w EXCEPT !.pages_covered = @ + Covered(w),
                         !.pdp_cur = At(pdp, w.pdp_index),
                         !.pdp_index = @ + 1, !.pd_index = 0, !.pt_index = 0,
                         !.pd_mine = TRUE, !.pt_mine = TRUE]
             C == [w EXCEPT !.pages_covered = @ + Covered(w),
                         !.pdp_cur = At(pdp, w.pdp_index),
                         !.pd_cur = At(pd, w.pd_index),
                         !.pd_index = @ + 1, !.pt_index = 0, !.pt_mine = TRUE]
             D == [w EXCEPT !.pages_covered = @ + Covered(w),
                         !.pdp_cur = At(pdp, w.pdp_index),
                         !.pd_cur = At(pd, w.pd_index),
                         !.pt_cur = At(pt, w.pt_index),
                         !.pt_index = @ + 1]
  <1>1. Descend(w) = CASE Reach(w) = "no pdp" -> A [] Reach(w) = "no pd" -> B
                       [] Reach(w) = "no pt" -> C [] Reach(w) = "pte" -> D
    BY Zenon DEF Descend, PdpAt, PdAt, PtAt
  <1>2. /\ DOMAIN w = WalkFields
        /\ w.pdp_index \in Nat /\ w.pd_index \in Nat /\ w.pt_index \in Nat
        /\ w.deinit \in {"no", "kept", "deleted"}
    BY DEF IsWalk
  <1> HIDE DEF pdp, pd, pt
  <1>3. CASE Reach(w) = "no pdp"
    <2>1. Descend(w) = A
      <3> HIDE DEF A, B, C, D
      <3> QED
        BY <1>1, <1>3
    <2>2. /\ DOMAIN A = WalkFields
          /\ A.pdp_index = 0 /\ A.pd_index = 0 /\ A.pt_index = 0 /\ A.start = w.start
          /\ A.num_pages = w.num_pages /\ A.deinit = w.deinit
          /\ A.pages_covered = w.pages_covered + Covered(w)
      BY <1>2 DEF WalkFields
    <2> HIDE DEF A
    <2>3. IsWalk(Descend(w))
      BY <1>2, <2>1, <2>2, 0 \in Nat, Zenon DEF IsWalk
    <2>4. Reach(w) # "pte"
      BY <1>3
    <2> QED
      BY <2>1, <2>2, <2>3, <2>4
  <1>4. CASE Reach(w) = "no pd"
    <2>1. Descend(w) = B
      <3> HIDE DEF A, B, C, D
      <3> QED
        BY <1>1, <1>4
    <2>2. /\ DOMAIN B = WalkFields
          /\ B.pdp_index = w.pdp_index + 1 /\ B.pd_index = 0 /\ B.pt_index = 0
          /\ B.start = w.start /\ B.num_pages = w.num_pages /\ B.deinit = w.deinit
          /\ B.pages_covered = w.pages_covered + Covered(w)
      BY <1>2 DEF WalkFields
    <2> HIDE DEF B
    <2>3. IsWalk(Descend(w))
      <3>1. B.pdp_index \in Nat
        <4>1. w.pdp_index + 1 \in Nat
          BY <1>2, Successor, Zenon
        <4> QED
          BY <2>2, <4>1, Zenon
      <3>2. DOMAIN B = WalkFields /\ B.deinit \in {"no", "kept", "deleted"}
        BY <1>2, <2>2, Zenon
      <3> QED
        BY <2>1, <2>2, <3>1, <3>2, 0 \in Nat, Zenon DEF IsWalk
    <2>4. Reach(w) # "pte"
      BY <1>4
    <2> QED
      BY <2>1, <2>2, <2>3, <2>4
  <1>5. CASE Reach(w) = "no pt"
    <2>1. Descend(w) = C
      <3> HIDE DEF A, B, C, D
      <3> QED
        BY <1>1, <1>5
    <2>2. /\ DOMAIN C = WalkFields
          /\ C.pdp_index = w.pdp_index /\ C.pd_index = w.pd_index + 1 /\ C.pt_index = 0
          /\ C.start = w.start /\ C.num_pages = w.num_pages /\ C.deinit = w.deinit
          /\ C.pages_covered = w.pages_covered + Covered(w)
      BY <1>2 DEF WalkFields
    <2> HIDE DEF C
    <2>3. IsWalk(Descend(w))
      <3>1. C.pdp_index \in Nat /\ C.pd_index \in Nat
        <4>1. w.pd_index + 1 \in Nat
          BY <1>2, Successor, Zenon
        <4> QED
          BY <1>2, <2>2, <4>1, Zenon
      <3>2. DOMAIN C = WalkFields /\ C.deinit \in {"no", "kept", "deleted"}
        BY <1>2, <2>2, Zenon
      <3> QED
        BY <2>1, <2>2, <3>1, <3>2, 0 \in Nat, Zenon DEF IsWalk
    <2>4. Reach(w) # "pte"
      BY <1>5
    <2> QED
      BY <2>1, <2>2, <2>3, <2>4
  <1>6. CASE Reach(w) = "pte"
    <2>1. Descend(w) = D
      <3> HIDE DEF A, B, C, D
      <3> QED
        BY <1>1, <1>6
    <2>2. /\ DOMAIN D = WalkFields
          /\ D.pdp_index = w.pdp_index /\ D.pd_index = w.pd_index
          /\ D.pt_index = w.pt_index + 1 /\ D.pt_cur = At(pt, w.pt_index)
          /\ D.start = w.start /\ D.num_pages = w.num_pages /\ D.deinit = w.deinit
          /\ D.pages_covered = w.pages_covered + Covered(w)
      BY <1>2 DEF WalkFields
    <2> HIDE DEF D
    <2> QED
      BY <1>2, <1>6, <2>1, <2>2 DEF IsWalk, pt
  <1> QED
    BY <1>3, <1>4, <1>5, <1>6

(* What cascade changes and what it leaves. *)
LEMMA CascadeIs ==
    ASSUME NEW w, IsWalk(w)
    PROVE  /\ IsWalk(Cascade(w))
           /\ Cascade(w).start = w.start /\ Cascade(w).num_pages = w.num_pages
           /\ Cascade(w).deinit = w.deinit
           /\ Cascade(w).pages_covered = w.pages_covered
           /\ Cascade(w).pt_cur = w.pt_cur /\ Cascade(w).pt_index = w.pt_index
           /\ w.pt_index % R # 0 => Cascade(w) = w
  BY DEF Cascade, IsWalk, WalkFields

----------------------------------------------------------------------------
(* The map under demand paging: petmem_deinit_process frees the first node  *)
(* and deletes it after the walk.                                           *)

(* petmem_deinit_process frees the first node: what is left is still in     *)
(* order, and not empty.                                                    *)
LEMMA FreedFirst ==
    ASSUME MapInv, map # <<>>, map' = Freed(1)
    PROVE  map' \in Seq(Node) /\ map' # <<>> /\ NodesInOrder'
  <1> DEFINE hi == IF MergesNext(1) /\ 1 < Len(map) THEN 2 ELSE 1
             merged == [start |-> map[1].start,
                        size |-> map[hi].start + map[hi].size - map[1].start,
                        allocated |-> FALSE]
             t == <<merged>>
  <1>1. map \in Seq(Node) /\ Len(map) \in Nat /\ Len(map) > 0
        /\ DOMAIN map = 1 .. Len(map)
    BY DEF MapInv, MapTypeOK, Node
  <1>2. map' = SubSeq(map, 1, 1 - 1) \o t \o SubSeq(map, hi + 1, Len(map))
    <2>1. ~MergesPrev(1) /\ ~(MergesNext(1) /\ 1 = Len(map)) /\ 1 + 1 = 2
      BY <1>1 DEF MergesPrev, MergesNext
    <2> QED
      BY <2>1 DEF Freed
  <1>3. hi \in 1 .. Len(map) /\ hi \in {1, 2}
    BY <1>1
  <1> HIDE DEF hi
  <1>4. map[1] \in Node /\ map[hi] \in Node
    BY <1>1, <1>3
  <1>5. /\ map[1].start \in 0 .. RegionPages /\ map[1].size \in Nat
        /\ map[hi].start \in Nat /\ map[hi].size \in Nat
        /\ map[1].start <= map[hi].start /\ map[hi].start + map[hi].size <= RegionPages
    BY <1>1, <1>3, <1>4, RegionAssumption DEF Node, MapInv, NodesInOrder
  <1>6. merged \in Node
    BY <1>5, RegionAssumption DEF Node
  <1>7. merged.start = map[1].start
        /\ merged.start + merged.size = map[hi].start + map[hi].size
    BY <1>5
  <1> HIDE DEF merged
  <1>8. t \in Seq(Node) /\ Len(t) = 1 /\ t[1] = merged
    BY <1>6
  <1> HIDE DEF t
  <1>9. IsSplice(map', map, 1, t, hi)
    <2>1. 1 \in 1 .. Len(map) /\ hi \in 1 .. Len(map)
      BY <1>1, <1>3
    <2> QED
      BY <1>1, <1>2, <1>8, <2>1, Spliced
  <1>10. /\ map' \in Seq(Node) /\ Len(map') = Len(map) - hi + 1
         /\ map'[1] = merged /\ DOMAIN map' = 1 .. Len(map) - hi + 1
    <2>1. map' \in Seq(Node) /\ Len(map') = Len(map) - hi + 1 /\ map'[1] = merged
      BY <1>1, <1>3, <1>8, <1>9 DEF IsSplice
    <2>2. DOMAIN map' = 1 .. Len(map')
      BY <2>1
    <2> QED
      BY <2>1, <2>2
  <1>11. ASSUME NEW k \in 2 .. Len(map) - hi + 1
         PROVE  map'[k] = map[k + hi - 1] /\ k + hi - 1 \in hi + 1 .. Len(map)
    <2>1. \A m \in 1 + 1 .. 1 - 1 + 1 + (Len(map) - hi) :
             map'[m] = map[m - 1 - 1 + hi + 1]
      BY <1>8, <1>9 DEF IsSplice
    <2>2. /\ k \in 1 + 1 .. 1 - 1 + 1 + (Len(map) - hi)
          /\ k - 1 - 1 + hi + 1 = k + hi - 1 /\ k + hi - 1 \in hi + 1 .. Len(map)
      BY <1>1, <1>3
    <2> QED
      BY <2>1, <2>2
  <1>12. ASSUME NEW i \in DOMAIN map' PROVE map'[i].start + map'[i].size <= RegionPages
    <2>1. CASE i = 1
      BY <1>5, <1>7, <1>10, <2>1
    <2>2. CASE i # 1
      <3>1. i \in 2 .. Len(map) - hi + 1
        BY <1>1, <1>3, <1>10, <2>2
      <3>2. map'[i] = map[i + hi - 1] /\ i + hi - 1 \in hi + 1 .. Len(map)
        BY <1>11, <3>1
      <3>3. i + hi - 1 \in DOMAIN map
        BY <1>1, <1>3, <3>2
      <3>4. map[i + hi - 1].start + map[i + hi - 1].size <= RegionPages
        BY <3>3 DEF MapInv, NodesInOrder
      <3> QED
        BY <3>2, <3>4
    <2> QED
      BY <2>1, <2>2
  <1>13. ASSUME NEW i \in DOMAIN map', NEW j \in DOMAIN map', i < j
         PROVE  map'[i].start + map'[i].size <= map'[j].start
    <2>1. j \in 2 .. Len(map) - hi + 1
      BY <1>1, <1>3, <1>10, <1>13
    <2>2. map'[j] = map[j + hi - 1] /\ j + hi - 1 \in hi + 1 .. Len(map)
      BY <1>11, <2>1
    <2>3. CASE i = 1
      <3>1. map[hi].start + map[hi].size <= map[j + hi - 1].start
        BY <1>1, <1>3, <2>2 DEF MapInv, NodesInOrder
      <3> QED
        BY <1>7, <1>10, <2>2, <2>3, <3>1
    <2>4. CASE i # 1
      <3>1. i \in 2 .. Len(map) - hi + 1
        BY <1>1, <1>3, <1>10, <2>4
      <3>2. map'[i] = map[i + hi - 1] /\ i + hi - 1 \in hi + 1 .. Len(map)
        BY <1>11, <3>1
      <3>3. i + hi - 1 < j + hi - 1
        BY <1>3, <1>13, <2>1, <3>1
      <3>4. map[i + hi - 1].start + map[i + hi - 1].size <= map[j + hi - 1].start
        BY <1>1, <1>3, <2>2, <3>2, <3>3 DEF MapInv, NodesInOrder
      <3> QED
        BY <2>2, <3>2, <3>4
    <2> QED
      BY <2>3, <2>4
  <1>14. map' # <<>>
    BY <1>1, <1>3, <1>10
  <1> QED
    BY <1>10, <1>12, <1>13, <1>14 DEF NodesInOrder

(* The locals of a walk, and the node that petmem_deinit_process has yet to *)
(* delete.                                                                  *)
WalkRight ==
    walk # NoWalk =>
        /\ IsWalk(walk)
        /\ walk.deinit # "no" => file # "open" /\ map # <<>>

(* The map's invariant holds under the actions of demand paging too. *)
LEMMA DemandMapStep ==
    ASSUME MapInv, WalkRight, [Next]_vars
    PROVE  MapInv'
  <1>1. ASSUME NEW n \in Sizes, Allocate(n) PROVE MapInv'
    BY <1>1, StepInv DEF Allocate, MapNext
  <1>2. ASSUME NEW page \in 0 .. RegionPages - 1, FreeVspace(page) PROVE MapInv'
    <2>1. page \in 0 .. RegionPages /\ LazyFree(page)
      BY <1>2, RegionAssumption DEF FreeVspace
    <2> QED
      BY <2>1, StepInv DEF MapNext
  <1>3. CASE CloseFile \/ DeinitFree \/ DeinitDone
    BY <1>3, StepInv DEF CloseFile, DeinitFree, DeinitDone, MapNext
  <1>4. ASSUME NEW page, NEW error_code, PagefaultRefused(page, error_code) PROVE MapInv'
    <2>1. Close
      BY <1>4 DEF PagefaultRefused, Close
    <2> QED
      BY <2>1, StepInv DEF MapNext
  <1>5. CASE DeinitAllocated
    <2>1. /\ file = "closing" /\ map # <<>> /\ map' = Freed(1)
          /\ UNCHANGED <<head_allocated, file, failed>>
      BY <1>5 DEF DeinitAllocated
    <2>2. map' \in Seq(Node) /\ NodesInOrder'
      BY <2>1, FreedFirst
    <2> QED
      BY <2>1, <2>2 DEF MapInv, MapTypeOK, Node, Tiles, Coalesced
  <1>6. CASE WalkEnds
    <2>1. IsWalk(walk) /\ UNCHANGED <<head_allocated, file>>
      BY <1>6 DEF WalkEnds, WalkRight
    <2>2. CASE walk.deinit = "no"
      <3>1. UNCHANGED mapVars
        BY <1>6, <2>2 DEF WalkEnds, mapVars
      <3> QED
        BY <3>1, StepInv
    <2>3. CASE walk.deinit = "kept"
      <3>1. walk.deinit # "no"
        BY <2>3
      <3>2. map' = Tail(map) /\ UNCHANGED failed /\ file # "open" /\ map # <<>>
        BY <1>6, <2>3, <3>1 DEF WalkEnds, WalkRight
      <3>3. map' \in Seq(Node) /\ NodesInOrder'
        BY <3>2, TailInv
      <3> QED
        BY <2>1, <3>2, <3>3 DEF MapInv, MapTypeOK, Node, Tiles, Coalesced
    <2>4. CASE walk.deinit = "deleted"
      <3>1. failed' = TRUE /\ UNCHANGED map
        BY <1>6, <2>4 DEF WalkEnds
      <3> QED
        BY <2>1, <3>1 DEF MapInv, MapTypeOK, NodesInOrder, Tiles, Coalesced
    <2> QED
      BY <2>1, <2>2, <2>3, <2>4 DEF IsWalk
  <1>7. CASE UNCHANGED mapVars
    BY <1>7, StepInv
  <1>8. ASSUME NEW page \in Touched,
               HandlePagefault(page) \/ PagefaultNoMemory(page)
        PROVE  UNCHANGED mapVars
    BY <1>8 DEF HandlePagefault, PagefaultNoMemory
  <1>9. WalkRound \/ WalkOutside \/ UNCHANGED vars => UNCHANGED mapVars
    BY DEF WalkRound, WalkOutside, vars
  <1> QED
    BY <1>1, <1>2, <1>3, <1>4, <1>5, <1>6, <1>7, <1>8, <1>9 DEF Next

(* a walk begins *)
LEMMA WalkFromIs ==
    ASSUME NEW node \in Node, NEW deinit \in {"no", "kept", "deleted"}
    PROVE  /\ IsWalk(WalkFrom(node, deinit)) /\ WalkFrom(node, deinit).deinit = deinit
           /\ WalkFrom(node, deinit) # NoWalk
  <1> DEFINE w == WalkFrom(node, deinit)
  <1>1. node.start \in Nat
    BY RegionAssumption DEF Node
  <1>2. /\ PdpIndex(node.start) \in Nat /\ PdIndex(node.start) \in Nat
        /\ PtIndex(node.start) \in Nat
    <2> DEFINE s == node.start
               d == R * R
    <2>1. s \in Nat /\ R \in Nat \ {0} /\ d \in Nat \ {0} /\ FirstPDP \in Nat
      BY <1>1, TablesAssumption
    <2> HIDE DEF s, d
    <2>2. s \div d \in Nat /\ s \div R \in Nat /\ s % R \in Nat
      BY <2>1
    <2>3. FirstPDP + s \div d \in Nat
      BY <2>1, <2>2
    <2>4. (s \div R) % R \in Nat
      BY <2>1, <2>2
    <2> QED
      BY <2>2, <2>3, <2>4 DEF PdpIndex, PdIndex, PtIndex, s, d
  <1>3. DOMAIN w = WalkFields
    BY DEF WalkFrom, WalkFields
  <1>4. /\ w.pdp_index = PdpIndex(node.start) /\ w.pd_index = PdIndex(node.start)
        /\ w.pt_index = PtIndex(node.start) /\ w.deinit = deinit
    BY DEF WalkFrom
  <1>5. w # NoWalk
    <2>1. DOMAIN NoWalk = {"pages_covered"} /\ "start" \in WalkFields
      BY DEF NoWalk, WalkFields
    <2>2. "start" \notin {"pages_covered"}
      OBVIOUS
    <2> QED
      BY <1>3, <2>1, <2>2
  <1> HIDE DEF w
  <1>6. IsWalk(w)
    BY <1>2, <1>3, <1>4, Zenon DEF IsWalk
  <1> QED
    BY <1>4, <1>5, <1>6 DEF w

(* A walk under way is not NoWalk. *)
LEMMA IsWalkApart == ASSUME NEW w, IsWalk(w) PROVE w # NoWalk
  <1>1. DOMAIN NoWalk = {"pages_covered"} /\ "start" \in WalkFields
    BY DEF NoWalk, WalkFields
  <1>2. "start" \notin {"pages_covered"}
    OBVIOUS
  <1> QED
    BY <1>1, <1>2 DEF IsWalk

(* The locals after a round. *)
LEMMA RoundWalk ==
    ASSUME IsWalk(walk), Reach(walk) # "outside"
    PROVE  LET w == Cascade(Descend(walk))
           IN  /\ IsWalk(w) /\ w.deinit = walk.deinit
               /\ w.start = walk.start /\ w.num_pages = walk.num_pages
               /\ w.pages_covered = walk.pages_covered + Covered(walk)
               /\ Reach(walk) = "pte" =>
                     w.pt_cur = At(PtAt(walk), walk.pt_index)
  <1>1. Reach(walk) \in {"no pdp", "no pd", "no pt", "pte"}
    BY ReachIs
  <1> DEFINE d == Descend(walk)
  <1>2. /\ IsWalk(d) /\ d.deinit = walk.deinit
        /\ d.start = walk.start /\ d.num_pages = walk.num_pages
        /\ d.pages_covered = walk.pages_covered + Covered(walk)
        /\ Reach(walk) = "pte" => d.pt_cur = At(PtAt(walk), walk.pt_index)
    BY <1>1, DescendIs
  <1> HIDE DEF d
  <1>3. /\ IsWalk(Cascade(d)) /\ Cascade(d).start = d.start
        /\ Cascade(d).num_pages = d.num_pages /\ Cascade(d).deinit = d.deinit
        /\ Cascade(d).pages_covered = d.pages_covered /\ Cascade(d).pt_cur = d.pt_cur
    BY <1>2, CascadeIs
  <1> QED
    BY <1>2, <1>3, Zenon DEF d

(* WalkRight is inductive, next to the map's invariant. *)
LEMMA WalkRightStep ==
    ASSUME MapInv, WalkRight, [Next]_vars
    PROVE  WalkRight'
  <1>1. CASE WalkRound
    <2>1. /\ walk # NoWalk /\ Reach(walk) # "outside"
          /\ walk' = Cascade(Descend(walk)) /\ UNCHANGED <<map, file>>
      BY <1>1 DEF WalkRound, mapVars
    <2>2. IsWalk(walk) /\ (walk.deinit # "no" => file # "open" /\ map # <<>>)
      BY <2>1 DEF WalkRight
    <2>3. IsWalk(walk') /\ walk'.deinit = walk.deinit
      BY <2>1, <2>2, RoundWalk
    <2> QED
      BY <2>1, <2>2, <2>3 DEF WalkRight, IsWalk
  <1>2. ASSUME NEW page, FreeVspace(page) PROVE WalkRight'
    <2>1. Freeable(page) # {} /\ walk' = WalkFrom(map[Min(Freeable(page))], "no")
      BY <1>2 DEF FreeVspace, LazyFree
    <2>2. Freeable(page) \subseteq 1 .. Len(map) /\ map \in Seq(Node) /\ Len(map) \in Nat
      BY DEF Freeable, MapInv, MapTypeOK, Node
    <2>3. Min(Freeable(page)) \in 1 .. Len(map)
      <3>1. Freeable(page) \in SUBSET Nat
        BY <2>2
      <3> QED
        BY <2>1, <2>2, <3>1, MinIsLeast
    <2>4. map[Min(Freeable(page))] \in Node
      BY <2>2, <2>3
    <2>5. IsWalk(walk') /\ walk'.deinit = "no"
      BY <2>1, <2>4, WalkFromIs
    <2> QED
      BY <2>5 DEF WalkRight, IsWalk
  <1>3. CASE DeinitAllocated
    <2>1. /\ file = "closing" /\ file' = "closing" /\ map # <<>> /\ map' = Freed(1)
          /\ walk' = WalkFrom(map[1], IF MergesNext(1) THEN "deleted" ELSE "kept")
      BY <1>3 DEF DeinitAllocated
    <2>2. map' # <<>>
      BY <2>1, FreedFirst
    <2>3. map[1] \in Node
      <3>1. map \in Seq(Node)
        BY DEF MapInv, MapTypeOK, Node
      <3> QED
        BY <2>1, <3>1
    <2>4. IsWalk(walk')
      <3> DEFINE d == IF MergesNext(1) THEN "deleted" ELSE "kept"
      <3>1. d \in {"no", "kept", "deleted"}
        OBVIOUS
      <3> HIDE DEF d
      <3>2. IsWalk(WalkFrom(map[1], d))
        BY <2>3, <3>1, WalkFromIs
      <3> QED
        BY <2>1, <3>2 DEF d
    <2> QED
      BY <2>1, <2>2, <2>4 DEF WalkRight, IsWalk
  <1>4. CASE WalkEnds \/ UNCHANGED vars \/ WalkOutside
    BY <1>4 DEF WalkEnds, WalkOutside, mapVars, WalkRight, vars, IsWalk
  <1>5. ASSUME walk = NoWalk, UNCHANGED walk PROVE WalkRight'
    BY <1>5 DEF WalkRight
  <1>6. ASSUME NEW page \in Touched,
               \/ HandlePagefault(page) \/ PagefaultNoMemory(page)
               \/ \E error_code \in {1, 2} : PagefaultRefused(page, error_code)
        PROVE  walk = NoWalk /\ UNCHANGED walk
    BY <1>6 DEF HandlePagefault, PagefaultNoMemory, PagefaultRefused, Idle
  <1>7. ASSUME \/ \E n \in Sizes : Allocate(n)
               \/ CloseFile \/ DeinitFree \/ DeinitDone
        PROVE  walk = NoWalk /\ UNCHANGED walk
    BY <1>7 DEF Allocate, CloseFile, DeinitFree, DeinitDone, Idle
  <1> QED
    BY <1>1, <1>2, <1>3, <1>4, <1>5, <1>6, <1>7 DEF Next

----------------------------------------------------------------------------
(* Until a table ends, the page tables stay a tree. *)

(* A free that does not come to the end of a table frees no table. *)
LEMMA NotEnded ==
    ASSUME NEW m, HasFields(m),
           NEW ended, NEW mine, NEW cur, NEW parent,
           NEW m1 \in FreeTable(m, ended, mine, cur, parent), ~m1.ended
    PROVE  m1 = m
  <1> DEFINE end == [m EXCEPT !.ended = TRUE]
  <1>1. "ended" \in DOMAIN m
    BY DEF HasFields
  <1>2. end.ended
    BY <1>1
  <1>3. "ended" \in DOMAIN end
    BY <1>1
  <1> HIDE DEF end
  <1>4. Unlink(end, cur, parent).ended
    <2> DEFINE a == [end EXCEPT !.harm = "null pointer"]
               b == [end EXCEPT !.harm = "freed twice"]
               c == [end EXCEPT !.tables[parent.table][parent.index] = None,
                                !.used = @ \ {cur.table}]
    <2>1. a.ended /\ b.ended /\ c.ended
      BY <1>2, <1>3
    <2> HIDE DEF a, b, c
    <2>2. Unlink(end, cur, parent) = a \/ Unlink(end, cur, parent) = b
            \/ Unlink(end, cur, parent) = c
      BY DEF Unlink, a, b, c
    <2> QED
      BY <2>1, <2>2
  <1>5. m1 \in {m, end, Unlink(end, cur, parent)}
    BY DEF FreeTable, end
  <1> QED
    BY <1>2, <1>4, <1>5

TreeRight(m) == ~m.ended => Tree(m.tables, m.used)

(* Unmapping and freeing the page at the entry reached leaves a tree. *)
LEMMA VisitRight ==
    ASSUME HasFields(mem), TreeRight(mem), IsWalk(walk), Reach(walk) = "pte",
           NEW w, w.pt_cur = At(PtAt(walk), walk.pt_index)
    PROVE  TreeRight(Visit(w))
  <1> DEFINE T == mem.tables
             pdp == PdpAt
             pd == PdAt(walk)
             pt == PtAt(walk)
             i == walk.pt_index
             page == T[pt][i]
  <1>1. w.pt_cur.table = pt /\ w.pt_cur.index = i
    BY DEF At
  <1>2. /\ pdp \in mem.used /\ pd \in mem.used /\ pt \in mem.used
        /\ pdp # None /\ pd # None /\ pt # None
        /\ walk.pdp_index \in Index /\ walk.pd_index \in Index /\ i \in Index
    <2>1. Reach(walk) # "outside"
      OBVIOUS
    <2>2. /\ pdp \in mem.used /\ pd \in mem.used /\ pt \in mem.used
          /\ pdp # None /\ pd # None /\ pt # None
          /\ ~(walk.pdp_index >= R) /\ ~(walk.pd_index >= R) /\ ~(walk.pt_index >= R)
      BY <2>1, ReachIs
    <2>3. walk.pdp_index \in Nat /\ walk.pd_index \in Nat /\ walk.pt_index \in Nat
      BY DEF IsWalk
    <2> QED
      BY <2>2, <2>3, TablesAssumption DEF Index
  <1>3. T[PML][0] = pdp /\ T[pdp][walk.pdp_index] = pd /\ T[pd][walk.pd_index] = pt
    BY <1>2 DEF PdpAt, PdAt, PtAt, PdpOf, Entry
  <1>4. /\ {"tables", "used", "harm", "ended"} \subseteq DOMAIN mem
        /\ ~mem.ended => Tree(T, mem.used)
    BY DEF TreeRight, HasFields
  <1> HIDE DEF pdp, pd, pt, i
  <1>5. CASE page \notin mem.used \cup {None}
    <2> DEFINE new == [mem EXCEPT !.harm = "freed twice"]
    <2>1. Visit(w) = new
      BY <1>1, <1>5 DEF Visit
    <2>2. /\ new.tables = T /\ new.used = mem.used /\ new.ended = mem.ended
          /\ DOMAIN new = DOMAIN mem
      BY <1>4
    <2> HIDE DEF new
    <2> QED
      BY <1>4, <2>1, <2>2 DEF TreeRight
  <1>6. CASE page = None
    <2>1. Visit(w) = mem
      BY <1>1, <1>6 DEF Visit
    <2> QED
      BY <1>4, <2>1 DEF TreeRight
  <1>7. CASE page \in mem.used /\ page # None
    <2> DEFINE new == [mem EXCEPT !.tables[pt][i] = None, !.used = @ \ {page}]
    <2>1. Visit(w) = new
      BY <1>1, <1>7 DEF Visit
    <2> HIDE DEF page
    <2>2. /\ new.tables = [T EXCEPT ![pt][i] = None] /\ new.used = mem.used \ {page}
          /\ new.ended = mem.ended /\ DOMAIN new = DOMAIN mem
      BY <1>4
    <2> HIDE DEF new
    <2>3. ~mem.ended => Tree([T EXCEPT ![pt][i] = None], mem.used \ {page})
      BY <1>2, <1>3, <1>4, <1>7, VisitTree DEF page
    <2> QED
      BY <1>4, <2>1, <2>2, <2>3 DEF TreeRight
  <1> QED
    BY <1>5, <1>6, <1>7

(* A change of harm or ended alone. *)
LEMMA TreeKept ==
    ASSUME TreeRight(mem), NEW m, m.tables = mem.tables,
           m.used = mem.used, ~m.ended => ~mem.ended
    PROVE  TreeRight(m)
  BY DEF TreeRight

(* A round after which no table has ended has unmapped at most a page. *)
LEMMA RoundNotEnded ==
    ASSUME HasFields(mem), WalkRound, ~mem'.ended
    PROVE  /\ ~mem.ended
           /\ Reach(walk) = "pte" => mem' = Visit(walk')
           /\ Reach(walk) # "pte" => mem'.tables = mem.tables /\ ~Walking(walk')
                                     /\ mem'.used = mem.used
  <1> DEFINE w == Cascade(Descend(walk))
             n == [mem EXCEPT !.ended = @ \/ Walking(w)]
             m == IF Reach(walk) = "pte" THEN Visit(w) ELSE n
  <1>1. walk' = w
    BY DEF WalkRound
  <1>2. \E m1 \in FreeTable(m, Ended(w.pt_index, walk.pt_index), w.pt_mine,
                            w.pt_cur, w.pd_cur) :
        \E m2 \in FreeTable(m1, Ended(w.pd_index, walk.pd_index), w.pd_mine,
                            w.pd_cur, w.pdp_cur) :
           mem' \in FreeTable(m2, Ended(w.pdp_index, walk.pdp_index), w.pdp_mine,
                              w.pdp_cur, At(PML, 0))
    BY DEF WalkRound
  <1> HIDE DEF w
  <1>3. HasFields(n)
    BY DEF HasFields
  <1>4. /\ n.tables = mem.tables /\ n.used = mem.used
        /\ n.ended = (mem.ended \/ Walking(w))
    BY DEF HasFields
  <1> HIDE DEF n
  <1>5. HasFields(m)
    BY <1>3, VisitFields
  <1>6. mem' = m
    <2> HIDE DEF m
    <2>1. PICK m1 \in FreeTable(m, Ended(w.pt_index, walk.pt_index), w.pt_mine,
                                w.pt_cur, w.pd_cur) :
             \E m2 \in FreeTable(m1, Ended(w.pd_index, walk.pd_index), w.pd_mine,
                                 w.pd_cur, w.pdp_cur) :
                mem' \in FreeTable(m2, Ended(w.pdp_index, walk.pdp_index), w.pdp_mine,
                                   w.pdp_cur, At(PML, 0))
      BY <1>2
    <2>2. PICK m2 \in FreeTable(m1, Ended(w.pd_index, walk.pd_index), w.pd_mine,
                                w.pd_cur, w.pdp_cur) :
             mem' \in FreeTable(m2, Ended(w.pdp_index, walk.pdp_index), w.pdp_mine,
                                w.pdp_cur, At(PML, 0))
      BY <2>1
    <2>3. HasFields(m1)
      BY <1>5, <2>1, FreeTableFields
    <2>4. HasFields(m2)
      BY <2>2, <2>3, FreeTableFields
    <2>5. mem' = m2
      BY <2>2, <2>4, NotEnded
    <2>6. m2 = m1
      BY <2>2, <2>3, <2>5, NotEnded
    <2>7. m1 = m
      BY <1>5, <2>1, <2>5, <2>6, NotEnded
    <2> QED
      BY <2>5, <2>6, <2>7
  <1>7. CASE Reach(walk) = "pte"
    <2>1. mem' = Visit(w)
      BY <1>6, <1>7
    <2>2. Visit(w).ended = mem.ended
      <3> DEFINE page == mem.tables[w.pt_cur.table][w.pt_cur.index]
                 a == [mem EXCEPT !.harm = "freed twice"]
                 b == [mem EXCEPT !.tables[w.pt_cur.table][w.pt_cur.index] = None,
                                  !.used = @ \ {page}]
      <3>1. Visit(w) = a \/ Visit(w) = mem \/ Visit(w) = b
        BY DEF Visit
      <3> HIDE DEF page
      <3>2. a.ended = mem.ended /\ b.ended = mem.ended
        BY DEF HasFields
      <3> HIDE DEF a, b
      <3> QED
        BY <3>1, <3>2
    <2> QED
      BY <1>1, <1>7, <2>1, <2>2
  <1>8. CASE Reach(walk) # "pte"
    <2>1. mem' = n
      BY <1>6, <1>8
    <2> QED
      BY <1>1, <1>4, <1>8, <2>1
  <1> QED
    BY <1>7, <1>8

(* Every step leaves a tree, until a free comes to the end of a table or    *)
(* goes on behind a missing one.                                            *)
LEMMA TreeRightStep ==
    ASSUME HasFields(mem), TreeRight(mem), WalkRight, [Next]_vars
    PROVE  TreeRight(mem')
  <1>f. {"tables", "used", "harm", "ended"} \subseteq DOMAIN mem
    BY DEF HasFields
  <1>1. CASE mem' = mem
    BY <1>1
  <1>2. ASSUME NEW h, mem' = [mem EXCEPT !.harm = h] PROVE TreeRight(mem')
    <2> DEFINE m == [mem EXCEPT !.harm = h]
    <2>1. /\ m.tables = mem.tables /\ m.used = mem.used
          /\ m.ended = mem.ended
      BY <1>f
    <2> HIDE DEF m
    <2> QED
      BY <1>2, <2>1, TreeKept DEF m
  <1>3. ASSUME NEW page \in Touched, HandlePagefault(page) PROVE TreeRight(mem')
    <2>1. CASE TablesOf(page) \subseteq mem.used
      <3>1. /\ PageOf(mem.tables, page) = None /\ Cardinality(FreePages) >= 4
            /\ mem' = Mapped(page)
        BY <1>3, <2>1 DEF HandlePagefault
      <3>2. page \in Nat /\ page < RegionPages
        BY TablesAssumption, RegionAssumption
      <3>3. Mapped(page).ended = mem.ended
        BY DEF Mapped
      <3>4. ~mem.ended => Tree(Mapped(page).tables, Mapped(page).used)
        BY <2>1, <3>1, <3>2, FaultTree DEF TreeRight
      <3> QED
        BY <3>1, <3>3, <3>4 DEF TreeRight
    <2>2. CASE ~(TablesOf(page) \subseteq mem.used)
      <3>1. mem' = [mem EXCEPT !.harm = "outside"]
        BY <1>3, <2>2 DEF HandlePagefault
      <3> QED
        BY <1>2, <3>1
    <2> QED
      BY <2>1, <2>2
  <1>4. ASSUME NEW page \in Touched, PagefaultNoMemory(page) PROVE TreeRight(mem')
    BY <1>2, <1>4 DEF PagefaultNoMemory
  <1>6. CASE WalkRound
    <2> SUFFICES ASSUME ~mem'.ended PROVE TreeRight(mem')
      BY DEF TreeRight
    <2>1. walk # NoWalk /\ Reach(walk) # "outside" /\ walk' = Cascade(Descend(walk))
      BY <1>6 DEF WalkRound
    <2>2. IsWalk(walk)
      BY <2>1 DEF WalkRight
    <2>3. CASE Reach(walk) = "pte"
      <3>1. walk'.pt_cur = At(PtAt(walk), walk.pt_index)
        BY <2>1, <2>2, <2>3, RoundWalk
      <3> QED
        BY <1>6, <2>2, <2>3, <3>1, RoundNotEnded, VisitRight
    <2>4. CASE Reach(walk) # "pte"
      <3>1. ~mem.ended /\ mem'.tables = mem.tables /\ mem'.used = mem.used
        BY <1>6, <2>4, RoundNotEnded
      <3> QED
        BY <3>1, TreeKept
    <2> QED
      BY <2>3, <2>4
  <1>7. CASE WalkOutside
    BY <1>2, <1>7 DEF WalkOutside
  <1> QED
    BY <1>1, <1>3, <1>4, <1>6, <1>7
       DEF Next, vars, Allocate, FreeVspace, PagefaultRefused, WalkEnds, CloseFile,
           DeinitAllocated, DeinitFree, DeinitDone

(* The tables that a process starts with are a tree, with the program's own *)
(* PD or without.                                                           *)
LEMMA InitTree ==
    ASSUME Init PROVE TreeRight(mem)
  <1>1. PICK own \in BOOLEAN :
          /\ mem.tables = [p \in {PML} \cup Phys |->
                             IF own /\ p = PML THEN [Empty EXCEPT ![0] = 1]
                             ELSE IF own /\ p = 1 THEN [Empty EXCEPT ![0] = Own]
                             ELSE Empty]
          /\ mem.used = IF own THEN {1} ELSE {}
    BY DEF Init
  <1> DEFINE T == mem.tables
             U == mem.used
  <1>2. 0 \in Index /\ 1 \in Phys /\ U \subseteq Phys /\ NumPages \in Nat
    BY <1>1, TablesAssumption DEF Index, Phys
  <1>3. ASSUME NEW a \in Pages, NEW i \in Index
        PROVE  T[a][i] = IF own /\ a = PML /\ i = 0 THEN 1
                         ELSE IF own /\ a = 1 /\ i = 0 THEN Own ELSE None
    <2>1. Empty \in [Index -> {None}] /\ Empty[i] = None
      BY DEF Empty, Index
    <2>2. PML # 1
      BY DEF PML
    <2> HIDE DEF T
    <2>3. T[a] = IF own /\ a = PML THEN [Empty EXCEPT ![0] = 1]
                 ELSE IF own /\ a = 1 THEN [Empty EXCEPT ![0] = Own] ELSE Empty
      BY <1>1 DEF Pages, T
    <2> QED
      BY <1>2, <2>1, <2>2, <2>3 DEF Empty, Index
  <1>4. T \in [Pages -> [Index -> Phys \cup {None, Own}]]
    <2>1. /\ Empty \in [Index -> Phys \cup {None, Own}]
          /\ [Empty EXCEPT ![0] = 1] \in [Index -> Phys \cup {None, Own}]
          /\ [Empty EXCEPT ![0] = Own] \in [Index -> Phys \cup {None, Own}]
      BY <1>2 DEF Empty, Index
    <2> QED
      BY <1>1, <2>1 DEF Pages
  <1> HIDE DEF T, U
  <1>5. \A a \in Inner(U), i \in Index : T[a][i] \in Phys =>
           own /\ a = PML /\ i = 0 /\ T[a][i] = 1
    BY <1>2, <1>3, PagesApart DEF Inner, Pages
  <1>6. own => U = {1} /\ T[PML][0] = 1
    BY <1>1, <1>2, <1>3 DEF U, Pages
  <1>7. ~own => U = {}
    BY <1>1 DEF U
  <1>8. Typed(T, U)
    BY <1>2, <1>4 DEF Typed
  <1>9. LinksRight(T, U)
    BY <1>2, <1>5, <1>6 DEF LinksRight
  <1>10. Reached(T, U)
    BY <1>2, <1>6, <1>7 DEF Reached, Inner
  <1>11. IsLevel([p \in Pages |-> IF p = PML THEN 0 ELSE 1], T, U)
    <2> DEFINE lev == [p \in Pages |-> IF p = PML THEN 0 ELSE 1]
    <2>1. lev \in [Pages -> 0 .. 4] /\ lev[PML] = 0 /\ lev[1] = 1
      BY <1>2, PagesApart DEF Pages
    <2> HIDE DEF lev
    <2>2. IsLevel(lev, T, U)
      BY <1>5, <2>1 DEF IsLevel
    <2> QED
      BY <2>2 DEF lev
  <1>12. OwnRight(T, U)
    <2> SUFFICES ASSUME NEW a \in Inner(U), NEW i \in Index, T[a][i] = Own
                 PROVE  a \in U /\ T[PML][0] = a /\ i = 0
      BY DEF OwnRight
    <2>1. own /\ a = 1 /\ i = 0
      BY <1>2, <1>3, PagesApart DEF Inner, Pages
    <2> QED
      BY <1>6, <2>1
  <1>13. Tree(T, U)
    BY <1>8, <1>9, <1>10, <1>11, <1>12 DEF Tree
  <1> QED
    BY <1>13 DEF TreeRight, T, U

(* The inductive invariant of demand paging. *)
DemandInv == MapInv /\ WalkRight /\ HasFields(mem) /\ TreeRight(mem)

(* It holds at the start. *)
LEMMA DemandInit == Init => DemandInv
  <1> SUFFICES ASSUME Init PROVE DemandInv
    OBVIOUS
  <1>1. MapInv
    BY InitInv DEF Init
  <1>2. WalkRight
    BY DEF Init, WalkRight
  <1>3. HasFields(mem)
    BY DEF Init, HasFields
  <1> QED
    BY <1>1, <1>2, <1>3, InitTree DEF DemandInv

(* It is inductive. *)
LEMMA DemandStep == DemandInv /\ [Next]_vars => DemandInv'
  <1> SUFFICES ASSUME DemandInv, [Next]_vars PROVE DemandInv'
    OBVIOUS
  <1>1. MapInv /\ WalkRight /\ HasFields(mem) /\ TreeRight(mem)
    BY DEF DemandInv
  <1>2. MapInv' /\ WalkRight'
    BY <1>1, DemandMapStep, WalkRightStep
  <1>3. HasFields(mem')
    BY <1>1, FieldsStep
  <1>4. TreeRight(mem')
    BY <1>1, TreeRightStep
  <1> QED
    BY <1>2, <1>3, <1>4 DEF DemandInv, HasFields, TreeRight

(* In a tree nothing is shared, nothing leaks and nothing is freed while it *)
(* is mapped.                                                               *)
LEMMA TreeIsSound == TreeRight(mem) => TreeSound
  <1> SUFFICES ASSUME Tree(mem.tables, mem.used)
               PROVE  /\ \A l \in Links : Target(l) \in mem.used
                      /\ \A l, k \in Links : Target(l) = Target(k) => l = k
                      /\ \A p \in mem.used : \E l \in Links : Target(l) = p
    BY DEF TreeRight, TreeSound
  <1>1. LinksRight(mem.tables, mem.used) /\ Reached(mem.tables, mem.used)
        /\ mem.used \subseteq Phys
    BY DEF Tree, Typed
  <1>2. ASSUME NEW l \in Links
        PROVE  /\ l \in [table : Inner(mem.used), index : Index]
               /\ l.table \in Inner(mem.used) /\ l.index \in Index
               /\ mem.tables[l.table][l.index] = Target(l) /\ Target(l) \in Phys
    BY DEF Links, Inner, Index, Target
  <1>3. \A l \in Links : Target(l) \in mem.used
    BY <1>1, <1>2 DEF LinksRight
  <1>4. ASSUME NEW l \in Links, NEW k \in Links, Target(l) = Target(k) PROVE l = k
    <2>1. l.table = k.table /\ l.index = k.index
      BY <1>1, <1>2, <1>4 DEF LinksRight
    <2> QED
      BY <1>2, <2>1
  <1>5. ASSUME NEW p \in mem.used PROVE \E l \in Links : Target(l) = p
    <2>1. PICK a \in Inner(mem.used), i \in Index : mem.tables[a][i] = p
      BY <1>1 DEF Reached
    <2> DEFINE l == [table |-> a, index |-> i]
    <2>2. l \in [table : {PML} \cup mem.used, index : 0 .. R - 1] /\ l.table = a
          /\ l.index = i
      BY DEF Inner, Index
    <2> HIDE DEF l
    <2>3. l \in Links /\ Target(l) = p
      BY <1>1, <2>1, <2>2 DEF Links, Target
    <2> QED
      BY <2>3
  <1> QED
    BY <1>3, <1>4, <1>5

(* Through faults, frees and walks every entry leads to a page in use, no   *)
(* page is reached by two entries and every page in use is reached, until a *)
(* free comes to the end of a table or goes on behind a missing one.        *)
THEOREM DemandTreeSound == Spec => []TreeSound
  <1>1. DemandInv => TreeSound
    BY TreeIsSound DEF DemandInv
  <1> QED
    BY <1>1, DemandInit, DemandStep, PTL DEF Spec

----------------------------------------------------------------------------
(* Addresses and indices. *)

(* What a quotient is. *)
LEMMA Quotient ==
    ASSUME NEW x \in Nat, NEW d \in Nat \ {0}, NEW q \in Int
    PROVE  (x \div d = q) <=> (q * d <= x /\ x < (q + 1) * d)
  OBVIOUS

(* Division with remainder. *)
LEMMA Division ==
    ASSUME NEW x \in Nat, NEW d \in Nat \ {0}
    PROVE  /\ x \div d \in Nat /\ x % d \in 0 .. d - 1
           /\ x = (x \div d) * d + (x % d)
  <1>1. x \div d \in Nat
    OBVIOUS
  <1>2. x % d \in 0 .. d - 1
    OBVIOUS
  <1>3. x = d * (x \div d) + (x % d)
    OBVIOUS
  <1>4. d * (x \div d) = (x \div d) * d
    BY <1>1
  <1> QED
    BY <1>1, <1>2, <1>3, <1>4

(* The tables have entries. *)
LEMMA RPositive == R \in Nat \ {0} /\ R * R \in Nat \ {0}
  <1>1. R \in Nat \ {0}
    BY TablesAssumption
  <1> QED
    BY <1>1

(* Dividing by R twice. *)
LEMMA NestedQuotient ==
    ASSUME NEW v \in Nat
    PROVE  v \div (R * R) = (v \div R) \div R
  <1> DEFINE q == v \div R
             p == q \div R
  <1>1. R \in Nat \ {0} /\ R * R \in Nat \ {0}
    BY RPositive
  <1>2. q \in Nat /\ q * R <= v /\ v < (q + 1) * R
    <2>1. q \in Nat
      BY <1>1, Division
    <2> QED
      BY <1>1, <2>1, Quotient
  <1> HIDE DEF q
  <1>3. p \in Nat /\ p * R <= q /\ q < (p + 1) * R
    <2>1. p \in Nat
      BY <1>1, <1>2, Division
    <2> QED
      BY <1>1, <1>2, <2>1, Quotient
  <1> HIDE DEF p
  <1>4. (p * R) * R <= q * R
    BY <1>1, <1>2, <1>3, TimesMonotone
  <1>5. (q + 1) * R <= ((p + 1) * R) * R
    <2>1. q + 1 <= (p + 1) * R /\ q + 1 \in Int /\ (p + 1) * R \in Int
      BY <1>1, <1>2, <1>3
    <2> QED
      BY <1>1, <2>1, TimesMonotone
  <1>6. (p * R) * R = p * (R * R) /\ ((p + 1) * R) * R = (p + 1) * (R * R)
    BY <1>1, <1>3
  <1>7. p * (R * R) <= v /\ v < (p + 1) * (R * R)
    <2>1. /\ q * R \in Int /\ (q + 1) * R \in Int /\ p * (R * R) \in Int
          /\ (p + 1) * (R * R) \in Int
      BY <1>1, <1>2, <1>3
    <2> HIDE DEF p
    <2> QED
      BY <1>2, <1>4, <1>5, <1>6, <2>1
  <1>8. v \div (R * R) = p
    BY <1>1, <1>3, <1>7, Quotient
  <1> QED
    BY <1>8 DEF p, q

(* the indices of a page from the number of its page table *)
LEMMA IndicesAre ==
    ASSUME NEW v \in Nat
    PROVE  /\ v \div R \in Nat /\ v = (v \div R) * R + PtIndex(v)
           /\ PtIndex(v) \in Index /\ PdIndex(v) \in Index
           /\ PdIndex(v) = (v \div R) % R
           /\ PdpIndex(v) = FirstPDP + (v \div R) \div R
           /\ (v \div R) \div R \in Nat
           /\ v \div R = ((v \div R) \div R) * R + PdIndex(v)
  <1> DEFINE q == v \div R
  <1>1. R \in Nat \ {0} /\ Index = 0 .. R - 1
    BY RPositive DEF Index
  <1>2. q \in Nat /\ v % R \in Index /\ v = q * R + (v % R)
    BY <1>1, Division
  <1>3. PdpIndex(v) = FirstPDP + q \div R
    BY NestedQuotient DEF PdpIndex
  <1> HIDE DEF q
  <1>4. q \div R \in Nat /\ q % R \in Index /\ q = (q \div R) * R + (q % R)
    BY <1>1, <1>2, Division
  <1> QED
    BY <1>2, <1>3, <1>4, Zenon DEF PtIndex, PdIndex, q

(* No two pages have the same indices. *)
LEMMA SameIndices ==
    ASSUME NEW u \in Nat, NEW v \in Nat, PdpIndex(u) = PdpIndex(v),
           PdIndex(u) = PdIndex(v), PtIndex(u) = PtIndex(v)
    PROVE  u = v
  <1> DEFINE a == (u \div R) \div R
             b == (v \div R) \div R
  <1>1. a \in Nat /\ b \in Nat /\ FirstPDP + a = FirstPDP + b
    BY IndicesAre
  <1>2. a = b
    <2> HIDE DEF a, b
    <2> QED
      BY <1>1, TablesAssumption
  <1>3. u \div R = a * R + PdIndex(u) /\ v \div R = b * R + PdIndex(v)
    BY IndicesAre
  <1>4. u \div R = v \div R
    BY <1>2, <1>3
  <1>5. u = (u \div R) * R + PtIndex(u) /\ v = (v \div R) * R + PtIndex(v)
    BY IndicesAre
  <1> QED
    BY <1>4, <1>5

(* two pages of one page table, of one page directory *)
LEMMA SameTable ==
    ASSUME NEW u \in Nat, NEW v \in Nat, u <= v, v < u + (R - PtIndex(u))
    PROVE  /\ PdpIndex(v) = PdpIndex(u) /\ PdIndex(v) = PdIndex(u)
           /\ PtIndex(v) = PtIndex(u) + (v - u)
  <1> DEFINE q == u \div R
             i == PtIndex(u)
             p == q * R
  <1>1. R \in Nat \ {0} /\ Index = 0 .. R - 1
    BY RPositive DEF Index
  <1>2. q \in Nat /\ u = q * R + i /\ i \in Index
    BY IndicesAre
  <1> HIDE DEF q, i
  <1>3. (q + 1) * R = p + R /\ p \in Nat
    BY <1>1, <1>2
  <1>4. p <= v /\ v < p + R
    <2>1. u = p + i
      BY <1>2
    <2>2. v < u + (R - i)
      BY DEF i
    <2> HIDE DEF p
    <2> QED
      BY <1>1, <1>2, <1>3, <2>1, <2>2
  <1>5. v \div R = q
    BY <1>1, <1>2, <1>3, <1>4, Quotient
  <1>6. v = q * R + PtIndex(v) /\ PtIndex(v) \in Index
    BY <1>5, IndicesAre
  <1>7. PtIndex(v) = i + (v - u)
    <2>1. v = p + PtIndex(v) /\ u = p + i
      BY <1>2, <1>6
    <2> HIDE DEF p
    <2> QED
      BY <1>1, <1>2, <1>3, <1>6, <2>1
  <1>8. PdpIndex(v) = PdpIndex(u) /\ PdIndex(v) = PdIndex(u)
    BY <1>5, IndicesAre DEF q
  <1> QED
    BY <1>7, <1>8 DEF i

(* What "no pd" counts lies behind the same PDP entry: the pages that the   *)
(* round passes have the PD that is missing.                                *)
LEMMA SameDirectory ==
    ASSUME NEW u \in Nat, NEW v \in Nat, u <= v,
           v < u + (R - PdIndex(u)) * (R - PtIndex(u))
    PROVE  PdpIndex(v) = PdpIndex(u)
  <1> DEFINE q == u \div R
             a == q \div R
             i == PtIndex(u)
             j == PdIndex(u)
             k == (v \div R)
             x == R - 1 - j
             y == R - i
  <1>1. R \in Nat \ {0} /\ Index = 0 .. R - 1
    BY RPositive DEF Index
  <1>2. /\ q \in Nat /\ u = q * R + i /\ i \in Index /\ j \in Index
        /\ a \in Nat /\ q = a * R + j /\ PdpIndex(u) = FirstPDP + a
    BY IndicesAre
  <1>3. k \in Nat /\ v = k * R + PtIndex(v) /\ PtIndex(v) \in Index
        /\ PdpIndex(v) = FirstPDP + k \div R
    BY IndicesAre
  <1>0. v < u + (R - j) * (R - i)
    OBVIOUS
  <1> HIDE DEF q, a, i, j, k
  <1>4. x \in Nat /\ y \in Nat /\ y <= R /\ (R - j) * (R - i) = (x + 1) * y
    BY <1>1, <1>2
  <1>5. (x + 1) * y <= x * R + y
    <2>1. x * y <= x * R
      <3>1. y * x <= R * x
        BY <1>1, <1>4, TimesMonotone
      <3>2. y * x = x * y /\ R * x = x * R
        BY <1>1, <1>4
      <3> QED
        BY <3>1, <3>2
    <2>2. (x + 1) * y = x * y + y /\ x * y \in Int /\ x * R \in Int
      BY <1>1, <1>4
    <2> QED
      BY <1>4, <2>1, <2>2
  <1>6. u + (x * R + y) = (a + 1) * (R * R)
    <2>1. q * R = a * (R * R) + j * R /\ x * R = (R * R) - R - j * R
          /\ (a + 1) * (R * R) = a * (R * R) + R * R
      BY <1>1, <1>2
    <2>2. a * (R * R) \in Int /\ j * R \in Int /\ R * R \in Int /\ q * R \in Int
          /\ x * R \in Int
      BY <1>1, <1>2, <1>4
    <2>3. y = R - i /\ u = q * R + i /\ i \in Int /\ R \in Int
      BY <1>1, <1>2
    <2> HIDE DEF x, y
    <2> QED
      BY <1>4, <2>1, <2>2, <2>3
  <1>7. v < (a + 1) * (R * R)
    <2>1. /\ (R - j) * (R - i) \in Int /\ x * R + y \in Int
          /\ (a + 1) * (R * R) \in Int
      BY <1>1, <1>2, <1>4
    <2>2. (R - j) * (R - i) <= x * R + y
      BY <1>4, <1>5
    <2> HIDE DEF x, y
    <2> QED
      BY <1>0, <1>6, <2>1, <2>2
  <1>8. a * (R * R) <= v
    <2>1. a * (R * R) = (a * R) * R
      BY <1>1, <1>2
    <2>2. (a * R) * R <= q * R
      <3>1. a * R <= q /\ a * R \in Int
        BY <1>1, <1>2
      <3> QED
        BY <1>1, <1>2, <3>1, TimesMonotone
    <2>3. q * R \in Int /\ (a * R) * R \in Int /\ i \in Nat
      BY <1>1, <1>2
    <2> QED
      BY <1>2, <2>1, <2>2, <2>3
  <1>9. v \div (R * R) = a
    <2> DEFINE d == R * R
    <2>1. d \in Nat \ {0} /\ a \in Int /\ a * d <= v /\ v < (a + 1) * d
      BY <1>2, <1>7, <1>8, RPositive
    <2> HIDE DEF d
    <2>2. v \div d = a
      BY <2>1, Quotient
    <2> QED
      BY <2>2 DEF d
  <1> QED
    BY <1>2, <1>9 DEF PdpIndex

----------------------------------------------------------------------------
(* What a change of the tree does to the page behind an address. *)

(* The entries on the way to a page of the range are absent or lead to      *)
(* pages in use.                                                            *)
LEMMA OnTheWay ==
    ASSUME NEW T, NEW U, Tree(T, U), NEW v \in Nat, v < RegionPages
    PROVE  /\ PdpIndex(v) \in Index /\ PdIndex(v) \in Index /\ PtIndex(v) \in Index
           /\ PdpOf(T) = T[PML][0] /\ PdpOf(T) \in U \cup {None}
           /\ PdpOf(T) = None => PdOf(T, v) = None
           /\ PdpOf(T) # None => PdOf(T, v) = T[PdpOf(T)][PdpIndex(v)]
           /\ PdOf(T, v) \in U \cup {None}
           /\ PdOf(T, v) = None => PtOf(T, v) = None
           /\ PdOf(T, v) # None => PtOf(T, v) = T[PdOf(T, v)][PdIndex(v)]
           /\ PtOf(T, v) \in U \cup {None}
           /\ PtOf(T, v) = None => PageOf(T, v) = None
           /\ PtOf(T, v) # None => PageOf(T, v) = T[PtOf(T, v)][PtIndex(v)]
  <1> DEFINE pdp == PdpOf(T)
             pd == PdOf(T, v)
             pt == PtOf(T, v)
  <1>1. /\ PdpIndex(v) \in Index /\ PdIndex(v) \in Index /\ PtIndex(v) \in Index
        /\ 0 \in Index /\ PdpIndex(v) # 0
    <2>1. PdpIndex(v) \in Index /\ PdIndex(v) \in Index /\ PtIndex(v) \in Index
      BY IndexInTable
    <2>2. PdpIndex(v) # 0
      <3>1. (v \div R) \div R \in Nat /\ PdpIndex(v) = FirstPDP + (v \div R) \div R
        BY IndicesAre
      <3> DEFINE a == (v \div R) \div R
      <3> HIDE DEF a
      <3>2. a \in Nat /\ PdpIndex(v) = FirstPDP + a
        BY <3>1 DEF a
      <3> QED
        BY <3>2, TablesAssumption
    <2> QED
      BY <2>1, <2>2, RPositive DEF Index
  <1>2. /\ pdp = T[PML][0]
        /\ pdp = None => pd = None
        /\ pdp # None => pd = T[pdp][PdpIndex(v)]
        /\ pd = None => pt = None
        /\ pd # None => pt = T[pd][PdIndex(v)]
        /\ pt = None => PageOf(T, v) = None
        /\ pt # None => PageOf(T, v) = T[pt][PtIndex(v)]
    BY DEF PdpOf, PdOf, PtOf, PageOf, Entry
  <1> HIDE DEF pdp, pd, pt
  <1>3. /\ \A a \in Inner(U), i \in Index : T[a][i] \in Phys \cup {None, Own}
        /\ \A a \in Inner(U), i \in Index : T[a][i] \in Phys => T[a][i] \in U
        /\ \A a \in Inner(U), i \in Index : T[a][i] = Own => T[PML][0] = a /\ i = 0
        /\ U \subseteq Inner(U) /\ PML \in Inner(U) /\ U \subseteq Phys /\ PML \notin U
    <2>1. U \subseteq Phys /\ \A a \in Inner(U), i \in Index : T[a][i] \in Phys \cup {None, Own}
      BY DEF Tree, Typed, Inner, Pages
    <2>2. \A a \in Inner(U), i \in Index : T[a][i] \in Phys => T[a][i] \in U
      BY DEF Tree, LinksRight
    <2>3. \A a \in Inner(U), i \in Index : T[a][i] = Own => T[PML][0] = a /\ i = 0
      BY DEF Tree, OwnRight
    <2> QED
      BY <2>1, <2>2, <2>3, PagesApart DEF Inner
  <1>4. pdp \in U \cup {None}
    <2>1. T[PML][0] # Own
      BY <1>1, <1>3 DEF Tree, OwnRight
    <2> QED
      BY <1>1, <1>2, <1>3, <2>1
  <1>5. pd \in U \cup {None}
    BY <1>1, <1>2, <1>3, <1>4
  <1>6. pt \in U \cup {None}
    <2> SUFFICES ASSUME pd # None PROVE pt \in U \cup {None}
      BY <1>2
    <2>1. pd \in U /\ pt = T[pd][PdIndex(v)] /\ pdp \in U /\ pdp # None
      BY <1>2, <1>4, <1>5
    <2>2. pd # pdp
      <3> SUFFICES ASSUME pd = pdp PROVE FALSE
        OBVIOUS
      <3>1. T[pdp][PdpIndex(v)] = T[PML][0] /\ T[PML][0] \in Phys
        BY <1>2, <1>3, <2>1
      <3>2. pdp = PML
        BY <1>1, <1>3, <2>1, <3>1 DEF Tree, LinksRight
      <3> QED
        BY <1>3, <2>1, <3>2
    <2>3. pt # Own
      BY <1>1, <1>2, <1>3, <2>1, <2>2
    <2> QED
      BY <1>1, <1>3, <2>1, <2>3
  <1> QED
    BY <1>1, <1>2, <1>4, <1>5, <1>6 DEF pdp, pd, pt

(* The tables on the way to a page of the range are pages in use. *)
LEMMA TablesInUse ==
    ASSUME Tree(mem.tables, mem.used), NEW v \in Nat, v < RegionPages
    PROVE  TablesOf(v) \subseteq mem.used
  BY OnTheWay DEF TablesOf

(* A walk's round unmaps the page at its indices and no other. *)
LEMMA VisitPages ==
    ASSUME NEW T, NEW U, Tree(T, U),
           NEW i1 \in Index, NEW i2 \in Index, NEW i3 \in Index,
           NEW pdp \in U, NEW pd \in U, NEW pt \in U,
           T[PML][0] = pdp, T[pdp][i1] = pd, T[pd][i2] = pt,
           NEW T1, T1 = [T EXCEPT ![pt][i3] = None],
           NEW v \in Nat, v < RegionPages
    PROVE  /\ PdpIndex(v) = i1 /\ PdIndex(v) = i2 /\ PtIndex(v) = i3 =>
                 PageOf(T1, v) = None
           /\ PdpIndex(v) # i1 \/ PdIndex(v) # i2 \/ PtIndex(v) # i3 =>
                 PageOf(T1, v) = PageOf(T, v)
  <1> DEFINE j1 == PdpIndex(v)
             j2 == PdIndex(v)
             j3 == PtIndex(v)
             a == PdOf(T, v)
             c == PtOf(T, v)
  <1>1. T \in Tables /\ U \subseteq Phys /\ pt \in Pages /\ None \in Value
    BY DEF Tree, Typed, Tables, Pages, Value
  <1>2. \A b \in Pages, j \in Index :
           T1[b][j] = IF b = pt /\ j = i3 THEN None ELSE T[b][j]
    BY <1>1, OneEntry
  <1>3. Inner(U) \subseteq Pages /\ U \subseteq Inner(U) /\ PML \in Inner(U) /\ 0 \in Index
        /\ PML \notin U /\ None \notin U
    BY <1>1, RPositive, PagesApart DEF Inner, Pages, Index
  <1>4. \A x \in Inner(U), i \in Index : T[x][i] \in U =>
           \A y \in Inner(U), j \in Index : T[y][j] = T[x][i] => y = x /\ j = i
    BY <1>1 DEF Tree, LinksRight
  <1>5. /\ j1 \in Index /\ j2 \in Index /\ j3 \in Index /\ PdpOf(T) = pdp
        /\ a = T[pdp][j1] /\ a \in U \cup {None} /\ (a = None => PageOf(T, v) = None)
        /\ (a # None => c = T[a][j2]) /\ c \in U \cup {None}
        /\ (c = None => PageOf(T, v) = None)
        /\ (c # None => PageOf(T, v) = T[c][j3]) /\ (a = None => c = None)
    BY <1>3, OnTheWay
  <1> HIDE DEF j1, j2, j3, a, c
  (* pt is not on a higher level *)
  <1>6. pdp # pt /\ PML # pt
    BY <1>3, <1>4
  <1>7. a # None => a # pt
    <2> SUFFICES ASSUME a \in U, a = pt PROVE FALSE
      BY <1>5
    <2>1. T[pdp][j1] = T[pd][i2]
      BY <1>5
    <2>2. pdp = pd
      <3>1. pd \in Inner(U) /\ pdp \in Inner(U) /\ j1 \in Index /\ T[pd][i2] \in U
        BY <1>3, <1>5
      <3> QED
        BY <1>4, <2>1, <3>1
    <2>3. T[PML][0] = T[pdp][i1]
      BY <2>2
    <2>4. PML = pdp
      BY <1>3, <1>4, <2>3
    <2> QED
      BY <1>3, <2>4
  <1>8. c = pt => a = pd /\ j1 = i1 /\ j2 = i2
    <2> SUFFICES ASSUME c = pt PROVE a = pd /\ j1 = i1 /\ j2 = i2
      OBVIOUS
    <2>1. a \in U /\ T[a][j2] = T[pd][i2]
      BY <1>3, <1>5
    <2>2. a = pd /\ j2 = i2
      BY <1>3, <1>4, <1>5, <2>1
    <2>3. T[pdp][j1] = T[pdp][i1]
      BY <1>5, <2>2
    <2> QED
      BY <1>3, <1>4, <1>5, <2>2, <2>3
  <1>9. PdpOf(T1) = pdp
    BY <1>2, <1>3, <1>6 DEF PdpOf
  <1>10. PdOf(T1, v) = a
    <2>1. PdOf(T1, v) = T1[pdp][j1]
      BY <1>3, <1>9 DEF PdOf, Entry, j1
    <2> QED
      BY <1>2, <1>3, <1>5, <1>6, <2>1
  <1>11. PtOf(T1, v) = c
    <2>1. CASE a = None
      BY <1>5, <1>10, <2>1 DEF PtOf, Entry
    <2>2. CASE a # None
      <3>1. PtOf(T1, v) = T1[a][j2]
        BY <1>10, <2>2 DEF PtOf, Entry, j2
      <3> QED
        BY <1>2, <1>3, <1>5, <1>7, <2>2, <3>1
    <2> QED
      BY <2>1, <2>2
  <1>12. c = None => PageOf(T1, v) = None
    BY <1>11 DEF PageOf, Entry
  <1>13. c # None => PageOf(T1, v) = IF c = pt /\ j3 = i3 THEN None ELSE T[c][j3]
    <2> SUFFICES ASSUME c # None
                 PROVE  PageOf(T1, v) = IF c = pt /\ j3 = i3 THEN None ELSE T[c][j3]
      OBVIOUS
    <2>1. PageOf(T1, v) = T1[c][j3]
      BY <1>11 DEF PageOf, Entry, j3
    <2> QED
      BY <1>2, <1>3, <1>5, <2>1
  <1>14. j1 = i1 /\ j2 = i2 => c = pt
    <2> SUFFICES ASSUME j1 = i1, j2 = i2 PROVE c = pt
      OBVIOUS
    <2>1. a = pd
      BY <1>5
    <2> QED
      BY <1>3, <1>5, <2>1
  <1>15. j1 = i1 /\ j2 = i2 /\ j3 = i3 => PageOf(T1, v) = None
    BY <1>3, <1>13, <1>14
  <1>16. j1 # i1 \/ j2 # i2 \/ j3 # i3 => PageOf(T1, v) = PageOf(T, v)
    BY <1>5, <1>8, <1>12, <1>13
  <1> QED
    BY <1>15, <1>16 DEF j1, j2, j3

(* A fault maps the page at its address and no other. *)
LEMMA PathPages ==
    ASSUME NEW T, NEW U, Tree(T, U), NEW path, NEW at, IsPath(path, at, T, U),
           NEW T1, IsHung(T1, path, at, T, U),
           NEW page \in Nat, page < RegionPages, at[1] = 0,
           at[2] = PdpIndex(page), at[3] = PdIndex(page), at[4] = PtIndex(page),
           NEW v \in Nat, v < RegionPages
    PROVE  PageOf(T1, v) = IF v = page THEN path[5] ELSE PageOf(T, v)
  <1> DEFINE new == {path[n] : n \in 2 .. 5} \ U
             U1 == U \cup new
             pdp == path[2]
             pd == path[3]
             pt == path[4]
             i1 == at[2]
             i2 == at[3]
             i3 == at[4]
             j1 == PdpIndex(v)
             j2 == PdIndex(v)
             j3 == PtIndex(v)
  <1>1. Tree(T1, U1)
    BY PathHung
  <1>2. /\ i1 \in Index /\ i2 \in Index /\ i3 \in Index /\ 0 \in Index
        /\ j1 \in Index /\ j2 \in Index /\ j3 \in Index
    BY IndexInTable, RPositive DEF Index
  <1>3. 1 \in 1 .. 4 /\ 2 \in 1 .. 4 /\ 3 \in 1 .. 4 /\ 4 \in 1 .. 4
        /\ 1 + 1 = 2 /\ 2 + 1 = 3 /\ 3 + 1 = 4 /\ 4 + 1 = 5
    OBVIOUS
  <1>4. /\ path[1] = PML /\ pdp \in Phys /\ pd \in Phys /\ pt \in Phys /\ path[5] \in Phys
        /\ PML # pdp /\ PML # pd /\ PML # pt /\ pdp # pd /\ pdp # pt /\ pd # pt
    <2>1. \A n \in 2 .. 5 : path[n] \in Phys
      BY DEF IsPath
    <2>2. \A n, m \in 1 .. 5 : path[n] = path[m] => n = m
      BY DEF IsPath
    <2>3. path[1] = PML
      BY DEF IsPath
    <2> QED
      BY <2>1, <2>2, <2>3
  <1>5. /\ T1[PML][0] = pdp /\ T1[pdp][i1] = pd /\ T1[pd][i2] = pt /\ T1[pt][i3] = path[5]
    <2>1. \A n \in 1 .. 4 : T1[path[n]][at[n]] = path[n + 1]
      BY DEF IsHung
    <2> QED
      BY <1>3, <1>4, <2>1
  (* the same in T as far as the path is old *)
  <1>6. /\ pdp \in U => T[PML][0] = pdp
        /\ pd \in U => pdp \in U /\ T[pdp][i1] = pd
        /\ pt \in U => pd \in U /\ T[pd][i2] = pt
        /\ pdp \notin U => T[PML][0] = None
        /\ pdp \in U /\ pd \notin U => T[pdp][i1] = None
        /\ pd \in U /\ pt \notin U => T[pd][i2] = None
    <2>1. \A n \in 1 .. 4 : path[n + 1] \in U =>
             path[n] \in Inner(U) /\ T[path[n]][at[n]] = path[n + 1]
      BY DEF IsPath
    <2>2. \A n \in 1 .. 4 : path[n] \in Inner(U) /\ path[n + 1] \notin U =>
             T[path[n]][at[n]] = None
      BY DEF IsPath
    <2>3. \A x \in Phys : x \in Inner(U) <=> x \in U
      BY PagesApart DEF Inner
    <2>4. PML \in Inner(U)
      BY DEF Inner
    <2> QED
      BY <1>3, <1>4, <2>1, <2>2, <2>3, <2>4
  <1>7. U \subseteq Phys /\ new \subseteq Phys /\ U \subseteq Pages /\ new \cap U = {}
    BY DEF Tree, Typed, Pages, IsPath
  <1>8. pdp \notin U => pdp \in new
    BY <1>3
  <1>9. pd \notin U => pd \in new
    BY <1>3
  <1>10. pt \notin U => pt \in new
    BY <1>3
  (* entries beside the path *)
  <1>11. ASSUME NEW a \in U \cup new, NEW i \in Index,
                a # pdp \/ i # i1, a # pd \/ i # i2, a # pt \/ i # i3
         PROVE  (a \in U => T1[a][i] = T[a][i]) /\ (a \in new => T1[a][i] = None)
    <2>1. \A n \in 1 .. 4 : a # path[n] \/ i # at[n]
      <3> SUFFICES ASSUME NEW n \in 1 .. 4 PROVE a # path[n] \/ i # at[n]
        OBVIOUS
      <3>1. a # PML
        BY <1>7, PagesApart
      <3>2. n = 1 \/ n = 2 \/ n = 3 \/ n = 4
        OBVIOUS
      <3> QED
        BY <1>4, <1>11, <3>1, <3>2
    <2>2. a \in Pages
      BY <1>7 DEF Pages
    <2>3. T1[a][i] = IF a \in new THEN None ELSE T[a][i]
      BY <2>1, <2>2 DEF IsHung
    <2> QED
      BY <1>7, <2>3
  (* links from beside the path lead beside the path *)
  <1>12. ASSUME NEW a \in U, NEW i \in Index, T[a][i] \in U,
                a # pdp \/ i # i1, a # pd \/ i # i2, a # pt \/ i # i3
         PROVE  T[a][i] # pdp /\ T[a][i] # pd /\ T[a][i] # pt
    <2>1. T1[a][i] = T[a][i]
      BY <1>11, <1>12
    <2>2. /\ a \in Inner(U1) /\ PML \in Inner(U1)
          /\ pdp \in Inner(U1) /\ pd \in Inner(U1) /\ a # PML
      BY <1>7, <1>8, <1>9, PagesApart DEF Inner
    <2>3. \A b \in Inner(U1), j \in Index : T1[b][j] = T1[a][i] => b = a /\ j = i
      BY <1>1, <1>7, <1>12, <2>1, <2>2 DEF Tree, LinksRight
    <2>4. T[a][i] # pdp
      BY <1>2, <1>5, <2>1, <2>2, <2>3
    <2>5. T[a][i] # pd
      BY <1>2, <1>5, <1>12, <2>1, <2>2, <2>3
    <2>6. T[a][i] # pt
      BY <1>2, <1>5, <1>12, <2>1, <2>2, <2>3
    <2> QED
      BY <2>4, <2>5, <2>6
  <1>13. /\ PdpOf(T1) = pdp /\ pdp # None /\ pd # None /\ pt # None
         /\ PdOf(T1, v) = T1[pdp][j1]
    BY <1>4, <1>5, PagesApart DEF PdpOf, PdOf, Entry
  <1>14. /\ PdpOf(T) = T[PML][0] /\ PdpOf(T) \in U \cup {None}
         /\ PdpOf(T) = None => PdOf(T, v) = None
         /\ PdpOf(T) # None => PdOf(T, v) = T[PdpOf(T)][j1]
         /\ PdOf(T, v) \in U \cup {None}
         /\ PdOf(T, v) = None => PtOf(T, v) = None
         /\ PdOf(T, v) # None => PtOf(T, v) = T[PdOf(T, v)][j2]
         /\ PtOf(T, v) \in U \cup {None}
         /\ PtOf(T, v) = None => PageOf(T, v) = None
         /\ PtOf(T, v) # None => PageOf(T, v) = T[PtOf(T, v)][j3]
    BY OnTheWay
  <1>15. CASE v = page
    <2>1. j1 = i1 /\ j2 = i2 /\ j3 = i3
      BY <1>15
    <2>2. PdOf(T1, v) = pd
      BY <1>5, <1>13, <2>1
    <2>3. PtOf(T1, v) = pt
      BY <1>5, <1>13, <2>1, <2>2 DEF PtOf, Entry
    <2>4. PageOf(T1, v) = path[5]
      BY <1>5, <1>13, <2>1, <2>3 DEF PageOf, Entry
    <2> QED
      BY <1>15, <2>4
  <1> HIDE DEF new, U1, i1, i2, i3, pdp, pd, pt
  (* from a table beside the path on nothing has changed *)
  <1>16. ASSUME PdOf(T1, v) = PdOf(T, v), PdOf(T, v) # None, PdOf(T, v) # pdp,
                PdOf(T, v) # pd, PdOf(T, v) # pt
         PROVE  PageOf(T1, v) = PageOf(T, v)
    <2> DEFINE a == PdOf(T, v)
               c == PtOf(T, v)
    <2>1. a \in U /\ c = T[a][j2] /\ c \in U \cup {None}
      BY <1>14, <1>16
    <2>2. PtOf(T1, v) = T1[a][j2]
      BY <1>16 DEF PtOf, Entry
    <2>3. PtOf(T1, v) = c
      BY <1>2, <1>11, <1>16, <2>1, <2>2
    <2>4. CASE c = None
      BY <1>14, <2>3, <2>4 DEF PageOf, Entry
    <2>5. CASE c # None
      <3>1. c \in U /\ c # pdp /\ c # pd /\ c # pt
        BY <1>2, <1>12, <1>16, <2>1, <2>5
      <3>2. PageOf(T1, v) = T1[c][j3] /\ PageOf(T, v) = T[c][j3]
        BY <1>14, <2>3, <2>5 DEF PageOf, Entry
      <3> QED
        BY <1>2, <1>11, <3>1, <3>2
    <2> QED
      BY <2>4, <2>5
  <1>17. CASE j1 # i1
    <2>1. CASE pdp \notin U
      <3>1. PdOf(T1, v) = None
        BY <1>2, <1>4, <1>8, <1>11, <1>13, <1>17, <2>1
      <3>2. PageOf(T1, v) = None
        BY <3>1 DEF PageOf, PtOf, Entry
      <3>3. PageOf(T, v) = None
        BY <1>6, <1>14, <2>1
      <3> QED
        BY <1>15, <3>2, <3>3
    <2>2. CASE pdp \in U
      <3>1. PdpOf(T) = pdp /\ PdOf(T, v) = T[pdp][j1]
        BY <1>6, <1>13, <1>14, <2>2
      <3>2. PdOf(T1, v) = PdOf(T, v)
        BY <1>2, <1>4, <1>11, <1>13, <1>17, <2>2, <3>1
      <3>3. CASE PdOf(T, v) = None
        <4>1. PageOf(T1, v) = None /\ PageOf(T, v) = None
          BY <1>14, <3>2, <3>3 DEF PageOf, PtOf, Entry
        <4> QED
          BY <1>15, <4>1
      <3>4. CASE PdOf(T, v) # None
        <4>1. T[pdp][j1] \in U
          BY <1>14, <3>1, <3>4
        <4>2. PdOf(T, v) # pdp /\ PdOf(T, v) # pd /\ PdOf(T, v) # pt
          BY <1>2, <1>4, <1>12, <1>17, <2>2, <3>1, <4>1
        <4> QED
          BY <1>15, <1>16, <3>2, <3>4, <4>2
      <3> QED
        BY <3>3, <3>4
    <2> QED
      BY <2>1, <2>2
  <1>18. CASE j1 = i1 /\ j2 # i2
    <2>0. PdOf(T1, v) = pd /\ PtOf(T1, v) = T1[pd][j2]
      BY <1>5, <1>13, <1>18 DEF PtOf, Entry
    <2>1. CASE pd \notin U
      <3>1. PtOf(T1, v) = None
        BY <1>2, <1>4, <1>9, <1>11, <1>18, <2>0, <2>1
      <3>2. PageOf(T1, v) = None
        BY <3>1 DEF PageOf, Entry
      <3>3. PdOf(T, v) = None
        BY <1>6, <1>14, <1>18, <2>1
      <3>4. PageOf(T, v) = None
        BY <1>14, <3>3
      <3> QED
        BY <1>15, <3>2, <3>4
    <2>2. CASE pd \in U
      <3>1. PdpOf(T) = pdp /\ PdOf(T, v) = pd
        BY <1>6, <1>13, <1>14, <1>18, <2>2
      <3>2. PtOf(T, v) = T[pd][j2]
        BY <1>13, <1>14, <3>1
      <3>3. PtOf(T1, v) = PtOf(T, v)
        BY <1>2, <1>4, <1>11, <1>18, <2>0, <2>2, <3>2
      <3>4. CASE PtOf(T, v) = None
        <4>1. PageOf(T1, v) = None /\ PageOf(T, v) = None
          BY <1>14, <3>3, <3>4 DEF PageOf, Entry
        <4> QED
          BY <1>15, <4>1
      <3>5. CASE PtOf(T, v) # None
        <4> DEFINE c == PtOf(T, v)
        <4>1. c \in U /\ c # pdp /\ c # pd /\ c # pt
          BY <1>2, <1>4, <1>12, <1>14, <1>18, <2>2, <3>2, <3>5
        <4>2. PageOf(T1, v) = T1[c][j3] /\ PageOf(T, v) = T[c][j3]
          BY <1>14, <3>3, <3>5 DEF PageOf, Entry
        <4>3. T1[c][j3] = T[c][j3]
          BY <1>2, <1>11, <4>1
        <4> QED
          BY <1>15, <4>2, <4>3
      <3> QED
        BY <3>4, <3>5
    <2> QED
      BY <2>1, <2>2
  <1>19. CASE j1 = i1 /\ j2 = i2 /\ v # page
    <2>1. j3 # i3
      BY <1>19, SameIndices DEF i1, i2, i3
    <2>2. PdOf(T1, v) = pd
      BY <1>5, <1>13, <1>19
    <2>3. PtOf(T1, v) = pt
      BY <1>5, <1>13, <1>19, <2>2 DEF PtOf, Entry
    <2>4. PageOf(T1, v) = T1[pt][j3]
      BY <1>13, <2>3 DEF PageOf, Entry
    <2>5. CASE pt \notin U
      <3>1. PageOf(T1, v) = None
        BY <1>2, <1>4, <1>10, <1>11, <2>1, <2>4, <2>5
      <3>2. PtOf(T, v) = None
        BY <1>6, <1>14, <1>19, <2>5
      <3> QED
        BY <1>14, <1>19, <3>1, <3>2
    <2>6. CASE pt \in U
      <3>1. PdpOf(T) = pdp /\ PdOf(T, v) = pd
        BY <1>6, <1>13, <1>14, <1>19, <2>6
      <3>2. PtOf(T, v) = pt
        BY <1>6, <1>13, <1>14, <1>19, <2>6, <3>1
      <3>3. PageOf(T, v) = T[pt][j3]
        BY <1>13, <1>14, <3>2
      <3>4. T1[pt][j3] = T[pt][j3]
        BY <1>2, <1>4, <1>11, <2>1, <2>6
      <3> QED
        BY <1>19, <2>4, <3>3, <3>4
    <2> QED
      BY <2>5, <2>6
  <1> QED
    BY <1>15, <1>17, <1>18, <1>19

----------------------------------------------------------------------------
(* The way of a walk. *)

(* Until a walk comes to the end of a table, its indices are those of the   *)
(* page that it has got to.                                                 *)
OnTrack(w) ==
    /\ w.pdp_index = PdpIndex(w.start + w.pages_covered)
    /\ w.pd_index = PdIndex(w.start + w.pages_covered)
    /\ w.pt_index = PtIndex(w.start + w.pages_covered)

(* What it has passed of its region, all of it when the walk is over, is    *)
(* not mapped in tables T.                                                  *)
Cleared(w, T) ==
    \A v \in VPages :
        /\ w.start <= v /\ v < w.start + w.num_pages
        /\ Walking(w) => v < w.start + w.pages_covered
        => PageOf(T, v) = None

Track(w, T) ==
    /\ w.start \in Nat /\ w.num_pages \in Nat /\ w.pages_covered \in Int
    /\ Walking(w) => w.pages_covered \in Nat /\ (OnTrack(w) \/ w.pt_index = R)
    /\ Cleared(w, T)

TrackRight == walk # NoWalk /\ ~mem.ended => Track(walk, mem.tables)

(* A round that reaches an entry unmaps the page that the walk has got to,  *)
(* and changes no other translation.                                        *)
LEMMA RoundPages ==
    ASSUME HasFields(mem), TreeRight(mem), WalkRight, TrackRight, WalkRound,
           ~mem'.ended, Reach(walk) = "pte"
    PROVE  /\ OnTrack(walk)
           /\ \A v \in VPages : PageOf(mem'.tables, v) =
                 IF v = walk.start + walk.pages_covered THEN None
                 ELSE PageOf(mem.tables, v)
  <1> DEFINE T == mem.tables
             U == mem.used
             pdp == PdpAt
             pd == PdAt(walk)
             pt == PtAt(walk)
             i1 == walk.pdp_index
             i2 == walk.pd_index
             i3 == walk.pt_index
             page == T[pt][i3]
             u == walk.start + walk.pages_covered
             T1 == [T EXCEPT ![pt][i3] = None]
  <1>1. ~mem.ended /\ mem' = Visit(walk') /\ walk # NoWalk /\ Walking(walk)
        /\ walk' = Cascade(Descend(walk)) /\ Reach(walk) # "outside"
    BY RoundNotEnded DEF WalkRound
  <1>2. IsWalk(walk) /\ Track(walk, T) /\ Tree(T, U)
    BY <1>1 DEF WalkRight, TrackRight, TreeRight
  <1>3. walk'.pt_cur = At(pt, i3)
    BY <1>1, <1>2, RoundWalk
  <1>4. /\ pdp \in U /\ pd \in U /\ pt \in U /\ pdp # None /\ pd # None /\ pt # None
        /\ i1 \in Index /\ i2 \in Index /\ i3 \in Index
    <2>1. /\ pdp \in U /\ pd \in U /\ pt \in U /\ pdp # None /\ pd # None /\ pt # None
          /\ ~(i1 >= R) /\ ~(i2 >= R) /\ ~(i3 >= R)
      BY <1>1, ReachIs
    <2>2. i1 \in Nat /\ i2 \in Nat /\ i3 \in Nat
      BY <1>2 DEF IsWalk
    <2> HIDE DEF i1, i2, i3
    <2> QED
      BY <2>1, <2>2, RPositive DEF Index
  <1>5. T[PML][0] = pdp /\ T[pdp][i1] = pd /\ T[pd][i2] = pt
    BY <1>4 DEF PdpAt, PdAt, PtAt, PdpOf, Entry
  <1>6. OnTrack(walk) /\ u \in Nat
    <2>1. i3 # R
      <3> HIDE DEF i3
      <3> QED
        BY <1>4, RPositive DEF Index
    <2> QED
      BY <1>1, <1>2, <2>1 DEF Track
  <1>7. page \in U \cup {None}
    <2>1. page \in Phys \cup {None, Own}
      BY <1>2, <1>4 DEF Tree, Typed, Pages
    <2>2. page \in Phys => page \in U
      BY <1>2, <1>4 DEF Tree, LinksRight, Inner
    <2>3. page # Own
      <3> SUFFICES ASSUME page = Own PROVE FALSE
        OBVIOUS
      <3>1. T[PML][0] = pt
        BY <1>2, <1>4 DEF Tree, OwnRight, Inner
      <3>2. T[PML][0] = T[pd][i2] /\ T[pd][i2] \in Phys /\ 0 \in Index /\ PML \notin U
        BY <1>2, <1>4, <1>5, <3>1, RPositive, PagesApart DEF Tree, Typed, Index
      <3>3. PML = pd
        BY <1>2, <1>4, <3>2 DEF Tree, LinksRight, Inner
      <3> QED
        BY <1>4, <3>2, <3>3
    <2> QED
      BY <2>1, <2>2, <2>3
  <1>8. mem'.tables = T1
    <2>1. walk'.pt_cur.table = pt /\ walk'.pt_cur.index = i3
      BY <1>3 DEF At
    <2> DEFINE w == walk'
    <2> HIDE DEF w
    <2>2. mem' = Visit(w) /\ w.pt_cur.table = pt /\ w.pt_cur.index = i3
      BY <1>1, <2>1 DEF w
    <2>3. CASE page = None
      <3>1. Visit(w) = mem
        BY <2>2, <2>3 DEF Visit
      <3>2. T1 = T
        BY <1>2, <1>4, <2>3 DEF Tree, Typed, Pages
      <3> QED
        BY <2>2, <3>1, <3>2
    <2>4. CASE page \in U /\ page # None
      <3> DEFINE new == [mem EXCEPT !.tables[pt][i3] = None, !.used = @ \ {page}]
      <3>1. Visit(w) = new
        BY <2>2, <2>4 DEF Visit
      <3> HIDE DEF page, pt, i3
      <3>2. new.tables = T1
        BY DEF HasFields
      <3> HIDE DEF new
      <3> QED
        BY <2>2, <3>1, <3>2
    <2> QED
      BY <1>7, <2>3, <2>4
  <1> HIDE DEF T, U, pdp, pd, pt, page
  <1>9. ASSUME NEW v \in VPages
        PROVE  PageOf(mem'.tables, v) = IF v = u THEN None ELSE PageOf(T, v)
    <2>1. v \in Nat /\ v < RegionPages
      BY RegionAssumption DEF VPages
    <2>2. i1 = PdpIndex(u) /\ i2 = PdIndex(u) /\ i3 = PtIndex(u)
      BY <1>6 DEF OnTrack
    <2>3. /\ PdpIndex(v) = i1 /\ PdIndex(v) = i2 /\ PtIndex(v) = i3 =>
                PageOf(T1, v) = None
          /\ PdpIndex(v) # i1 \/ PdIndex(v) # i2 \/ PtIndex(v) # i3 =>
                PageOf(T1, v) = PageOf(T, v)
      <3> HIDE DEF T1, i1, i2, i3
      <3>1. T1 = [T EXCEPT ![pt][i3] = None]
        BY DEF T1
      <3> QED
        BY <1>2, <1>4, <1>5, <2>1, <3>1, VisitPages DEF T, U
    <2>4. CASE v = u
      BY <1>8, <2>2, <2>3, <2>4
    <2>5. CASE v # u
      <3>1. PdpIndex(v) # i1 \/ PdIndex(v) # i2 \/ PtIndex(v) # i3
        BY <1>6, <2>1, <2>2, <2>5, SameIndices
      <3> QED
        BY <1>8, <2>3, <2>5, <3>1
    <2> QED
      BY <2>4, <2>5
  <1> QED
    BY <1>6, <1>9 DEF T

(* A round that reaches an entry goes on to the next page of its region. *)
LEMMA TrackEntry ==
    ASSUME HasFields(mem), TreeRight(mem), WalkRight, TrackRight, WalkRound,
           ~mem'.ended, Reach(walk) = "pte"
    PROVE  Track(walk', mem'.tables)
  <1> DEFINE u == walk.start + walk.pages_covered
             d == Descend(walk)
             i3 == walk.pt_index
  <1>1. /\ ~mem.ended /\ walk # NoWalk /\ Walking(walk)
        /\ walk' = Cascade(d) /\ Reach(walk) # "outside"
    BY RoundNotEnded DEF WalkRound
  <1>2. IsWalk(walk) /\ Track(walk, mem.tables)
    BY <1>1 DEF WalkRight, TrackRight
  <1>3. /\ walk.start \in Nat /\ walk.num_pages \in Nat /\ walk.pages_covered \in Nat
        /\ u \in Nat /\ Cleared(walk, mem.tables)
    BY <1>1, <1>2 DEF Track
  <1>4. /\ OnTrack(walk)
        /\ \A v \in VPages : PageOf(mem'.tables, v) =
              IF v = u THEN None ELSE PageOf(mem.tables, v)
    BY RoundPages
  <1>5. i3 = PtIndex(u) /\ i3 \in Index
    BY <1>3, <1>4, IndicesAre DEF OnTrack
  <1>6. /\ walk'.start = walk.start /\ walk'.num_pages = walk.num_pages
        /\ walk'.pages_covered = walk.pages_covered + 1
    <2>1. Covered(walk) = 1
      BY DEF Covered
    <2> QED
      BY <1>1, <1>2, <2>1, RoundWalk
  <1>7. /\ IsWalk(d) /\ d.pt_index = i3 + 1
        /\ d.pd_index = walk.pd_index /\ d.pdp_index = walk.pdp_index
    BY <1>2, DescendIs
  <1>8. walk'.pt_index = i3 + 1 /\ ((i3 + 1) % R # 0 => walk' = d)
    BY <1>1, <1>7, CascadeIs
  <1> HIDE DEF i3, d
  <1>9. walk'.start + walk'.pages_covered = u + 1
    BY <1>3, <1>6
  <1>10. OnTrack(walk') \/ walk'.pt_index = R
    <2>1. CASE i3 + 1 = R
      BY <1>8, <2>1
    <2>2. CASE i3 + 1 # R
      <3>1. i3 + 1 \in 1 .. R - 1
        BY <1>5, <2>2, RPositive DEF Index
      <3>2. (i3 + 1) % R = i3 + 1
        BY <3>1, RPositive
      <3>3. walk' = d
        BY <1>8, <3>1, <3>2
      <3>4. u + 1 \in Nat /\ u <= u + 1 /\ u + 1 < u + (R - PtIndex(u))
        <4>1. u \in Nat /\ R \in Nat /\ i3 \in Nat /\ i3 + 1 <= R - 1
          BY <1>3, <1>5, <3>1, RPositive DEF Index
        <4> HIDE DEF u
        <4>2. u + 1 \in Nat /\ u <= u + 1 /\ u + 1 < u + (R - i3)
          BY <4>1
        <4> QED
          BY <1>5, <4>2
      <3>5. /\ PdpIndex(u + 1) = PdpIndex(u) /\ PdIndex(u + 1) = PdIndex(u)
            /\ PtIndex(u + 1) = PtIndex(u) + ((u + 1) - u)
        BY <1>3, <3>4, SameTable
      <3>6. PtIndex(u + 1) = i3 + 1
        <4>1. (u + 1) - u = 1
          BY <1>3
        <4> QED
          BY <1>5, <3>5, <4>1
      <3> QED
        BY <1>4, <1>7, <1>8, <1>9, <3>3, <3>5, <3>6 DEF OnTrack
    <2> QED
      BY <2>1, <2>2
  <1>11. Cleared(walk', mem'.tables)
    <2> SUFFICES ASSUME NEW v \in VPages, walk'.start <= v,
                        v < walk'.start + walk'.num_pages,
                        Walking(walk') => v < walk'.start + walk'.pages_covered
                 PROVE  PageOf(mem'.tables, v) = None
      BY DEF Cleared
    <2>0. walk.start <= v /\ v < walk.start + walk.num_pages /\ v < u + 1
      <3>1. CASE Walking(walk')
        BY <1>6, <1>9, <3>1
      <3>2. CASE ~Walking(walk')
        <4>1. v \in Nat
          BY RegionAssumption DEF VPages
        <4>2. walk.num_pages < walk.pages_covered + 1
          BY <1>3, <1>6, <3>2 DEF Walking
        <4> QED
          BY <1>3, <1>6, <4>1, <4>2
      <3> QED
        BY <3>1, <3>2
    <2>1. v < u \/ v = u
      <3>1. v \in Nat /\ u \in Nat
        BY <1>3, RegionAssumption DEF VPages
      <3> HIDE DEF u
      <3> QED
        BY <2>0, <3>1
    <2>2. v < u => PageOf(mem.tables, v) = None
      BY <1>1, <1>3, <2>0 DEF Cleared
    <2> QED
      BY <1>4, <2>1, <2>2
  <1> QED
    BY <1>3, <1>6, <1>10, <1>11 DEF Track

(* A round that finds a table missing and ends the walk has passed no page  *)
(* that is mapped.                                                          *)
LEMMA TrackAbsent ==
    ASSUME HasFields(mem), TreeRight(mem), WalkRight, TrackRight, WalkRound,
           ~mem'.ended, Reach(walk) # "pte"
    PROVE  Track(walk', mem'.tables)
  <1> DEFINE u == walk.start + walk.pages_covered
             c == Covered(walk)
             T == mem.tables
             i1 == walk.pdp_index
             i2 == walk.pd_index
             i3 == walk.pt_index
  <1>1. /\ ~mem.ended /\ walk # NoWalk /\ Walking(walk)
        /\ walk' = Cascade(Descend(walk)) /\ Reach(walk) # "outside"
        /\ mem'.tables = T /\ ~Walking(walk')
    BY RoundNotEnded DEF WalkRound
  <1>2. IsWalk(walk) /\ Track(walk, T) /\ Tree(T, mem.used)
    BY <1>1 DEF WalkRight, TrackRight, TreeRight
  <1>3. /\ walk.start \in Nat /\ walk.num_pages \in Nat /\ walk.pages_covered \in Nat
        /\ u \in Nat /\ Cleared(walk, T) /\ (OnTrack(walk) \/ i3 = R)
    BY <1>1, <1>2 DEF Track
  <1>4. /\ walk'.start = walk.start /\ walk'.num_pages = walk.num_pages
        /\ walk'.pages_covered = walk.pages_covered + c
    BY <1>1, <1>2, RoundWalk
  <1>5. /\ Reach(walk) \in {"no pdp", "no pd", "no pt"}
        /\ Reach(walk) = "no pdp" => PdpAt = None /\ c = (R - i1) * (R - i2) * (R - i3)
        /\ Reach(walk) = "no pd" => PdAt(walk) = None /\ c = (R - i2) * (R - i3)
        /\ Reach(walk) = "no pt" => PtAt(walk) = None /\ c = R - i3
    BY <1>1, ReachIs DEF Covered
  <1>6. i1 \in Nat /\ i2 \in Nat /\ i3 \in Nat /\ R \in Nat \ {0}
    BY <1>2, RPositive DEF IsWalk
  <1> HIDE DEF c
  <1>7. c \in Int /\ (i3 = R => c = 0)
    <2> HIDE DEF i1, i2, i3
    <2>1. (R - i1) \in Int /\ (R - i2) \in Int /\ (R - i3) \in Int
      BY <1>6
    <2>2. (R - i1) * (R - i2) \in Int /\ (R - i2) * (R - i3) \in Int
          /\ (R - i1) * (R - i2) * (R - i3) \in Int
      BY <2>1
    <2>3. ASSUME i3 = R PROVE c = 0
      <3>1. R - i3 = 0
        BY <1>6, <2>3
      <3>2. \A x \in Int : x * 0 = 0
        OBVIOUS
      <3>3. (R - i1) * (R - i2) * (R - i3) = 0 /\ (R - i2) * (R - i3) = 0
        BY <2>1, <2>2, <3>1, <3>2
      <3> QED
        BY <1>5, <3>1, <3>3
    <2> QED
      BY <1>5, <2>1, <2>2, <2>3
  <1>8. OnTrack(walk)
    <2> SUFFICES ASSUME i3 = R PROVE FALSE
      BY <1>3
    <2>1. walk'.pages_covered = walk.pages_covered
      BY <1>3, <1>4, <1>7
    <2> QED
      BY <1>1, <1>4, <2>1 DEF Walking
  <1>9. i1 = PdpIndex(u) /\ i2 = PdIndex(u) /\ i3 = PtIndex(u)
    BY <1>8 DEF OnTrack
  <1>10. walk'.start + walk'.pages_covered = u + c
    BY <1>3, <1>4, <1>7
  <1> HIDE DEF i1, i2, i3
  <1>11. ASSUME NEW v \in VPages, u <= v, v < u + c PROVE PageOf(T, v) = None
    <2>1. v \in Nat /\ v < RegionPages
      BY RegionAssumption DEF VPages
    <2>2. /\ PdpOf(T) = None => PdOf(T, v) = None
          /\ PdOf(T, v) = None => PtOf(T, v) = None
          /\ PtOf(T, v) = None => PageOf(T, v) = None
      BY <1>2, <2>1, OnTheWay
    <2>3. CASE Reach(walk) = "no pdp"
      BY <1>5, <2>2, <2>3 DEF PdpAt
    <2>4. CASE Reach(walk) = "no pd"
      <3>1. v < u + (R - PdIndex(u)) * (R - PtIndex(u))
        BY <1>5, <1>9, <1>11, <2>4
      <3>2. PdpIndex(v) = i1
        BY <1>3, <1>9, <1>11, <2>1, <3>1, SameDirectory
      <3>3. PdOf(T, v) = PdAt(walk)
        BY <3>2 DEF PdOf, PdAt, PdpAt, i1
      <3> QED
        BY <1>5, <2>2, <2>4, <3>3
    <2>5. CASE Reach(walk) = "no pt"
      <3>1. v < u + (R - PtIndex(u))
        BY <1>5, <1>9, <1>11, <2>5
      <3>2. PdpIndex(v) = i1 /\ PdIndex(v) = i2
        BY <1>3, <1>9, <1>11, <2>1, <3>1, SameTable
      <3>3. PtOf(T, v) = PtAt(walk)
        BY <3>2 DEF PtOf, PdOf, PtAt, PdAt, PdpAt, i1, i2
      <3> QED
        BY <1>5, <2>2, <2>5, <3>3
    <2> QED
      BY <1>5, <2>3, <2>4, <2>5
  <1>12. Cleared(walk', T)
    <2> SUFFICES ASSUME NEW v \in VPages, walk'.start <= v,
                        v < walk'.start + walk'.num_pages
                 PROVE  PageOf(T, v) = None
      BY DEF Cleared
    <2>a. /\ walk.start <= v /\ v < walk.start + walk.num_pages
          /\ v \in Nat /\ v < RegionPages
      BY <1>4, RegionAssumption DEF VPages
    <2>b. CASE Reach(walk) = "no pdp"
      <3>1. PdpOf(T) = None
        BY <1>5, <2>b DEF PdpAt
      <3>2. /\ PdpOf(T) = None => PdOf(T, v) = None
            /\ PdOf(T, v) = None => PtOf(T, v) = None
            /\ PtOf(T, v) = None => PageOf(T, v) = None
        BY <1>2, <2>a, OnTheWay
      <3> QED
        BY <3>1, <3>2
    <2>c. CASE Reach(walk) # "no pdp"
      <3>1. R - i2 \in Nat /\ R - i3 \in Nat
        <4>1. i2 \in Index /\ i3 \in Index
          BY <1>3, <1>9, IndicesAre
        <4> QED
          BY <4>1, RPositive DEF Index
      <3>2. c \in Nat
        <4>1. (R - i2) * (R - i3) \in Nat
          BY <3>1
        <4> QED
          BY <1>5, <2>c, <3>1, <4>1
      <3>3. walk.num_pages < walk.pages_covered + c
        BY <1>1, <1>3, <1>4, <3>2 DEF Walking
      <3>4. v < u + c
        BY <1>3, <2>a, <3>2, <3>3
      <3>5. v < u \/ u <= v
        <4>1. v \in Nat /\ u \in Nat
          BY <1>3, <2>a
        <4> HIDE DEF u
        <4> QED
          BY <4>1
      <3>6. v < u => PageOf(T, v) = None
        BY <1>1, <1>3, <2>a DEF Cleared
      <3> QED
        BY <1>11, <3>4, <3>5, <3>6
    <2> QED
      BY <2>b, <2>c
  <1>13. walk'.pages_covered \in Int
    BY <1>3, <1>4, <1>7
  <1> QED
    BY <1>1, <1>3, <1>4, <1>12, <1>13 DEF Track

(* A walk starts on its way. *)
LEMMA WalkFromTrack ==
    ASSUME NEW node \in Node, NEW deinit, NEW T
    PROVE  /\ Track(WalkFrom(node, deinit), T)
           /\ WalkFrom(node, deinit).start = node.start
           /\ WalkFrom(node, deinit).num_pages = node.size
  <1> DEFINE w == WalkFrom(node, deinit)
             s == node.start
  <1>1. s \in Nat /\ node.size \in Nat
    BY RegionAssumption DEF Node
  <1>2. /\ w.start = s /\ w.num_pages = node.size /\ w.pages_covered = 0
        /\ w.pdp_index = PdpIndex(s) /\ w.pd_index = PdIndex(s) /\ w.pt_index = PtIndex(s)
    BY DEF WalkFrom
  <1> HIDE DEF w, s
  <1>3. w.start + w.pages_covered = s
    BY <1>1, <1>2
  <1>4. OnTrack(w)
    BY <1>2, <1>3 DEF OnTrack
  <1>5. Cleared(w, T)
    <2>2. Walking(w)
      BY <1>1, <1>2 DEF Walking
    <2> SUFFICES ASSUME NEW v \in VPages, s <= v, v < s PROVE FALSE
      BY <1>2, <1>3, <2>2 DEF Cleared
    <2>1. v \in Nat
      BY RegionAssumption DEF VPages
    <2> QED
      BY <1>1, <2>1
  <1> QED
    BY <1>1, <1>2, <1>4, <1>5 DEF Track, w, s

(* the node that petmem_free_vspace finds *)
LEMMA FreedNode ==
    ASSUME MapInv, NEW page, Freeable(page) # {}
    PROVE  /\ Min(Freeable(page)) \in 1 .. Len(map) /\ map[Min(Freeable(page))] \in Node
  <1>1. Freeable(page) \subseteq 1 .. Len(map) /\ map \in Seq(Node) /\ Len(map) \in Nat
    BY DEF Freeable, MapInv, MapTypeOK, Node
  <1>2. Freeable(page) \in SUBSET Nat
    BY <1>1
  <1>3. Min(Freeable(page)) \in 1 .. Len(map)
    BY <1>1, <1>2, MinIsLeast
  <1> QED
    BY <1>1, <1>3

(* TrackRight is inductive, next to the tree. *)
LEMMA TrackRightStep ==
    ASSUME MapInv, HasFields(mem), TreeRight(mem), WalkRight, TrackRight, [Next]_vars
    PROVE  TrackRight'
  <1> SUFFICES ASSUME walk' # NoWalk, ~mem'.ended PROVE Track(walk', mem'.tables)
    BY DEF TrackRight, Track, Cleared, OnTrack, Walking
  <1>1. CASE WalkRound
    BY <1>1, TrackEntry, TrackAbsent
  <1>2. ASSUME NEW page, FreeVspace(page) PROVE Track(walk', mem'.tables)
    <2>1. Freeable(page) # {} /\ walk' = WalkFrom(map[Min(Freeable(page))], "no")
      BY <1>2 DEF FreeVspace, LazyFree
    <2> QED
      BY <2>1, FreedNode, WalkFromTrack
  <1>3. CASE DeinitAllocated
    <2>1. map # <<>> /\ map \in Seq(Node)
      BY <1>3 DEF DeinitAllocated, MapInv, MapTypeOK, Node
    <2>2. map[1] \in Node
      BY <2>1
    <2> QED
      BY <1>3, <2>2, WalkFromTrack DEF DeinitAllocated
  <1>4. CASE WalkOutside
    <2> DEFINE m == [mem EXCEPT !.harm = "outside"]
    <2>1. m.tables = mem.tables /\ m.ended = mem.ended
      BY DEF HasFields
    <2>2. mem' = m /\ walk' = walk
      BY <1>4 DEF WalkOutside
    <2> HIDE DEF m
    <2> QED
      BY <2>1, <2>2 DEF TrackRight
  <1>5. CASE UNCHANGED vars
    BY <1>5 DEF vars, TrackRight
  <1>6. WalkEnds => walk' = NoWalk
    BY DEF WalkEnds
  <1>7. ASSUME NEW n \in Sizes, Allocate(n) PROVE walk' = NoWalk
    BY <1>7 DEF Allocate, Idle
  <1>8. ASSUME NEW page \in Touched,
               \/ HandlePagefault(page)
               \/ PagefaultNoMemory(page)
               \/ \E error_code \in {1, 2} : PagefaultRefused(page, error_code)
        PROVE  walk' = NoWalk
    BY <1>8 DEF HandlePagefault, PagefaultNoMemory, PagefaultRefused, Idle
  <1>9. CloseFile \/ DeinitFree \/ DeinitDone => walk' = NoWalk
    BY DEF CloseFile, DeinitFree, DeinitDone, Idle
  <1> QED
    BY <1>1, <1>2, <1>3, <1>4, <1>5, <1>6, <1>7, <1>8, <1>9 DEF Next

(* A fault maps the page touched to one that is fresh, and no other. *)
FaultMaps(page, p) ==
    /\ walk = NoWalk /\ page \in VPages /\ p \in Phys \ mem.used
    /\ ~mem.ended /\ PageOf(mem.tables, page) = None /\ FindAddress(page) # {}
    /\ UNCHANGED <<mapVars, walk>>
    /\ \A v \in VPages : PageOf(mem'.tables, v) =
          IF v = page THEN p ELSE PageOf(mem.tables, v)

(* A round unmaps the page it has got to, at most, and no other. *)
RoundUnmaps ==
    /\ walk # NoWalk /\ walk' # NoWalk /\ Walking(walk)
    /\ walk'.start = walk.start /\ walk'.num_pages = walk.num_pages
    /\ walk.start \in Nat /\ walk.num_pages \in Nat /\ walk.pages_covered \in Nat
    /\ ~mem.ended /\ UNCHANGED mapVars
    /\ \A v \in VPages : PageOf(mem'.tables, v) = PageOf(mem.tables, v)
          \/ (v = walk.start + walk.pages_covered /\ PageOf(mem'.tables, v) = None)

(* The fault handler does FaultMaps. *)
LEMMA FaultStep ==
    ASSUME TreeRight(mem), NEW page \in Touched, HandlePagefault(page), ~mem'.ended
    PROVE  \E p : FaultMaps(page, p)
  <1>1. /\ walk = NoWalk /\ PageOf(mem.tables, page) = None /\ FindAddress(page) # {}
        /\ Cardinality(FreePages) >= 4 /\ UNCHANGED <<mapVars, walk>>
        /\ mem' = IF TablesOf(page) \subseteq mem.used THEN Mapped(page)
                  ELSE [mem EXCEPT !.harm = "outside"]
    BY DEF HandlePagefault, Idle
  <1>2. page \in VPages /\ page \in Nat /\ page < RegionPages
    BY TablesAssumption, RegionAssumption DEF VPages
  <1>3. ~mem.ended
    <2>1. Mapped(page).ended = mem.ended
      BY DEF Mapped
    <2>2. CASE mem' = Mapped(page)
      BY <2>1, <2>2
    <2>3. CASE mem' = [mem EXCEPT !.harm = "outside"]
      BY <2>3
    <2> QED
      BY <1>1, <2>2, <2>3
  <1>4. Tree(mem.tables, mem.used)
    BY <1>3 DEF TreeRight
  <1>5. TablesOf(page) \subseteq mem.used /\ mem' = Mapped(page)
    BY <1>1, <1>2, <1>4, TablesInUse
  <1>6. PICK path, at :
           /\ IsPath(path, at, mem.tables, mem.used)
           /\ IsHung(Mapped(page).tables, path, at, mem.tables, mem.used)
           /\ at[1] = 0 /\ at[2] = PdpIndex(page) /\ at[3] = PdIndex(page)
           /\ at[4] = PtIndex(page) /\ path[5] \notin mem.used
    BY <1>1, <1>2, <1>4, <1>5, FaultHangs
  <1>7. path[5] \in Phys
    BY <1>6 DEF IsPath
  <1>8. ASSUME NEW v \in VPages
        PROVE  PageOf(mem'.tables, v) =
                  IF v = page THEN path[5] ELSE PageOf(mem.tables, v)
    <2>1. v \in Nat /\ v < RegionPages
      BY RegionAssumption DEF VPages
    <2> QED
      BY <1>2, <1>4, <1>5, <1>6, <2>1, PathPages
  <1> QED
    BY <1>1, <1>2, <1>3, <1>6, <1>7, <1>8 DEF FaultMaps

(* A round does RoundUnmaps. *)
LEMMA RoundStep ==
    ASSUME HasFields(mem), TreeRight(mem), WalkRight, TrackRight, WalkRound, ~mem'.ended
    PROVE  RoundUnmaps
  <1>1. /\ ~mem.ended /\ walk # NoWalk /\ Walking(walk) /\ UNCHANGED mapVars
        /\ walk' = Cascade(Descend(walk)) /\ Reach(walk) # "outside"
    BY RoundNotEnded DEF WalkRound
  <1>2. IsWalk(walk) /\ Track(walk, mem.tables)
    BY <1>1 DEF WalkRight, TrackRight
  <1>3. walk.start \in Nat /\ walk.num_pages \in Nat /\ walk.pages_covered \in Nat
    BY <1>1, <1>2 DEF Track
  <1>4. /\ IsWalk(walk') /\ walk'.start = walk.start /\ walk'.num_pages = walk.num_pages
    BY <1>1, <1>2, RoundWalk
  <1>5. walk' # NoWalk
    BY <1>4, IsWalkApart
  <1>6. \A v \in VPages : PageOf(mem'.tables, v) = PageOf(mem.tables, v)
           \/ (v = walk.start + walk.pages_covered /\ PageOf(mem'.tables, v) = None)
    <2>1. CASE Reach(walk) = "pte"
      BY <2>1, RoundPages
    <2>2. CASE Reach(walk) # "pte"
      BY <2>2, RoundNotEnded
    <2> QED
      BY <2>1, <2>2
  <1> QED
    BY <1>1, <1>3, <1>4, <1>5, <1>6 DEF RoundUnmaps

----------------------------------------------------------------------------
(* What is mapped is held. *)

(* An allocation takes no page out of a region that holds it. *)
LEMMA AllocKeeps ==
    ASSUME MapInv, NEW n \in Nat, NEW i \in DOMAIN map, AllocAt(i, n),
           NEW v, FindAddress(v) # {}
    PROVE  FindAddress(v)' # {}
  <1>1. /\ map \in Seq(Node) /\ map' \in Seq(Node) /\ i \in 1 .. Len(map)
        /\ Len(map) \in Nat /\ Len(map') = Len(map) + 1
        /\ DOMAIN map = 1 .. Len(map) /\ DOMAIN map' = 1 .. Len(map) + 1
    BY DEF MapInv, MapTypeOK, Node, AllocAt
  <1>2. PICK k \in 1 .. Len(map) : map[k].allocated /\ v >= map[k].start
                                   /\ v < map[k].start + map[k].size
    BY <1>1 DEF FindAddress
  <1>3. k # i
    BY <1>2 DEF AllocAt, Fits
  <1>4. \E j \in DOMAIN map' : map'[j] = map[k]
    <2>1. CASE k < i
      <3>1. k \in 1 .. i - 1 /\ k \in DOMAIN map'
        BY <1>1, <2>1
      <3> QED
        BY <3>1 DEF AllocAt
    <2>2. CASE k > i
      <3>1. k + 1 \in i + 2 .. Len(map) + 1 /\ k + 1 \in DOMAIN map' /\ k + 1 - 1 = k
        BY <1>1, <2>2
      <3> QED
        BY <3>1 DEF AllocAt
    <2> QED
      BY <1>1, <1>3, <2>1, <2>2
  <1> QED
    BY <1>2, <1>4 DEF FindAddress

(* A free takes only the pages of its own region away. *)
LEMMA FreeKeeps ==
    ASSUME MapInv, NEW i \in Nat, NEW lo \in Nat, NEW hi \in Nat, FreeAt(i, lo, hi),
           NEW v, FindAddress(v) # {},
           ~(v >= map[i].start /\ v < map[i].start + map[i].size)
    PROVE  FindAddress(v)' # {}
  <1> DEFINE d == hi - lo
  <1>1. map \in Seq(Node) /\ Len(map) \in Nat /\ DOMAIN map = 1 .. Len(map)
    BY DEF MapInv, MapTypeOK, Node
  <1>2. /\ map' \in Seq(Node) /\ i \in 1 .. Len(map) /\ Len(map') = Len(map) - d
        /\ lo \in 1 .. i /\ hi \in i .. Len(map) /\ lo >= i - 1 /\ hi <= i + 1
        /\ lo # i => ~map[lo].allocated
        /\ hi # i => ~map[hi].allocated
    BY <1>1 DEF FreeAt
  <1>3. DOMAIN map' = 1 .. Len(map) - d
    BY <1>2
  <1>4. PICK k \in 1 .. Len(map) : map[k].allocated /\ v >= map[k].start
                                   /\ v < map[k].start + map[k].size
    BY <1>1 DEF FindAddress
  <1>5. k # i /\ k # lo /\ k # hi
    BY <1>2, <1>4
  <1>6. \E j \in DOMAIN map' : map'[j] = map[k]
    <2>1. CASE k < lo
      <3>1. k \in 1 .. lo - 1 /\ k \in DOMAIN map'
        BY <1>1, <1>2, <1>3, <2>1
      <3> QED
        BY <3>1 DEF FreeAt
    <2>2. CASE k > hi
      <3>1. k - d \in lo + 1 .. Len(map) - d /\ k - d \in DOMAIN map' /\ k - d + d = k
        BY <1>1, <1>2, <1>3, <2>2
      <3>2. map'[k - d] = map[k - d + d]
        BY <3>1 DEF FreeAt
      <3> QED
        BY <3>1, <3>2
    <2> QED
      BY <1>1, <1>2, <1>5, <2>1, <2>2
  <1> QED
    BY <1>4, <1>6 DEF FindAddress

InWalk(v) == walk # NoWalk /\ walk.start <= v /\ v < walk.start + walk.num_pages

(* A page is mapped only while a region holds it or a walk is on its way    *)
(* to it.                                                                   *)
PagesHeld ==
    ~mem.ended /\ file = "open" =>
        \A v \in VPages : PageOf(mem.tables, v) # None => FindAddress(v) # {} \/ InWalk(v)

(* PagesHeld is inductive, next to the others. *)
LEMMA PagesHeldStep ==
    ASSUME MapInv, HasFields(mem), TreeRight(mem), WalkRight, TrackRight, PagesHeld,
           [Next]_vars
    PROVE  PagesHeld'
  <1> SUFFICES ASSUME ~mem'.ended, file' = "open", NEW v \in VPages,
                      PageOf(mem'.tables, v) # None
               PROVE  FindAddress(v)' # {} \/ InWalk(v)'
    BY DEF PagesHeld, VPages, PageOf, PtOf, PdOf, PdpOf, Entry, PdpIndex, PdIndex, PtIndex
  <1>1. ASSUME file = "open", ~mem.ended, PageOf(mem.tables, v) # None
        PROVE  FindAddress(v) # {} \/ InWalk(v)
    BY <1>1 DEF PagesHeld
  <1>2. CASE WalkRound
    <2>1. RoundUnmaps
      BY <1>2, RoundStep
    <2>2. file = "open" /\ map' = map
      BY <2>1 DEF RoundUnmaps, mapVars
    <2>3. PageOf(mem.tables, v) # None /\ ~mem.ended
      BY <2>1 DEF RoundUnmaps
    <2>4. FindAddress(v)' = FindAddress(v)
      BY <2>2 DEF FindAddress
    <2>5. InWalk(v) => InWalk(v)'
      BY <2>1 DEF RoundUnmaps, InWalk
    <2> QED
      BY <1>1, <2>2, <2>3, <2>4, <2>5
  <1>3. ASSUME NEW page \in Touched, HandlePagefault(page)
        PROVE  FindAddress(v)' # {} \/ InWalk(v)'
    <2>1. PICK p : FaultMaps(page, p)
      BY <1>3, FaultStep
    <2>2. file = "open" /\ map' = map /\ ~mem.ended /\ walk = NoWalk
      BY <2>1 DEF FaultMaps, mapVars
    <2>3. FindAddress(v)' = FindAddress(v)
      BY <2>2 DEF FindAddress
    <2>4. CASE v = page
      BY <2>1, <2>3, <2>4 DEF FaultMaps
    <2>5. CASE v # page
      <3>1. PageOf(mem.tables, v) # None
        BY <2>1, <2>5 DEF FaultMaps
      <3> QED
        BY <1>1, <2>2, <2>3, <3>1 DEF InWalk
    <2> QED
      BY <2>4, <2>5
  <1>4. ASSUME mem'.tables = mem.tables, mem'.ended = mem.ended, walk' = walk, map' = map,
               file = "open"
        PROVE  FindAddress(v)' # {} \/ InWalk(v)'
    <2>1. (FindAddress(v)' = FindAddress(v)) /\ (InWalk(v)' = InWalk(v))
      BY <1>4 DEF FindAddress, InWalk
    <2> QED
      BY <1>1, <1>4, <2>1
  <1>5. ASSUME NEW page \in Touched,
               \/ PagefaultNoMemory(page)
               \/ \E error_code \in {1, 2} : PagefaultRefused(page, error_code)
        PROVE  FindAddress(v)' # {} \/ InWalk(v)'
    <2> DEFINE m == [mem EXCEPT !.harm = "no memory"]
    <2>1. m.tables = mem.tables /\ m.ended = mem.ended
      BY DEF HasFields
    <2>2. \A e : ~PagefaultRefused(page, e)
      BY DEF PagefaultRefused
    <2>3. mem' = m /\ walk' = walk /\ map' = map /\ file = "open"
      BY <1>5, <2>2 DEF PagefaultNoMemory, mapVars
    <2> HIDE DEF m
    <2> QED
      BY <1>4, <2>1, <2>3
  <1>6. CASE WalkOutside
    <2> DEFINE m == [mem EXCEPT !.harm = "outside"]
    <2>1. m.tables = mem.tables /\ m.ended = mem.ended
      BY DEF HasFields
    <2>2. mem' = m /\ walk' = walk /\ map' = map /\ file = "open"
      BY <1>6 DEF WalkOutside, mapVars
    <2> HIDE DEF m
    <2> QED
      BY <1>4, <2>1, <2>2
  <1>7. CASE WalkEnds
    <2>1. /\ walk # NoWalk /\ ~Walking(walk) /\ mem' = mem /\ file = "open"
          /\ walk.deinit = "no" => map' = map
      BY <1>7 DEF WalkEnds
    <2>2. map' = map
      BY <2>1 DEF WalkRight
    <2>3. Track(walk, mem.tables)
      BY <2>1 DEF TrackRight
    <2>4. ~InWalk(v)
      <3> SUFFICES ASSUME InWalk(v) PROVE FALSE
        OBVIOUS
      <3>1. walk.start <= v /\ v < walk.start + walk.num_pages
        BY DEF InWalk
      <3>3. PageOf(mem.tables, v) = None
        BY <2>1, <2>3, <3>1 DEF Track, Cleared
      <3> QED
        BY <2>1, <3>3
    <2>5. FindAddress(v)' = FindAddress(v)
      BY <2>2 DEF FindAddress
    <2> QED
      BY <1>1, <2>1, <2>4, <2>5
  <1>8. ASSUME NEW n \in Sizes, Allocate(n)
        PROVE  FindAddress(v)' # {} \/ InWalk(v)'
    <2>1. file = "open" /\ MapAlloc(n) /\ mem' = mem /\ walk = NoWalk /\ n \in Nat
      BY <1>8, SizesAssumption DEF Allocate, LazyAlloc, Idle
    <2>2. PICK i \in DOMAIN map : AllocAt(i, n)
      BY <2>1, AllocMap DEF MapInv
    <2>3. FindAddress(v) # {}
      BY <1>1, <2>1 DEF InWalk
    <2> QED
      BY <2>1, <2>2, <2>3, AllocKeeps
  <1>9. ASSUME NEW page, FreeVspace(page)
        PROVE  FindAddress(v)' # {} \/ InWalk(v)'
    <2> DEFINE node == map[Min(Freeable(page))]
    <2>1. /\ file = "open" /\ Freeable(page) # {} /\ mem' = mem /\ walk = NoWalk
          /\ map' = Freed(Min(Freeable(page))) /\ walk' = WalkFrom(node, "no")
      BY <1>9 DEF FreeVspace, LazyFree, Idle
    <2>2. PICK i \in Nat, lo \in Nat, hi \in Nat :
             i = Min(Freeable(page)) /\ FreeAt(i, lo, hi)
      BY <2>1, FreeMap
    <2>3. FindAddress(v) # {}
      BY <1>1, <2>1 DEF InWalk
    <2>4. node \in Node
      BY <2>1, FreedNode
    <2>5. walk'.start = node.start /\ walk'.num_pages = node.size /\ walk' # NoWalk
      BY <2>1, <2>4, WalkFromTrack, WalkFromIs
    <2> HIDE DEF node
    <2>6. node = map[i]
      BY <2>2 DEF node
    <2>7. CASE v >= node.start /\ v < node.start + node.size
      <3>1. node.start <= v
        <4>1. node.start \in Nat /\ v \in Nat
          BY <2>4, RegionAssumption DEF Node, VPages
        <4> QED
          BY <2>7, <4>1
      <3> QED
        BY <2>5, <2>7, <3>1 DEF InWalk
    <2>8. CASE ~(v >= node.start /\ v < node.start + node.size)
      <3>1. ~(v >= map[i].start /\ v < map[i].start + map[i].size)
        BY <2>6, <2>8
      <3> QED
        BY <2>2, <2>3, <3>1, FreeKeeps
    <2> QED
      BY <2>7, <2>8
  <1>10. ~(CloseFile \/ DeinitDone \/ DeinitAllocated \/ DeinitFree)
    BY DEF CloseFile, Close, DeinitDone, CloseDone, DeinitAllocated, DeinitFree, CloseNode
  <1>11. CASE UNCHANGED vars
    BY <1>4, <1>11 DEF vars, mapVars
  <1> QED
    BY <1>2, <1>3, <1>5, <1>6, <1>7, <1>8, <1>9, <1>10, <1>11 DEF Next

(* The invariant with the way of a walk and what is mapped. *)
PagingInv == DemandInv /\ TrackRight /\ PagesHeld

(* It holds at the start: the program's own PD is outside the range. *)
LEMMA PagingInit == Init => PagingInv
  <1> SUFFICES ASSUME Init PROVE PagingInv
    OBVIOUS
  <1>1. DemandInv
    BY DemandInit
  <1>2. TrackRight
    BY DEF Init, TrackRight
  <1>3. PagesHeld
    <2> SUFFICES ASSUME NEW v \in VPages PROVE PageOf(mem.tables, v) = None
      BY DEF PagesHeld
    <2>1. PICK own \in BOOLEAN :
             mem = [tables |-> [p \in {PML} \cup Phys |->
                               IF own /\ p = PML THEN [Empty EXCEPT ![0] = 1]
                               ELSE IF own /\ p = 1 THEN [Empty EXCEPT ![0] = Own]
                               ELSE Empty],
                    used |-> IF own THEN {1} ELSE {},
                    harm |-> "none", ended |-> FALSE]
      BY DEF Init
    <2>2. ~mem.ended
      BY <2>1
    <2>3. Tree(mem.tables, mem.used)
      BY <1>1, <2>2 DEF DemandInv, TreeRight
    <2>4. v \in Nat /\ v < RegionPages
      BY RegionAssumption DEF VPages
    <2>5. /\ PdpIndex(v) \in Index
          /\ PdpOf(mem.tables) = mem.tables[PML][0]
          /\ PdpOf(mem.tables) = None => PdOf(mem.tables, v) = None
          /\ PdpOf(mem.tables) # None =>
                PdOf(mem.tables, v) = mem.tables[PdpOf(mem.tables)][PdpIndex(v)]
          /\ PdOf(mem.tables, v) = None => PageOf(mem.tables, v) = None
      BY <2>3, <2>4, OnTheWay
    <2>6. PdpIndex(v) # 0
      <3> DEFINE a == (v \div R) \div R
      <3>1. a \in Nat /\ PdpIndex(v) = FirstPDP + a
        BY <2>4, IndicesAre
      <3> HIDE DEF a
      <3> QED
        BY <3>1, TablesAssumption
    <2>7. 1 \in Phys /\ PML # 1 /\ 0 \in 0 .. R - 1 /\ Index = 0 .. R - 1
      BY TablesAssumption, RPositive DEF Phys, PML, Index
    <2>8. CASE own
      <3>1. mem.tables[PML] = [Empty EXCEPT ![0] = 1]
            /\ mem.tables[1] = [Empty EXCEPT ![0] = Own]
        BY <2>1, <2>7, <2>8
      <3>2. mem.tables[PML][0] = 1 /\ mem.tables[1][PdpIndex(v)] = None
        BY <2>5, <2>6, <2>7, <3>1 DEF Empty
      <3>3. 1 # None
        BY DEF None
      <3> QED
        BY <2>5, <3>2, <3>3
    <2>9. CASE ~own
      <3>1. mem.tables[PML] = Empty
        BY <2>1, <2>9
      <3> QED
        BY <2>5, <2>7, <3>1 DEF Empty
    <2> QED
      BY <2>8, <2>9
  <1> QED
    BY <1>1, <1>2, <1>3 DEF PagingInv

(* It is inductive. *)
LEMMA PagingStep == PagingInv /\ [Next]_vars => PagingInv'
  <1> SUFFICES ASSUME PagingInv, [Next]_vars PROVE PagingInv'
    OBVIOUS
  <1>1. DemandInv /\ TrackRight /\ PagesHeld
    BY DEF PagingInv
  <1>2. MapInv /\ WalkRight /\ HasFields(mem) /\ TreeRight(mem)
    BY <1>1 DEF DemandInv
  <1>3. DemandInv'
    BY <1>1, DemandStep
  <1>4. TrackRight' /\ PagesHeld'
    BY <1>1, <1>2, TrackRightStep, PagesHeldStep
  <1> QED
    BY <1>3, <1>4 DEF PagingInv

(* Once petmem_free_vspace has returned the process can reach none of the   *)
(* pages it freed: between calls a page is mapped only while a region of    *)
(* the map holds it, until a free has come to the end of a table or gone on *)
(* behind a missing one.                                                    *)
THEOREM DemandMappedOnlyIfHeld == Spec => []MappedOnlyIfHeld
  <1>1. PagingInv => MappedOnlyIfHeld
    BY DEF PagingInv, PagesHeld, MappedOnlyIfHeld, Idle, InWalk
  <1> QED
    BY <1>1, PagingInit, PagingStep, PTL DEF Spec

(* A page fault maps the page touched, to a fresh one, and disturbs no      *)
(* other; a round of petmem_free_vspace's loop unmaps at most one page, of  *)
(* the region that is freed or the one behind it.                           *)
THEOREM DemandChangesAreLocal == Spec => ChangesAreLocal
  <1> DEFINE changed == {v \in VPages :
                            PageOf(mem'.tables, v) # PageOf(mem.tables, v)}
             Local == ~mem'.ended =>
                /\ walk # NoWalk => \A v \in changed :
                      v \in walk.start .. walk.start + walk.num_pages
                /\ walk = NoWalk => \A v \in changed :
                      /\ PageOf(mem.tables, v) = None
                      /\ PageOf(mem'.tables, v) \notin mem.used
                      /\ changed = {v}
  <1>1. PagingInv /\ [Next]_vars => [Local]_vars
    <2> SUFFICES ASSUME PagingInv, Next, ~mem'.ended
                 PROVE  /\ walk # NoWalk => \A v \in changed :
                              v \in walk.start .. walk.start + walk.num_pages
                        /\ walk = NoWalk => \A v \in changed :
                              /\ PageOf(mem.tables, v) = None
                              /\ PageOf(mem'.tables, v) \notin mem.used
                              /\ changed = {v}
      OBVIOUS
    <2>1. /\ MapInv /\ WalkRight /\ HasFields(mem) /\ TreeRight(mem)
          /\ TrackRight /\ PagesHeld
      BY DEF PagingInv, DemandInv
    <2>2. CASE mem'.tables = mem.tables
      <3>1. changed = {}
        BY <2>2
      <3> QED
        BY <3>1
    <2>3. CASE WalkRound
      <3>1. RoundUnmaps
        BY <2>1, <2>3, RoundStep
      <3>2. \A v \in changed : v = walk.start + walk.pages_covered
        BY <3>1 DEF RoundUnmaps
      <3>3. walk.start + walk.pages_covered \in walk.start .. walk.start + walk.num_pages
        BY <3>1 DEF RoundUnmaps, Walking
      <3> QED
        BY <3>1, <3>2, <3>3 DEF RoundUnmaps
    <2>4. ASSUME NEW page \in Touched, HandlePagefault(page)
          PROVE  walk = NoWalk /\ \A v \in changed :
                    /\ PageOf(mem.tables, v) = None
                    /\ PageOf(mem'.tables, v) \notin mem.used
                    /\ changed = {v}
      <3>1. PICK p : FaultMaps(page, p)
        BY <2>1, <2>4, FaultStep
      <3>2. \A v \in changed : v = page
        BY <3>1 DEF FaultMaps
      <3> QED
        BY <3>1, <3>2 DEF FaultMaps
    <2>5. ASSUME NEW page \in Touched,
                 \/ PagefaultNoMemory(page)
                 \/ \E error_code \in {1, 2} : PagefaultRefused(page, error_code)
          PROVE  mem'.tables = mem.tables
      <3> DEFINE m == [mem EXCEPT !.harm = "no memory"]
      <3>1. m.tables = mem.tables
        BY <2>1 DEF HasFields
      <3>2. mem' = m \/ mem' = mem
        BY <2>5 DEF PagefaultNoMemory, PagefaultRefused
      <3> HIDE DEF m
      <3> QED
        BY <3>1, <3>2
    <2>6. WalkOutside => mem'.tables = mem.tables
      <3> DEFINE m == [mem EXCEPT !.harm = "outside"]
      <3>1. m.tables = mem.tables
        BY <2>1 DEF HasFields
      <3>2. WalkOutside => mem' = m
        BY DEF WalkOutside
      <3> HIDE DEF m
      <3> QED
        BY <3>1, <3>2
    <2>7. \/ WalkEnds \/ CloseFile \/ DeinitAllocated \/ DeinitFree \/ DeinitDone
          \/ (\E n \in Sizes : Allocate(n))
          \/ (\E page \in 0 .. RegionPages - 1 : FreeVspace(page))
          => mem'.tables = mem.tables
      BY DEF WalkEnds, CloseFile, DeinitAllocated, DeinitFree, DeinitDone, Allocate,
             FreeVspace
    <2> HIDE DEF changed
    <2> QED
      BY <2>2, <2>3, <2>4, <2>5, <2>6, <2>7 DEF Next
  <1> QED
    BY <1>1, PagingInit, PagingStep, PTL DEF Spec, ChangesAreLocal

============================================================================
