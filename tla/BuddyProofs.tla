---------------------------- MODULE BuddyProofs ----------------------------
(***************************************************************************)
(* Proofs about the lists of pet_list.h and about the buddy allocator that *)
(* keeps its free blocks on such lists, for a pool of any size and any     *)
(* sequence of requests.                                                   *)
(*                                                                         *)
(* The lists come first: each operation does to the links what a sequence  *)
(* operator does to the list, the fact on which PetThread, MemMap and      *)
(* Buddy rely when they have sequences for lists.  All lists share one     *)
(* memory, so for each operation there is also the fact that it leaves     *)
(* every other list alone.                                                 *)
(*                                                                         *)
(* The allocator is reasoned about with one relation: Same(x, y, o), the   *)
(* addresses x and y lie in the same aligned block of order o.  All that   *)
(* is arithmetic is in the lemmas about Same; a split and a merge are then *)
(* the same exchange of blocks, read in the two directions.                *)
(***************************************************************************)
EXTENDS Buddy, PetList, SequenceTheorems, WellFoundedInduction, TLAPS

----------------------------------------------------------------------------
(* The lists. *)

(* The places of the ring: the head before and behind the elements. *)
LEMMA AtFacts ==
    ASSUME NEW head \in Nodes, NEW s \in Seq(Nodes)
    PROVE  /\ At(head, s, 0) = head /\ At(head, s, Len(s) + 1) = head
           /\ \A k \in 1 .. Len(s) : At(head, s, k) = s[k]
           /\ \A k \in Int : At(head, s, k) \in Nodes
           /\ \A k \in Int : At(head, s, k) \in NodesOf(head, s)
  BY DEF At, NodesOf

(* The fields after the stores of __list_add. *)
LEMMA AddFields ==
    ASSUME NEW m \in Links, NEW new \in Nodes, NEW prev \in Nodes, NEW next \in Nodes,
           new # prev, new # next
    PROVE  LET a == __list_add(m, new, prev, next)
           IN  /\ a.next[new] = next /\ a.next[prev] = new
               /\ a.prev[new] = prev /\ a.prev[next] = new
               /\ \A n \in Nodes \ {new, prev} : a.next[n] = m.next[n]
               /\ \A n \in Nodes \ {new, next} : a.prev[n] = m.prev[n]
               /\ a \in Links
  BY DEF Links, __list_add, SetNext, SetPrev

(* INIT_LIST_HEAD makes an empty list. *)
THEOREM InitIsEmpty ==
    ASSUME NEW m \in Links, NEW list \in Nodes
    PROVE  Represents(INIT_LIST_HEAD(m, list), list, << >>)
  <1>. DEFINE a == INIT_LIST_HEAD(m, list)
  <1>1. a.next[list] = list /\ a.prev[list] = list
    BY DEF INIT_LIST_HEAD, SetNext, SetPrev, Links
  <1>2. \A k \in Int : At(list, << >>, k) = list
    BY DEF At
  <1>. HIDE DEF a
  <1>3. Represents(a, list, << >>)
    BY <1>1, <1>2 DEF Represents
  <1>. QED
    BY <1>3 DEF a

(* A list only depends on the links of its own nodes. *)
LEMMA Frame ==
    ASSUME NEW m, NEW a, NEW head, NEW s, Represents(m, head, s),
           \A n \in NodesOf(head, s) : a.next[n] = m.next[n] /\ a.prev[n] = m.prev[n]
    PROVE  Represents(a, head, s)
  <1>1. head \in Nodes /\ s \in Seq(Nodes)
    BY DEF Represents
  <1>2. ASSUME NEW k \in 0 .. Len(s)
        PROVE  /\ a.next[At(head, s, k)] = At(head, s, k + 1)
               /\ a.prev[At(head, s, k + 1)] = At(head, s, k)
    <2>1. At(head, s, k) \in NodesOf(head, s) /\ At(head, s, k + 1) \in NodesOf(head, s)
      BY <1>1, AtFacts
    <2>. QED
      BY <1>1, <2>1 DEF Represents
  <1>. QED
    BY <1>2 DEF Represents

(* __list_add between two neighbours of the ring. *)
LEMMA AddAt ==
    ASSUME NEW m \in Links, NEW head, NEW s, Represents(m, head, s),
           NEW p \in 0 .. Len(s), NEW new \in Nodes \ NodesOf(head, s)
    PROVE  Represents(__list_add(m, new, At(head, s, p), At(head, s, p + 1)),
                      head, Inserted(s, p, new))
  <1>. DEFINE t == Inserted(s, p, new)
              before == At(head, s, p)
              after == At(head, s, p + 1)
              a == __list_add(m, new, before, after)
  <1>1. head \in Nodes /\ s \in Seq(Nodes) /\ Len(s) \in Nat
    BY DEF Represents
  <1>2. before \in Nodes /\ after \in Nodes /\ new # before /\ new # after
    BY <1>1, AtFacts
  <1>3. /\ a.next[new] = after /\ a.next[before] = new
        /\ a.prev[new] = before /\ a.prev[after] = new
        /\ \A n \in Nodes \ {new, before} : a.next[n] = m.next[n]
        /\ \A n \in Nodes \ {new, after} : a.prev[n] = m.prev[n]
    BY <1>2, AddFields
  <1>4. t \in Seq(Nodes) /\ Len(t) = Len(s) + 1
    BY <1>1 DEF Inserted
  <1>5. /\ \A k \in 0 .. p : At(head, t, k) = At(head, s, k)
        /\ At(head, t, p + 1) = new
        /\ \A k \in p + 2 .. Len(s) + 2 : At(head, t, k) = At(head, s, k - 1)
    BY <1>1, <1>4 DEF At, Inserted
  <1>6. /\ \A k \in 1 .. Len(s) : s[k] # new /\ s[k] # head
        /\ \A k, l \in 1 .. Len(s) : s[k] = s[l] => k = l
        /\ new # head
    BY DEF Represents, NodesOf
  <1>7. \A k \in 1 .. Len(t) : t[k] # head
    BY <1>1, <1>4, <1>6 DEF Inserted
  <1>8. ASSUME NEW k \in 1 .. Len(t), NEW l \in 1 .. Len(t), t[k] = t[l]
        PROVE  k = l
    <2>. DEFINE v(n) == IF n <= p THEN s[n] ELSE IF n = p + 1 THEN new ELSE s[n - 1]
    <2>1. v(k) = v(l)
      BY <1>1, <1>4, <1>8 DEF Inserted
    <2>2. CASE k = p + 1 \/ l = p + 1
      BY <2>1, <2>2, <1>1, <1>4, <1>6
    <2>3. CASE k # p + 1 /\ l # p + 1
      BY <2>1, <2>3, <1>1, <1>4, <1>6
    <2>. QED
      BY <2>2, <2>3
  <1>. HIDE DEF t, a, before, after
  <1>9. ASSUME NEW k \in 0 .. Len(s)
        PROVE  /\ m.next[At(head, s, k)] = At(head, s, k + 1)
               /\ m.prev[At(head, s, k + 1)] = At(head, s, k)
               /\ At(head, s, k) \in Nodes \ {new}
               /\ At(head, s, k + 1) \in Nodes \ {new}
               /\ k # p => At(head, s, k) # before /\ At(head, s, k + 1) # after
    <2>1. /\ m.next[At(head, s, k)] = At(head, s, k + 1)
          /\ m.prev[At(head, s, k + 1)] = At(head, s, k)
      BY DEF Represents
    <2>2. At(head, s, k) \in Nodes \ {new} /\ At(head, s, k + 1) \in Nodes \ {new}
      BY <1>1, AtFacts
    <2>3. k # p => At(head, s, k) # before
      BY <1>1, <1>6 DEF before, At
    <2>4. k # p => At(head, s, k + 1) # after
      BY <1>1, <1>6 DEF after, At
    <2>. QED
      BY <2>1, <2>2, <2>3, <2>4
  <1>10. ASSUME NEW k \in 0 .. Len(t)
         PROVE  /\ a.next[At(head, t, k)] = At(head, t, k + 1)
                /\ a.prev[At(head, t, k + 1)] = At(head, t, k)
    <2>1. CASE k < p
      <3>1. At(head, t, k) = At(head, s, k) /\ At(head, t, k + 1) = At(head, s, k + 1)
        BY <2>1, <1>1, <1>5
      <3>2. k \in 0 .. Len(s) /\ k # p
        BY <2>1, <1>1
      <3>. QED
        BY <3>1, <3>2, <1>3, <1>9
    <2>2. CASE k = p
      <3>1. At(head, t, k) = before /\ At(head, t, k + 1) = new
        BY <2>2, <1>1, <1>5 DEF before
      <3>. QED
        BY <3>1, <1>3
    <2>3. CASE k = p + 1
      <3>1. At(head, t, k) = new /\ At(head, t, k + 1) = after
        <4>1. k + 1 \in p + 2 .. Len(s) + 2 /\ (k + 1) - 1 = p + 1
          BY <2>3, <1>1
        <4>. QED
          BY <4>1, <2>3, <1>5 DEF after
      <3>. QED
        BY <3>1, <1>3
    <2>4. CASE k > p + 1
      <3>1. PICK l \in 0 .. Len(s) : k = l + 1 /\ l # p /\ l >= p + 1
        BY <2>4, <1>1, <1>4
      <3>2. At(head, t, k) = At(head, s, l) /\ At(head, t, k + 1) = At(head, s, l + 1)
        <4>1. /\ k \in p + 2 .. Len(s) + 2 /\ k + 1 \in p + 2 .. Len(s) + 2
              /\ k - 1 = l /\ (k + 1) - 1 = l + 1
          BY <3>1, <1>1
        <4>. QED
          BY <4>1, <1>5
      <3>. QED
        BY <3>1, <3>2, <1>3, <1>9
    <2>. QED
      BY <2>1, <2>2, <2>3, <2>4, <1>1, <1>4
  <1>11. Represents(a, head, t)
    BY <1>1, <1>4, <1>7, <1>8, <1>10 DEF Represents
  <1>. QED
    BY <1>11 DEF a, t, before, after

(* list_add puts a node in front of the list, as PetMem does with a new     *)
(* pool and Buddy with a free block.                                        *)
THEOREM AddIsCons ==
    ASSUME NEW m \in Links, NEW head, NEW s, Represents(m, head, s),
           NEW new \in Nodes \ NodesOf(head, s)
    PROVE  Represents(list_add(m, new, head), head, <<new>> \o s)
  <1>1. head \in Nodes /\ s \in Seq(Nodes) /\ Len(s) \in Nat
    BY DEF Represents
  <1>2. head = At(head, s, 0) /\ m.next[head] = At(head, s, 0 + 1)
    BY <1>1, AtFacts DEF Represents
  <1>3. Inserted(s, 0, new) = <<new>> \o s
    BY <1>1 DEF Inserted
  <1>4. Represents(__list_add(m, new, At(head, s, 0), At(head, s, 0 + 1)), head,
                   Inserted(s, 0, new))
    BY <1>1, AddAt
  <1>. QED
    BY <1>2, <1>3, <1>4 DEF list_add

(* list_add_tail appends a node, as PetThread does with a ready thread.     *)
THEOREM AddTailIsAppend ==
    ASSUME NEW m \in Links, NEW head, NEW s, Represents(m, head, s),
           NEW new \in Nodes \ NodesOf(head, s)
    PROVE  Represents(list_add_tail(m, new, head), head, Append(s, new))
  <1>1. head \in Nodes /\ s \in Seq(Nodes) /\ Len(s) \in Nat
    BY DEF Represents
  <1>2. head = At(head, s, Len(s) + 1) /\ m.prev[head] = At(head, s, Len(s))
    BY <1>1, AtFacts DEF Represents
  <1>3. Inserted(s, Len(s), new) = Append(s, new)
    <2>. DEFINE t == Inserted(s, Len(s), new)
                u == Append(s, new)
    <2>1. t \in Seq(Nodes) /\ Len(t) = Len(s) + 1
      BY <1>1 DEF Inserted
    <2>2. u \in Seq(Nodes) /\ Len(u) = Len(s) + 1
      BY <1>1
    <2>3. \A l \in 1 .. Len(s) + 1 : t[l] = u[l]
      BY <1>1 DEF Inserted
    <2>. HIDE DEF t, u
    <2>4. t = u
      BY <2>1, <2>2, <2>3, SeqEqual
    <2>. QED
      BY <2>4 DEF t, u
  <1>4. Represents(__list_add(m, new, At(head, s, Len(s)), At(head, s, Len(s) + 1)), head,
                   Inserted(s, Len(s), new))
    BY <1>1, AddAt
  <1>. QED
    BY <1>2, <1>3, <1>4 DEF list_add_tail

----------------------------------------------------------------------------
(* The fields after the stores of __list_del. *)
LEMMA DelFields ==
    ASSUME NEW m \in Links, NEW prev \in Nodes, NEW next \in Nodes
    PROVE  LET a == __list_del(m, prev, next)
           IN  /\ a.next[prev] = next /\ a.prev[next] = prev
               /\ \A n \in Nodes \ {prev} : a.next[n] = m.next[n]
               /\ \A n \in Nodes \ {next} : a.prev[n] = m.prev[n]
               /\ a \in Links
  BY DEF Links, __list_del, SetNext, SetPrev

(* __list_del of the neighbours of an element. *)
LEMMA DelAt ==
    ASSUME NEW m \in Links, NEW head, NEW s, Represents(m, head, s),
           NEW p \in 1 .. Len(s)
    PROVE  /\ Represents(__list_del(m, m.prev[s[p]], m.next[s[p]]), head, Without(s, p))
           /\ __list_del(m, m.prev[s[p]], m.next[s[p]]) \in Links
           /\ \A n \in Nodes \ NodesOf(head, s) :
                 /\ __list_del(m, m.prev[s[p]], m.next[s[p]]).next[n] = m.next[n]
                 /\ __list_del(m, m.prev[s[p]], m.next[s[p]]).prev[n] = m.prev[n]
           /\ s[p] \in Nodes \ NodesOf(head, Without(s, p))
           /\ NodesOf(head, Without(s, p)) \subseteq NodesOf(head, s)
  <1>. DEFINE t == Without(s, p)
              before == At(head, s, p - 1)
              after == At(head, s, p + 1)
              a == __list_del(m, before, after)
  <1>1. head \in Nodes /\ s \in Seq(Nodes) /\ Len(s) \in Nat
    BY DEF Represents
  <1>2. before \in Nodes /\ after \in Nodes
    BY <1>1, AtFacts
  <1>3. m.prev[s[p]] = before /\ m.next[s[p]] = after
    <2>1. At(head, s, (p - 1) + 1) = s[p] /\ At(head, s, p) = s[p]
      BY <1>1, AtFacts
    <2>2. p - 1 \in 0 .. Len(s) /\ p \in 0 .. Len(s)
      BY <1>1
    <2>. QED
      BY <2>1, <2>2 DEF Represents
  <1>4. /\ a.next[before] = after /\ a.prev[after] = before
        /\ \A n \in Nodes \ {before} : a.next[n] = m.next[n]
        /\ \A n \in Nodes \ {after} : a.prev[n] = m.prev[n]
        /\ a \in Links
    BY <1>2, DelFields
  <1>5. t \in Seq(Nodes) /\ Len(t) = Len(s) - 1
    BY <1>1 DEF Without
  <1>6. \A k \in 1 .. Len(t) :
           t[k] = s[IF k < p THEN k ELSE k + 1]
           /\ (IF k < p THEN k ELSE k + 1) \in (1 .. Len(s)) \ {p}
    BY <1>1, <1>5 DEF Without
  <1>7. /\ \A k \in 1 .. Len(s) : s[k] # head
        /\ \A k, l \in 1 .. Len(s) : s[k] = s[l] => k = l
    BY DEF Represents
  <1>8. /\ \A k \in 0 .. p - 1 : At(head, t, k) = At(head, s, k)
        /\ \A k \in p .. Len(s) : At(head, t, k) = At(head, s, k + 1)
    BY <1>1, <1>5 DEF At, Without
  <1>. HIDE DEF t, a, before, after
  <1>9. ASSUME NEW k \in 1 .. Len(t), NEW l \in 1 .. Len(t), t[k] = t[l]
        PROVE  k = l
    <2>1. (IF k < p THEN k ELSE k + 1) = (IF l < p THEN l ELSE l + 1)
      BY <1>6, <1>7, <1>9
    <2>. QED
      BY <2>1, <1>1, <1>5
  <1>10. ASSUME NEW k \in 0 .. Len(s), k # p
         PROVE  /\ m.next[At(head, s, k)] = At(head, s, k + 1)
                /\ m.prev[At(head, s, k + 1)] = At(head, s, k)
                /\ At(head, s, k) \in Nodes /\ At(head, s, k + 1) \in Nodes
                /\ k # p - 1 => At(head, s, k) # before /\ At(head, s, k + 1) # after
    <2>1. /\ m.next[At(head, s, k)] = At(head, s, k + 1)
          /\ m.prev[At(head, s, k + 1)] = At(head, s, k)
      BY DEF Represents
    <2>2. At(head, s, k) \in Nodes /\ At(head, s, k + 1) \in Nodes
      BY <1>1, AtFacts
    <2>3. k # p - 1 => At(head, s, k) # before
      BY <1>1, <1>7 DEF before, At
    <2>4. k # p - 1 => At(head, s, k + 1) # after
      BY <1>1, <1>7, <1>10 DEF after, At
    <2>. QED
      BY <2>1, <2>2, <2>3, <2>4
  <1>11. ASSUME NEW k \in 0 .. Len(t)
         PROVE  /\ a.next[At(head, t, k)] = At(head, t, k + 1)
                /\ a.prev[At(head, t, k + 1)] = At(head, t, k)
    <2>1. CASE k < p - 1
      <3>1. At(head, t, k) = At(head, s, k) /\ At(head, t, k + 1) = At(head, s, k + 1)
        BY <2>1, <1>1, <1>8
      <3>2. k \in 0 .. Len(s) /\ k # p /\ k # p - 1
        BY <2>1, <1>1, <1>5
      <3>. QED
        BY <3>1, <3>2, <1>4, <1>10
    <2>2. CASE k = p - 1
      <3>1. At(head, t, k) = before /\ At(head, t, k + 1) = after
        <4>1. k \in 0 .. p - 1 /\ k + 1 \in p .. Len(s) /\ k + 1 = p
          BY <2>2, <1>1, <1>5
        <4>. QED
          BY <4>1, <2>2, <1>8 DEF before, after
      <3>. QED
        BY <3>1, <1>4
    <2>3. CASE k >= p
      <3>1. PICK l \in 0 .. Len(s) : l = k + 1 /\ l # p /\ l # p - 1
        BY <2>3, <1>1, <1>5
      <3>2. At(head, t, k) = At(head, s, l) /\ At(head, t, k + 1) = At(head, s, l + 1)
        BY <2>3, <3>1, <1>1, <1>5, <1>8
      <3>. QED
        BY <3>1, <3>2, <1>4, <1>10
    <2>. QED
      BY <2>1, <2>2, <2>3, <1>1, <1>5
  <1>12. Represents(a, head, t)
    <2>1. \A k \in 1 .. Len(t) : t[k] # head
      BY <1>6, <1>7
    <2>. QED
      BY <1>1, <1>5, <1>9, <1>11, <2>1 DEF Represents
  <1>13. \A n \in Nodes \ NodesOf(head, s) : a.next[n] = m.next[n] /\ a.prev[n] = m.prev[n]
    <2>1. before \in NodesOf(head, s) /\ after \in NodesOf(head, s)
      BY <1>1, AtFacts DEF before, after
    <2>. QED
      BY <1>4, <2>1
  <1>14. s[p] \in Nodes \ NodesOf(head, t)
    BY <1>1, <1>6, <1>7 DEF NodesOf
  <1>15. NodesOf(head, t) \subseteq NodesOf(head, s)
    BY <1>6 DEF NodesOf
  <1>. QED
    BY <1>3, <1>4, <1>12, <1>13, <1>14, <1>15 DEF a, t

(* list_del takes an element out of its list, as PetThread does when a      *)
(* thread starts to run and Buddy when it hands out or merges a block, and  *)
(* leaves every other list as it is.                                        *)
THEOREM DelIsWithout ==
    ASSUME NEW m \in Links, NEW head, NEW s, Represents(m, head, s),
           NEW p \in 1 .. Len(s),
           NEW other, NEW t, Represents(m, other, t),
           NodesOf(head, s) \cap NodesOf(other, t) = {}
    PROVE  /\ Represents(list_del(m, s[p]), head, Without(s, p))
           /\ Represents(list_del(m, s[p]), other, t)
  <1>. DEFINE a == __list_del(m, m.prev[s[p]], m.next[s[p]])
              b == list_del(m, s[p])
  <1>1. /\ Represents(a, head, Without(s, p)) /\ a \in Links
        /\ \A n \in Nodes \ NodesOf(head, s) : a.next[n] = m.next[n] /\ a.prev[n] = m.prev[n]
        /\ s[p] \in Nodes \ NodesOf(head, Without(s, p))
        /\ NodesOf(head, Without(s, p)) \subseteq NodesOf(head, s)
    BY DelAt
  <1>2. NodesOf(head, s) \subseteq Nodes /\ NodesOf(other, t) \subseteq Nodes
    BY DEF NodesOf, Represents
  <1>. HIDE DEF a
  <1>4. \A n \in Nodes \ {s[p]} : b.next[n] = a.next[n] /\ b.prev[n] = a.prev[n]
    <2>1. b = SetPrev(SetNext(a, s[p], LIST_POISON1), s[p], LIST_POISON2)
      BY DEF list_del, a
    <2>. HIDE DEF b
    <2>. QED
      BY <2>1, <1>1 DEF Links, SetNext, SetPrev
  <1>. HIDE DEF b
  <1>5. Represents(b, head, Without(s, p))
    BY <1>1, <1>2, <1>4, Frame
  <1>6. s[p] \in NodesOf(head, s)
    BY DEF NodesOf
  <1>7. \A n \in NodesOf(other, t) : b.next[n] = m.next[n] /\ b.prev[n] = m.prev[n]
    BY <1>1, <1>2, <1>4, <1>6
  <1>8. Represents(b, other, t)
    BY <1>7, Frame
  <1>. QED
    BY <1>5, <1>8 DEF b

(* list_del_init takes an element out and makes it an empty list itself.    *)
THEOREM DelInitIsWithout ==
    ASSUME NEW m \in Links, NEW head, NEW s, Represents(m, head, s),
           NEW p \in 1 .. Len(s)
    PROVE  /\ Represents(list_del_init(m, s[p]), head, Without(s, p))
           /\ Represents(list_del_init(m, s[p]), s[p], << >>)
  <1>. DEFINE a == __list_del(m, m.prev[s[p]], m.next[s[p]])
              b == INIT_LIST_HEAD(a, s[p])
  <1>1. /\ Represents(a, head, Without(s, p)) /\ a \in Links
        /\ \A n \in Nodes \ NodesOf(head, s) : a.next[n] = m.next[n] /\ a.prev[n] = m.prev[n]
        /\ s[p] \in Nodes \ NodesOf(head, Without(s, p))
        /\ NodesOf(head, Without(s, p)) \subseteq NodesOf(head, s)
    BY DelAt
  <1>2. NodesOf(head, s) \subseteq Nodes
    BY DEF NodesOf, Represents
  <1>. HIDE DEF a
  <1>4. \A n \in Nodes \ {s[p]} : b.next[n] = a.next[n] /\ b.prev[n] = a.prev[n]
    BY <1>1 DEF Links, INIT_LIST_HEAD, SetNext, SetPrev
  <1>5. Represents(b, s[p], << >>)
    BY <1>1, InitIsEmpty
  <1>. HIDE DEF b
  <1>6. Represents(b, head, Without(s, p))
    BY <1>1, <1>2, <1>4, Frame
  <1>. QED
    BY <1>5, <1>6 DEF a, b, list_del_init

(* Adding a node to one list leaves every other list as it is.              *)
LEMMA AddKeepsOthers ==
    ASSUME NEW m \in Links, NEW head, NEW s, Represents(m, head, s),
           NEW new \in Nodes \ NodesOf(head, s),
           NEW other, NEW t, Represents(m, other, t), new \notin NodesOf(other, t),
           NodesOf(head, s) \cap NodesOf(other, t) = {}
    PROVE  /\ Represents(list_add(m, new, head), other, t)
           /\ Represents(list_add_tail(m, new, head), other, t)
  <1>1. NodesOf(head, s) \subseteq Nodes /\ NodesOf(other, t) \subseteq Nodes
    BY DEF NodesOf, Represents
  <1>2. head \in NodesOf(head, s) /\ m.next[head] \in NodesOf(head, s)
        /\ m.prev[head] \in NodesOf(head, s)
    <2>1. head \in Nodes /\ s \in Seq(Nodes) /\ Len(s) \in Nat
      BY DEF Represents
    <2>2. m.next[head] = At(head, s, 0 + 1) /\ m.prev[head] = At(head, s, Len(s))
      BY <2>1, AtFacts DEF Represents
    <2>. QED
      BY <2>1, <2>2, AtFacts DEF NodesOf
  <1>3. ASSUME NEW prev \in NodesOf(head, s), NEW next \in NodesOf(head, s)
        PROVE  Represents(__list_add(m, new, prev, next), other, t)
    <2>. DEFINE a == __list_add(m, new, prev, next)
    <2>1. /\ \A n \in Nodes \ {new, prev} : a.next[n] = m.next[n]
          /\ \A n \in Nodes \ {new, next} : a.prev[n] = m.prev[n]
      BY <1>1, AddFields, SMTT(20)
    <2>. HIDE DEF a
    <2>2. \A n \in NodesOf(other, t) : a.next[n] = m.next[n] /\ a.prev[n] = m.prev[n]
      BY <1>1, <2>1
    <2>3. Represents(a, other, t)
      BY <2>2, Frame
    <2>. QED
      BY <2>3 DEF a
  <1>. QED
    BY <1>2, <1>3 DEF list_add, list_add_tail

(* list_move and list_move_tail take an element out of one list and put it  *)
(* at the front or at the end of another, and into no third place.          *)
THEOREM MoveMoves ==
    ASSUME NEW m \in Links, NEW from, NEW s, Represents(m, from, s),
           NEW p \in 1 .. Len(s),
           NEW to, NEW t, Represents(m, to, t),
           NodesOf(from, s) \cap NodesOf(to, t) = {}
    PROVE  /\ Represents(list_move(m, s[p], to), from, Without(s, p))
           /\ Represents(list_move(m, s[p], to), to, <<s[p]>> \o t)
           /\ Represents(list_move_tail(m, s[p], to), from, Without(s, p))
           /\ Represents(list_move_tail(m, s[p], to), to, Append(t, s[p]))
  <1>. DEFINE a == __list_del(m, m.prev[s[p]], m.next[s[p]])
              u == Without(s, p)
  <1>1. /\ Represents(a, from, u) /\ a \in Links
        /\ \A n \in Nodes \ NodesOf(from, s) : a.next[n] = m.next[n] /\ a.prev[n] = m.prev[n]
        /\ s[p] \in Nodes \ NodesOf(from, u)
        /\ NodesOf(from, u) \subseteq NodesOf(from, s)
    BY DelAt
  <1>2. NodesOf(from, s) \subseteq Nodes /\ NodesOf(to, t) \subseteq Nodes
    BY DEF NodesOf, Represents
  <1>. HIDE DEF a, u
  <1>4. \A n \in NodesOf(to, t) : a.next[n] = m.next[n] /\ a.prev[n] = m.prev[n]
    BY <1>1, <1>2
  <1>5. Represents(a, to, t)
    BY <1>4, Frame
  <1>6. s[p] \in Nodes \ NodesOf(to, t)
    BY <1>1 DEF NodesOf
  <1>7. NodesOf(to, t) \cap NodesOf(from, u) = {}
    BY <1>1
  <1>8. Represents(list_add(a, s[p], to), to, <<s[p]>> \o t)
    BY <1>1, <1>5, <1>6, AddIsCons
  <1>9. Represents(list_add_tail(a, s[p], to), to, Append(t, s[p]))
    BY <1>1, <1>5, <1>6, AddTailIsAppend
  <1>10. /\ Represents(list_add(a, s[p], to), from, u)
         /\ Represents(list_add_tail(a, s[p], to), from, u)
    BY <1>1, <1>5, <1>6, <1>7, AddKeepsOthers
  <1>. QED
    BY <1>8, <1>9, <1>10 DEF a, u, list_move, list_move_tail

(* list_empty is true of the list without elements only.                    *)
THEOREM EmptyIsEmpty ==
    ASSUME NEW m \in Links, NEW head, NEW s, Represents(m, head, s)
    PROVE  list_empty(m, head) <=> s = << >>
  <1>1. head \in Nodes /\ s \in Seq(Nodes) /\ Len(s) \in Nat
    BY DEF Represents
  <1>2. m.next[head] = At(head, s, 0 + 1)
    BY <1>1, AtFacts DEF Represents
  <1>3. At(head, s, 1) = head <=> Len(s) = 0
    BY <1>1 DEF At, Represents
  <1>4. Len(s) = 0 <=> s = << >>
    BY <1>1, EmptySeq
  <1>. QED
    BY <1>2, <1>3, <1>4 DEF list_empty

----------------------------------------------------------------------------
(* Induction over the naturals, and functions defined by it.  A predicate   *)
(* is given as the set of numbers that satisfy it.                          *)

(* Induction.                                                               *)
LEMMA SetInduction ==
    ASSUME NEW P \in SUBSET Nat, 0 \in P, \A n \in P : n + 1 \in P
    PROVE  P = Nat
  <1> SUFFICES ASSUME Nat \ P # {} PROVE FALSE
    OBVIOUS
  <1>1. PICK x \in Nat \ P : \A y \in Nat \ P : <<y, x>> \notin OpToRel(<, Nat)
    BY NatLessThanWellFounded, WFMin
  <1>2. \A y \in Nat \ P : ~(y < x)
    BY <1>1 DEF OpToRel
  <1>3. x # 0 /\ x - 1 \in Nat /\ x - 1 < x
    OBVIOUS
  <1>4. x - 1 \in P
    BY <1>2, <1>3
  <1>5. (x - 1) + 1 = x
    OBVIOUS
  <1> QED
    BY <1>4, <1>5

(* g is the iteration of step from x0, up to n *)
IteratesTo(S, x0, step, g, n) ==
    /\ g \in [0 .. n -> S] /\ g[0] = x0
    /\ \A m \in 0 .. n - 1 : g[m + 1] = step[g[m]]

Iterates(f, S, x0, step) ==
    /\ f \in [Nat -> S] /\ f[0] = x0
    /\ \A n \in Nat : f[n + 1] = step[f[n]]

(* Such a function exists.                                                  *)
LEMMA Iteration ==
    ASSUME NEW S, NEW x0 \in S, NEW step \in [S -> S]
    PROVE  \E f : Iterates(f, S, x0, step)
  <1>1. ASSUME NEW n \in Nat, NEW k \in Nat, NEW g, NEW h, n <= k,
               IteratesTo(S, x0, step, g, n), IteratesTo(S, x0, step, h, k)
        PROVE  \A m \in 0 .. n : g[m] = h[m]
    <2> DEFINE P == {m \in Nat : m <= n => g[m] = h[m]}
    <2>1. 0 \in P
      BY <1>1 DEF IteratesTo
    <2>2. ASSUME NEW m \in P PROVE m + 1 \in P
      BY <1>1, <2>2 DEF IteratesTo
    <2>3. P = Nat
      <3>1. P \in SUBSET Nat
        OBVIOUS
      <3> HIDE DEF P
      <3> QED
        BY <2>1, <2>2, <3>1, SetInduction
    <2> QED
      BY <2>3
  <1>2. \A n \in Nat : \E g : IteratesTo(S, x0, step, g, n)
    <2> DEFINE P == {n \in Nat : \E g : IteratesTo(S, x0, step, g, n)}
    <2>1. 0 \in P
      <3>1. IteratesTo(S, x0, step, [m \in 0 .. 0 |-> x0], 0)
        BY DEF IteratesTo
      <3> QED
        BY <3>1
    <2>2. ASSUME NEW n \in P PROVE n + 1 \in P
      <3>1. PICK g : IteratesTo(S, x0, step, g, n)
        BY <2>2
      <3> DEFINE h == [m \in 0 .. n + 1 |-> IF m <= n THEN g[m] ELSE step[g[n]]]
      <3>2. h \in [0 .. n + 1 -> S] /\ h[0] = x0
        BY <3>1 DEF IteratesTo
      <3>3. ASSUME NEW m \in 0 .. (n + 1) - 1 PROVE h[m + 1] = step[h[m]]
        BY <3>1 DEF IteratesTo
      <3> HIDE DEF h
      <3>4. IteratesTo(S, x0, step, h, n + 1)
        BY <3>2, <3>3 DEF IteratesTo
      <3> QED
        BY <3>4
    <2>3. P = Nat
      <3>1. P \in SUBSET Nat
        OBVIOUS
      <3> HIDE DEF P
      <3> QED
        BY <2>1, <2>2, <3>1, SetInduction
    <2> QED
      BY <2>3
  <1> DEFINE G(n) == CHOOSE g : IteratesTo(S, x0, step, g, n)
             f == [n \in Nat |-> G(n)[n]]
  <1>3. \A n \in Nat : IteratesTo(S, x0, step, G(n), n)
    BY <1>2
  <1> HIDE DEF G
  <1>4. f \in [Nat -> S] /\ f[0] = x0
    BY <1>3 DEF IteratesTo
  <1>5. ASSUME NEW n \in Nat PROVE f[n + 1] = step[f[n]]
    <2>1. G(n + 1)[n] = G(n)[n]
      <3>1. n + 1 \in Nat /\ n <= n + 1 /\ n \in 0 .. n
        OBVIOUS
      <3> QED
        BY <1>1, <1>3, <3>1
    <2>2. G(n + 1)[n + 1] = step[G(n + 1)[n]]
      BY <1>3 DEF IteratesTo
    <2> QED
      BY <2>1, <2>2
  <1> HIDE DEF f
  <1>6. Iterates(f, S, x0, step)
    BY <1>4, <1>5 DEF Iterates
  <1> QED
    BY <1>6

----------------------------------------------------------------------------
(* Powers of two. *)

(* The equation of 1 << n.                                                  *)
LEMMA Pow2Equation ==
    /\ Pow2[0] = 1
    /\ \A n \in Nat : Pow2[n + 1] = 2 * Pow2[n]
  <1> DEFINE step == [x \in Nat |-> 2 * x]
             Entry(w, n) == IF n = 0 THEN 1 ELSE 2 * w[n - 1]
  <1>1. step \in [Nat -> Nat] /\ 1 \in Nat
    OBVIOUS
  <1>2. PICK g : Iterates(g, Nat, 1, step)
    <2> HIDE DEF step
    <2> QED
      BY <1>1, Iteration
  <1>3. g = [n \in Nat |-> Entry(g, n)]
    <2>1. g \in [Nat -> Nat] /\ g[0] = 1
      BY <1>2 DEF Iterates
    <2>2. ASSUME NEW n \in Nat PROVE g[n] = Entry(g, n)
      <3>1. CASE n = 0
        BY <2>1, <3>1
      <3>2. CASE n # 0
        <4>1. n - 1 \in Nat /\ (n - 1) + 1 = n
          BY <3>2
        <4>2. g[(n - 1) + 1] = step[g[n - 1]] /\ g[n - 1] \in Nat
          BY <1>2, <4>1 DEF Iterates
        <4> QED
          BY <3>2, <4>1, <4>2
      <3> QED
        BY <3>1, <3>2
    <2> HIDE DEF Entry
    <2> QED
      BY <2>1, <2>2
  <1>4. Pow2 = [n \in Nat |-> Entry(Pow2, n)]
    BY <1>3, Zenon DEF Pow2
  <1>5. \A n \in Nat : Pow2[n] = Entry(Pow2, n)
    <2> HIDE DEF Entry
    <2> QED
      BY <1>4, Zenon
  <1>6. Pow2[0] = 1
    BY <1>5
  <1>7. ASSUME NEW n \in Nat PROVE Pow2[n + 1] = 2 * Pow2[n]
    <2>1. n + 1 \in Nat /\ n + 1 # 0 /\ (n + 1) - 1 = n
      OBVIOUS
    <2> QED
      BY <1>5, <2>1
  <1> QED
    BY <1>6, <1>7

(* Sizes are numbers.                                                       *)
LEMMA Pow2Grows == \A n \in Nat : Pow2[n] \in Nat /\ n < Pow2[n]
  <1> DEFINE P == {n \in Nat : Pow2[n] \in Nat /\ n < Pow2[n]}
  <1>1. 0 \in P
    BY Pow2Equation
  <1>2. ASSUME NEW n \in P PROVE n + 1 \in P
    <2>1. Pow2[n + 1] = 2 * Pow2[n] /\ n \in Nat /\ Pow2[n] \in Nat /\ n < Pow2[n]
      BY Pow2Equation
    <2> QED
      BY <2>1
  <1>3. P = Nat
    <2>1. P \in SUBSET Nat
      OBVIOUS
    <2> HIDE DEF P
    <2> QED
      BY <1>1, <1>2, <2>1, SetInduction
  <1> QED
    BY <1>3

(* A set of numbers has a least element, which is the one Min chooses.      *)
LEMMA MinIsLeast ==
    ASSUME NEW S \in SUBSET Nat, S # {}
    PROVE  Min(S) \in S /\ \A y \in S : Min(S) <= y
  <1>1. PICK x \in S : \A y \in S : <<y, x>> \notin OpToRel(<, Nat)
    BY NatLessThanWellFounded, WFMin
  <1>2. \A y \in S : ~(y < x)
    BY <1>1 DEF OpToRel
  <1>3. \E z \in S : \A y \in S : z =< y
    BY <1>2
  <1> QED
    BY <1>3 DEF Min

(* A bounded set of numbers has a greatest element.                         *)
LEMMA GreatestExists ==
    ASSUME NEW n \in Nat, NEW S \in SUBSET (0 .. n), S # {}
    PROVE  \E x \in S : \A y \in S : y <= x
  <1> DEFINE T == {k \in 0 .. n : n - k \in S}
  <1>1. PICK s \in S : TRUE
    OBVIOUS
  <1>2. n - s \in 0 .. n /\ n - (n - s) = s
    OBVIOUS
  <1>3. n - s \in T
    BY <1>1, <1>2
  <1>4. PICK z \in T : \A y \in T : z <= y
    <2>1. T \in SUBSET Nat
      OBVIOUS
    <2> HIDE DEF T
    <2> QED
      BY <1>3, <2>1, MinIsLeast
  <1>5. ASSUME NEW y \in S PROVE y <= n - z
    <2>1. n - y \in 0 .. n /\ n - (n - y) = y
      OBVIOUS
    <2>2. n - y \in T
      BY <2>1
    <2>3. z <= n - y
      BY <1>4, <2>2
    <2> QED
      BY <1>4, <2>3
  <1> QED
    BY <1>4, <1>5

(* What a quotient is. *)
LEMMA Quotient ==
    ASSUME NEW x \in Nat, NEW d \in Nat \ {0}, NEW q \in Int
    PROVE  (x \div d = q) <=> (q * d <= x /\ x < (q + 1) * d)
  OBVIOUS

(* Division with remainder. *)
LEMMA Division ==
    ASSUME NEW x \in Nat, NEW d \in Nat \ {0}
    PROVE  /\ x \div d \in Nat /\ x % d \in 0 .. d - 1
           /\ x = (x \div d) * d + (x % d)
  <1>1. x \div d \in Nat
    OBVIOUS
  <1>2. x % d \in 0 .. d - 1
    OBVIOUS
  <1>3. x = d * (x \div d) + (x % d)
    OBVIOUS
  <1>4. d * (x \div d) = (x \div d) * d
    BY <1>1
  <1> QED
    BY <1>1, <1>2, <1>3, <1>4

----------------------------------------------------------------------------
(* Which aligned block of an order an address lies in. *)

(* No block is empty.                                                       *)
LEMMA Pow2Positive == \A n \in Nat : Pow2[n] \in Nat \ {0}
  BY Pow2Grows

(* x and y lie in the same aligned block of order o *)
Same(x, y, o) == x \div Pow2[o] = y \div Pow2[o]

Aligned(x, o) == x % Pow2[o] = 0

(* A block is half of a block of the next order. *)
LEMMA Halves ==
    ASSUME NEW x \in Nat, NEW k \in Nat
    PROVE  x \div Pow2[k + 1] = (x \div Pow2[k]) \div 2
  <1> DEFINE P == Pow2[k]
             q == x \div P
             h == q \div 2
  <1>1. P \in Nat \ {0} /\ Pow2[k + 1] = 2 * P
    BY Pow2Positive, Pow2Equation
  <1>2. q \in Nat /\ q * P <= x /\ x < (q + 1) * P
    <2>1. q \in Nat
      BY <1>1, Division
    <2> QED
      BY <1>1, <2>1, Quotient
  <1> HIDE DEF P, q
  <1>3. h \in Nat /\ (q = 2 * h \/ q = 2 * h + 1)
    BY <1>2
  <1> HIDE DEF h
  <1>4. h * (2 * P) <= x /\ x < (h + 1) * (2 * P)
    <2>1. CASE q = 2 * h
      <3>1. q * P = h * (2 * P) /\ (q + 1) * P = h * (2 * P) + P
            /\ (h + 1) * (2 * P) = h * (2 * P) + 2 * P /\ h * (2 * P) \in Int
        BY <1>1, <1>3, <2>1
      <3> QED
        BY <1>1, <1>2, <3>1
    <2>2. CASE q = 2 * h + 1
      <3>1. q * P = h * (2 * P) + P /\ (q + 1) * P = h * (2 * P) + 2 * P
            /\ (h + 1) * (2 * P) = h * (2 * P) + 2 * P /\ h * (2 * P) \in Int
        BY <1>1, <1>3, <2>2
      <3> QED
        BY <1>1, <1>2, <3>1
    <2> QED
      BY <1>3, <2>1, <2>2
  <1>5. 2 * P \in Nat \ {0}
    BY <1>1
  <1>6. x \div (2 * P) = h
    BY <1>3, <1>4, <1>5, Quotient
  <1> QED
    BY <1>1, <1>6 DEF P, q, h

(* In one block of an order, in one block of every larger order. *)
LEMMA SameUp ==
    ASSUME NEW x \in Nat, NEW y \in Nat, NEW k \in Nat, NEW m \in Nat, k <= m,
           Same(x, y, k)
    PROVE  Same(x, y, m)
  <1> DEFINE S == {n \in Nat : Same(x, y, k + n)}
  <1>1. 0 \in S
    <2>1. k + 0 = k
      OBVIOUS
    <2> QED
      BY <2>1
  <1>2. ASSUME NEW n \in S PROVE n + 1 \in S
    <2>1. k + n \in Nat /\ k + (n + 1) = (k + n) + 1 /\ n + 1 \in Nat
      OBVIOUS
    <2>2. x \div Pow2[k + n] = y \div Pow2[k + n]
      BY DEF Same
    <2>3. x \div Pow2[(k + n) + 1] = y \div Pow2[(k + n) + 1]
      BY <2>1, <2>2, Halves
    <2> QED
      BY <2>1, <2>3 DEF Same
  <1>3. S = Nat
    <2>1. S \in SUBSET Nat
      OBVIOUS
    <2> HIDE DEF S
    <2> QED
      BY <1>1, <1>2, <2>1, SetInduction
  <1>4. m - k \in Nat /\ k + (m - k) = m
    OBVIOUS
  <1>5. Same(x, y, k + (m - k))
    BY <1>3, <1>4
  <1> QED
    BY <1>4, <1>5

(* The multiples of a block's size are the addresses of blocks. *)
LEMMA MultipleIs ==
    ASSUME NEW q \in Nat, NEW P \in Nat \ {0}
    PROVE  q * P \in Nat /\ (q * P) \div P = q /\ (q * P) % P = 0
  <1> DEFINE x == q * P
  <1>1. x \in Nat /\ (q + 1) * P = x + P
    OBVIOUS
  <1>2. x \div P = q
    BY <1>1, Quotient
  <1>3. x = (x \div P) * P + (x % P) /\ x % P \in 0 .. P - 1
    BY <1>1, Division
  <1>4. x % P = 0
    <2> HIDE DEF x
    <2>1. x = x + (x % P)
      BY <1>2, <1>3 DEF x
    <2> QED
      BY <1>1, <1>3, <2>1
  <1> QED
    BY <1>1, <1>2, <1>4

(* The block of order o that an address lies in. *)
LEMMA MergedIs ==
    ASSUME NEW x \in Nat, NEW o \in Nat
    PROVE  /\ MergedAddr(x, o) \in Nat /\ MergedAddr(x, o) <= x
           /\ Aligned(MergedAddr(x, o), o) /\ Same(MergedAddr(x, o), x, o)
           /\ Aligned(x, o) <=> MergedAddr(x, o) = x
  <1> DEFINE P == Pow2[o]
             q == x \div P
  <1>1. P \in Nat \ {0}
    BY Pow2Positive
  <1>2. q \in Nat /\ x = q * P + (x % P) /\ x % P \in 0 .. P - 1
    BY <1>1, Division
  <1> HIDE DEF P, q
  <1>3. q * P \in Nat /\ (q * P) \div P = q /\ (q * P) % P = 0
    BY <1>1, <1>2, MultipleIs
  <1>4. q * P <= x /\ (x % P = 0 <=> q * P = x)
    <2> DEFINE a == q * P
    <2> HIDE DEF a
    <2>1. a \in Nat /\ x = a + (x % P)
      BY <1>2, <1>3 DEF a
    <2>2. a <= x /\ (x % P = 0 <=> a = x)
      BY <1>1, <1>2, <2>1
    <2> QED
      BY <2>2 DEF a
  <1> QED
    BY <1>3, <1>4 DEF MergedAddr, Aligned, Same, P, q

(* Two addresses in one block have the same block. *)
LEMMA SameMerged ==
    ASSUME NEW x, NEW y, NEW o, Same(x, y, o)
    PROVE  MergedAddr(x, o) = MergedAddr(y, o)
  BY DEF Same, MergedAddr

(* A block has one address.                                                 *)
LEMMA AlignedSame ==
    ASSUME NEW x \in Nat, NEW y \in Nat, NEW o \in Nat,
           Aligned(x, o), Aligned(y, o), Same(x, y, o)
    PROVE  x = y
  BY MergedIs, SameMerged

(* A block's address is the address of a block of every smaller order. *)
LEMMA AlignedDown ==
    ASSUME NEW x \in Nat, NEW k \in Nat, NEW m \in Nat, k <= m, Aligned(x, m)
    PROVE  Aligned(x, k)
  <1>1. MergedAddr(x, k) \in Nat /\ MergedAddr(x, k) <= x /\ Aligned(MergedAddr(x, k), k)
        /\ Same(MergedAddr(x, k), x, k)
    BY MergedIs
  <1>2. Same(MergedAddr(x, k), x, m)
    BY <1>1, SameUp
  <1> DEFINE y == MergedAddr(x, k)
  <1>3. MergedAddr(y, m) = x
    BY <1>2, SameMerged, MergedIs
  <1>4. MergedAddr(y, m) <= y
    BY <1>1, MergedIs
  <1>5. y = x
    <2> HIDE DEF y
    <2>1. y \in Nat /\ y <= x
      BY <1>1 DEF y
    <2> QED
      BY <2>1, <1>3, <1>4
  <1> QED
    BY <1>1, <1>5

(* The bytes of an aligned block are those that lie in the same block. *)
LEMMA WithinIs ==
    ASSUME NEW x \in Nat, NEW b \in Nat, NEW o \in Nat, Aligned(b, o)
    PROVE  (b <= x /\ x < b + Pow2[o]) <=> Same(x, b, o)
  <1> DEFINE P == Pow2[o]
             q == b \div P
  <1>1. P \in Nat \ {0}
    BY Pow2Positive
  <1>2. q \in Nat /\ b = q * P
    <2>1. q \in Nat
      BY <1>1, Division
    <2>2. MergedAddr(b, o) = b
      BY MergedIs
    <2> QED
      BY <2>1, <2>2 DEF MergedAddr
  <1> HIDE DEF P, q
  <1>3. (x \div P = q) <=> (q * P <= x /\ x < (q + 1) * P)
    BY <1>1, <1>2, Quotient
  <1>4. (q + 1) * P = b + P
    BY <1>1, <1>2
  <1> QED
    BY <1>2, <1>3, <1>4 DEF Same, P, q

(* the other half of the block of order k + 1 that b lies in *)
OtherHalf(b, k) == find_buddy(MergedAddr(b, k), k)

(* The buddy is the rest of the block of the next order. *)
LEMMA OtherHalfIs ==
    ASSUME NEW b \in Nat, NEW k \in Nat
    PROVE  /\ OtherHalf(b, k) \in Nat /\ Aligned(OtherHalf(b, k), k)
           /\ Same(OtherHalf(b, k), b, k + 1) /\ ~Same(OtherHalf(b, k), b, k)
           /\ \A y \in Nat : Same(y, b, k + 1) =>
                 Same(y, b, k) \/ Same(y, OtherHalf(b, k), k)
  <1> DEFINE P == Pow2[k]
             q == b \div P
             r == IF q % 2 = 0 THEN q + 1 ELSE q - 1
             c == OtherHalf(b, k)
  <1>1. P \in Nat \ {0}
    BY Pow2Positive
  <1>2. q \in Nat
    BY <1>1, Division
  <1>3. (q * P) \div P = q
    BY <1>1, <1>2, MultipleIs
  <1>4. r \in Nat /\ r # q /\ r \div 2 = q \div 2
        /\ \A z \in Nat : z \div 2 = q \div 2 => z = q \/ z = r
    <2> HIDE DEF q
    <2> QED
      BY <1>2
  <1>5. c = r * P
    <2>1. c = IF q % 2 = 0 THEN q * P + P ELSE q * P - P
      BY <1>3 DEF OtherHalf, find_buddy, MergedAddr
    <2>2. (q + 1) * P = q * P + P /\ (q - 1) * P = q * P - P
      <3> HIDE DEF P, q
      <3> QED
        BY <1>1, <1>2
    <2> QED
      BY <2>1, <2>2
  <1>6. c \in Nat /\ c \div P = r /\ c % P = 0
    <2> HIDE DEF P, q, r, c
    <2> QED
      BY <1>1, <1>4, <1>5, MultipleIs
  <1>7. Aligned(c, k) /\ ~Same(c, b, k)
    <2> HIDE DEF c, r
    <2> QED
      BY <1>4, <1>6 DEF Aligned, Same
  <1>8. c \div Pow2[k + 1] = r \div 2 /\ \A y \in Nat : y \div Pow2[k + 1] = (y \div P) \div 2
    <2> HIDE DEF c, r
    <2> QED
      BY <1>6, Halves
  <1>9. Same(c, b, k + 1)
    <2> HIDE DEF c, r
    <2> QED
      BY <1>4, <1>8 DEF Same
  <1>10. ASSUME NEW y \in Nat, Same(y, b, k + 1) PROVE Same(y, b, k) \/ Same(y, c, k)
    <2>1. y \div P \in Nat
      BY <1>1, Division
    <2>2. (y \div P) \div 2 = q \div 2
      BY <1>8, <1>10 DEF Same
    <2>3. y \div P = q \/ y \div P = r
      <3> HIDE DEF r, q, P
      <3> QED
        BY <1>4, <2>1, <2>2
    <2> HIDE DEF r, c
    <2> QED
      BY <1>6, <2>3 DEF Same
  <1> HIDE DEF c
  <1> QED
    BY <1>6, <1>7, <1>9, <1>10 DEF c

(* The part that buddy_alloc cuts off is the buddy of the part it keeps. *)
LEMMA TrimmedIs ==
    ASSUME NEW b \in Nat, NEW k \in Nat, Aligned(b, k + 1)
    PROVE  Trimmed(b, k) = OtherHalf(b, k)
  <1> DEFINE P == Pow2[k]
             q == b \div P
             h == b \div Pow2[k + 1]
  <1>1. P \in Nat \ {0} /\ Pow2[k + 1] = 2 * P /\ 2 * P \in Nat \ {0}
    BY Pow2Positive, Pow2Equation
  <1>2. h \in Nat /\ b = h * (2 * P)
    <2>1. MergedAddr(b, k + 1) = b
      BY MergedIs
    <2> QED
      BY <1>1, <2>1, Division DEF MergedAddr
  <1>3. h * (2 * P) = (2 * h) * P
    <2> HIDE DEF h, P
    <2> QED
      BY <1>1, <1>2
  <1>4. q = 2 * h
    <2>1. 2 * h \in Nat
      BY <1>2
    <2>2. ((2 * h) * P) \div P = 2 * h
      <3> HIDE DEF h, P
      <3> QED
        BY <1>1, <2>1, MultipleIs
    <2>3. b = (2 * h) * P
      BY <1>2, <1>3
    <2> QED
      BY <2>2, <2>3
  <1>5. MergedAddr(b, k) = b
    <2>1. Aligned(b, k)
      BY AlignedDown
    <2> QED
      BY <2>1, MergedIs
  <1>6. q % 2 = 0
    <2> HIDE DEF q, h
    <2> QED
      BY <1>2, <1>4
  <1> QED
    BY <1>5, <1>6 DEF OtherHalf, find_buddy, Trimmed

(* Same is an equivalence. *)
LEMMA SameEq ==
    ASSUME NEW o
    PROVE  /\ \A x : Same(x, x, o)
           /\ \A x, y : Same(x, y, o) => Same(y, x, o)
           /\ \A x, y, z : Same(x, y, o) /\ Same(y, z, o) => Same(x, z, o)
  BY DEF Same

(* A block of order j is a block of order o with the buddies of all the     *)
(* orders between.                                                          *)
LEMMA Cover ==
    ASSUME NEW b \in Nat, NEW o \in Nat, NEW j \in Nat, o <= j, NEW y \in Nat
    PROVE  Same(y, b, j) <=>
              Same(y, b, o) \/ \E k \in o .. j - 1 : Same(y, OtherHalf(b, k), k)
  <1>1. ASSUME Same(y, b, o) PROVE Same(y, b, j)
    BY <1>1, SameUp
  <1>2. ASSUME NEW k \in o .. j - 1, Same(y, OtherHalf(b, k), k) PROVE Same(y, b, j)
    <2>1. k \in Nat /\ k + 1 \in Nat /\ k <= k + 1 /\ k + 1 <= j
      OBVIOUS
    <2>2. OtherHalf(b, k) \in Nat /\ Same(OtherHalf(b, k), b, k + 1)
      BY <2>1, OtherHalfIs
    <2>3. Same(y, OtherHalf(b, k), k + 1)
      BY <1>2, <2>1, <2>2, SameUp
    <2>4. Same(y, b, k + 1)
      BY <2>2, <2>3, SameEq
    <2> QED
      BY <2>1, <2>4, SameUp
  <1>3. ASSUME Same(y, b, j), ~Same(y, b, o)
        PROVE  \E k \in o .. j - 1 : Same(y, OtherHalf(b, k), k)
    <2> DEFINE M == {m \in o .. j : Same(y, b, m)}
    <2>1. M \in SUBSET Nat /\ j \in M
      BY <1>3
    <2>2. PICK m \in M : \A n \in M : m <= n
      <3> HIDE DEF M
      <3> QED
        BY <2>1, MinIsLeast
    <2>3. m # o /\ m \in o .. j /\ Same(y, b, m)
      BY <1>3
    <2>4. m - 1 \in o .. j - 1 /\ m - 1 \in Nat /\ (m - 1) + 1 = m /\ m - 1 < m
      BY <2>3
    <2>5. ~Same(y, b, m - 1)
      BY <2>2, <2>4
    <2>6. Same(y, OtherHalf(b, m - 1), m - 1)
      <3>1. Same(y, b, (m - 1) + 1)
        BY <2>3, <2>4
      <3> QED
        BY <2>4, <2>5, <3>1, OtherHalfIs
    <2> QED
      BY <2>4, <2>6
  <1> QED
    BY <1>1, <1>2, <1>3

(* No two of the pieces meet. *)
LEMMA PiecesApart ==
    ASSUME NEW b \in Nat, NEW k \in Nat, NEW y \in Nat, Same(y, OtherHalf(b, k), k)
    PROVE  /\ \A o \in Nat : o <= k => ~Same(y, b, o)
           /\ \A l \in Nat : l # k => ~Same(y, OtherHalf(b, l), l)
  <1>1. OtherHalf(b, k) \in Nat /\ Same(OtherHalf(b, k), b, k + 1)
        /\ ~Same(OtherHalf(b, k), b, k) /\ k + 1 \in Nat
    BY OtherHalfIs
  <1>2. ~Same(y, b, k)
    BY <1>1, SameEq
  <1>3. Same(y, b, k + 1)
    <2>1. Same(y, OtherHalf(b, k), k + 1)
      BY <1>1, SameUp
    <2> QED
      BY <1>1, <2>1, SameEq
  <1>4. ASSUME NEW o \in Nat, o <= k PROVE ~Same(y, b, o)
    BY <1>2, <1>4, SameUp
  <1>5. ASSUME NEW l \in Nat, l < k PROVE ~Same(y, OtherHalf(b, l), l)
    <2>1. OtherHalf(b, l) \in Nat /\ Same(OtherHalf(b, l), b, l + 1)
          /\ l + 1 \in Nat /\ l + 1 <= k /\ l <= l + 1
      <3>1. l + 1 \in Nat /\ l + 1 <= k /\ l <= l + 1
        BY <1>5
      <3> QED
        BY <3>1, OtherHalfIs
    <2>2. ASSUME Same(y, OtherHalf(b, l), l) PROVE FALSE
      <3>1. Same(y, OtherHalf(b, l), l + 1)
        BY <2>1, <2>2, SameUp
      <3>2. Same(y, b, l + 1)
        BY <2>1, <3>1, SameEq
      <3> QED
        BY <1>4, <2>1, <3>2
    <2> QED
      BY <2>2
  <1>6. ASSUME NEW l \in Nat, l > k PROVE ~Same(y, OtherHalf(b, l), l)
    <2>1. OtherHalf(b, l) \in Nat /\ ~Same(OtherHalf(b, l), b, l) /\ k + 1 <= l
      <3>1. k + 1 <= l
        BY <1>6
      <3> QED
        BY <3>1, OtherHalfIs
    <2>2. Same(y, b, l)
      BY <1>1, <1>3, <2>1, SameUp
    <2> QED
      BY <2>1, <2>2, SameEq
  <1> QED
    BY <1>4, <1>5, <1>6

----------------------------------------------------------------------------
(* The pool is the block of order pool_order at 0. *)
LEMMA InPool ==
    ASSUME NEW x
    PROVE  x \in Blocks <=> x \in Nat /\ Same(x, 0, pool_order) /\ Aligned(x, min_order)
  <1>1. pool_order \in Nat /\ Pow2[pool_order] \in Nat \ {0}
    BY OrdersAssumption, Pow2Positive
  <1>2. Aligned(0, pool_order)
    BY <1>1 DEF Aligned
  <1>3. ASSUME x \in Nat PROVE x < Pow2[pool_order] <=> Same(x, 0, pool_order)
    <2>1. (0 <= x /\ x < 0 + Pow2[pool_order]) <=> Same(x, 0, pool_order)
      BY <1>1, <1>2, <1>3, WithinIs
    <2> QED
      BY <1>1, <1>3, <2>1
  <1>4. x \in 0 .. Pow2[pool_order] - 1 <=> x \in Nat /\ x < Pow2[pool_order]
    BY <1>1
  <1> QED
    BY <1>3, <1>4 DEF Blocks, Aligned

(* The orders of the pool.                                                  *)
LEMMA OrdersAre ==
    /\ Orders \subseteq Nat /\ pool_order \in Orders /\ min_order \in Orders
    /\ \A o \in Orders : min_order <= o /\ o <= pool_order
    /\ \A o : o \in Orders <=> o \in Nat /\ min_order <= o /\ o <= pool_order
    /\ \A o \in Orders, k \in Nat : o <= k /\ k <= pool_order => k \in Orders
  BY OrdersAssumption DEF Orders

(* A block of the pool has its buddies in the pool, and the blocks it can   *)
(* merge into.                                                              *)
LEMMA PoolClosed ==
    ASSUME NEW b \in Blocks, NEW k \in Orders
    PROVE  /\ b \in Nat /\ k \in Nat /\ MergedAddr(b, k) \in Blocks
           /\ k < pool_order => OtherHalf(b, k) \in Blocks
  <1>1. b \in Nat /\ Same(b, 0, pool_order) /\ k \in Nat /\ min_order <= k /\ k <= pool_order
        /\ pool_order \in Nat /\ min_order \in Nat
    BY InPool, OrdersAre
  <1>2. ASSUME NEW c \in Nat, NEW m \in Nat, m <= pool_order, Same(c, b, m), Aligned(c, k)
        PROVE  c \in Blocks
    <2>1. Same(c, b, pool_order)
      BY <1>1, <1>2, SameUp
    <2>2. Same(c, 0, pool_order)
      BY <1>1, <2>1, SameEq
    <2>3. Aligned(c, min_order)
      BY <1>1, <1>2, AlignedDown
    <2> QED
      BY <2>2, <2>3, InPool
  <1>3. MergedAddr(b, k) \in Blocks
    BY <1>1, <1>2, MergedIs
  <1>4. ASSUME k < pool_order PROVE OtherHalf(b, k) \in Blocks
    <2>1. k + 1 \in Nat /\ k + 1 <= pool_order
      BY <1>1, <1>4
    <2> QED
      BY <1>1, <1>2, <2>1, OtherHalfIs
  <1> QED
    BY <1>1, <1>3, <1>4

(* Units in terms of Same.                                                  *)
LEMMA UnitsIs ==
    ASSUME NEW b \in Nat, NEW o \in Nat, Aligned(b, o)
    PROVE  Units(b, o) = {x \in Blocks : Same(x, b, o)}
  BY WithinIs, InPool DEF Units

----------------------------------------------------------------------------
(* The free lists. *)

Distinct(s) == \A m, n \in DOMAIN s : s[m] = s[n] => m = n

(* A free list with a block in front. *)
LEMMA ConsList ==
    ASSUME NEW S, NEW s \in Seq(S), NEW x \in S
    PROVE  /\ <<x>> \o s \in Seq(S) /\ ToSet(<<x>> \o s) = {x} \cup ToSet(s)
           /\ Distinct(s) /\ x \notin ToSet(s) => Distinct(<<x>> \o s)
           /\ <<x>> \o s # << >>
  <1> DEFINE t == <<x>> \o s
  <1>1. /\ t \in Seq(S) /\ Len(t) = Len(s) + 1 /\ t[1] = x /\ Len(s) \in Nat
        /\ DOMAIN t = 1 .. Len(s) + 1 /\ DOMAIN s = 1 .. Len(s)
    OBVIOUS
  <1>2. \A i \in 1 .. Len(s) + 1 : t[i] = IF i = 1 THEN x ELSE s[i - 1]
    OBVIOUS
  <1>3. \A i \in 1 .. Len(s) : i + 1 \in 1 .. Len(s) + 1 /\ t[i + 1] = s[i]
    BY <1>1, <1>2
  <1>4. \A i \in 1 .. Len(s) + 1 : i # 1 => i - 1 \in 1 .. Len(s)
    BY <1>1
  <1> HIDE DEF t
  <1>5. ToSet(t) = {x} \cup ToSet(s)
    <2>1. ASSUME NEW i \in DOMAIN t PROVE t[i] \in {x} \cup ToSet(s)
      BY <1>1, <1>2, <1>4 DEF ToSet
    <2>2. x \in ToSet(t)
      BY <1>1 DEF ToSet
    <2>3. ASSUME NEW i \in DOMAIN s PROVE s[i] \in ToSet(t)
      BY <1>1, <1>3 DEF ToSet
    <2> QED
      BY <2>1, <2>2, <2>3 DEF ToSet
  <1>6. ASSUME Distinct(s), x \notin ToSet(s) PROVE Distinct(t)
    <2> SUFFICES ASSUME NEW m \in DOMAIN t, NEW n \in DOMAIN t, t[m] = t[n] PROVE m = n
      BY DEF Distinct
    <2>1. \A i \in 1 .. Len(s) : s[i] # x
      BY <1>1, <1>6 DEF ToSet
    <2>2. \A i, l \in 1 .. Len(s) : s[i] = s[l] => i = l
      BY <1>1, <1>6 DEF Distinct
    <2>3. CASE m = 1 \/ n = 1
      BY <1>1, <1>2, <1>4, <2>1, <2>3
    <2>4. CASE m # 1 /\ n # 1
      <3>1. m - 1 = n - 1
        BY <1>1, <1>2, <1>4, <2>2, <2>4
      <3> QED
        BY <1>1, <3>1
    <2> QED
      BY <2>3, <2>4
  <1>7. t # << >>
    <2>1. Len(t) # 0
      BY <1>1
    <2> QED
      BY <2>1
  <1> QED
    BY <1>1, <1>5, <1>6, <1>7 DEF t

(* A list without one of its elements. *)
LEMMA WithoutList ==
    ASSUME NEW S, NEW s \in Seq(S), NEW p \in 1 .. Len(s), Distinct(s)
    PROVE  /\ Without(s, p) \in Seq(S) /\ ToSet(Without(s, p)) = ToSet(s) \ {s[p]}
           /\ Distinct(Without(s, p))
  <1> DEFINE t == Without(s, p)
             at(k) == IF k < p THEN k ELSE k + 1
  <1>1. t \in Seq(S) /\ Len(t) = Len(s) - 1 /\ Len(s) \in Nat
        /\ DOMAIN t = 1 .. Len(s) - 1 /\ DOMAIN s = 1 .. Len(s)
    BY DEF Without
  <1>2. \A k \in 1 .. Len(s) - 1 : t[k] = s[at(k)] /\ at(k) \in 1 .. Len(s) /\ at(k) # p
    BY <1>1 DEF Without
  <1>3. \A i \in 1 .. Len(s) : i # p => \E k \in 1 .. Len(s) - 1 : at(k) = i
    <2> SUFFICES ASSUME NEW i \in 1 .. Len(s), i # p
                 PROVE  \E k \in 1 .. Len(s) - 1 : at(k) = i
      OBVIOUS
    <2>1. CASE i < p
      <3>1. i \in 1 .. Len(s) - 1 /\ at(i) = i
        BY <1>1, <2>1
      <3> QED
        BY <3>1
    <2>2. CASE i > p
      <3>1. i - 1 \in 1 .. Len(s) - 1 /\ at(i - 1) = i
        BY <1>1, <2>2
      <3> QED
        BY <3>1
    <2> QED
      BY <1>1, <2>1, <2>2
  <1>4. \A k, l \in 1 .. Len(s) - 1 : at(k) = at(l) => k = l
    BY <1>1
  <1>5. \A i, l \in 1 .. Len(s) : s[i] = s[l] => i = l
    BY <1>1 DEF Distinct
  <1> HIDE DEF t, at
  <1>6. ASSUME NEW k \in DOMAIN t PROVE t[k] \in ToSet(s) \ {s[p]}
    BY <1>1, <1>2, <1>5 DEF ToSet
  <1>7. ASSUME NEW x \in ToSet(s) \ {s[p]} PROVE x \in ToSet(t)
    <2>1. PICK i \in 1 .. Len(s) : x = s[i]
      BY <1>1 DEF ToSet
    <2>2. PICK k \in 1 .. Len(s) - 1 : at(k) = i
      BY <1>3, <2>1
    <2> QED
      BY <1>1, <1>2, <2>1, <2>2 DEF ToSet
  <1>8. ToSet(t) = ToSet(s) \ {s[p]}
    <2>1. ToSet(t) \subseteq ToSet(s) \ {s[p]}
      BY <1>6 DEF ToSet
    <2> QED
      BY <1>7, <2>1
  <1>9. Distinct(t)
    BY <1>1, <1>2, <1>4, <1>5 DEF Distinct
  <1> QED
    BY <1>1, <1>8, <1>9 DEF t

(* Tail and RemoveFirst are list_del of an element. *)
LEMMA TailIsWithout ==
    ASSUME NEW S, NEW s \in Seq(S), s # << >>
    PROVE  1 \in 1 .. Len(s) /\ Head(s) = s[1] /\ Tail(s) = Without(s, 1)
  <1>1. Len(s) \in Nat /\ Len(s) # 0
    OBVIOUS
  <1>2. Tail(s) \in Seq(S) /\ Len(Tail(s)) = Len(s) - 1
        /\ \A i \in 1 .. Len(s) - 1 : Tail(s)[i] = s[i + 1]
    BY <1>1
  <1>3. Without(s, 1) \in Seq(S) /\ Len(Without(s, 1)) = Len(s) - 1
        /\ \A i \in 1 .. Len(s) - 1 : Without(s, 1)[i] = s[i + 1]
    BY <1>1 DEF Without
  <1>4. Tail(s) = Without(s, 1)
    BY <1>2, <1>3, SeqEqual
  <1> QED
    BY <1>1, <1>4

(* The buddy that is taken off its list is taken off by list_del.           *)
LEMMA RemoveFirstIsWithout ==
    ASSUME NEW S, NEW s \in Seq(S), Distinct(s), NEW p \in 1 .. Len(s)
    PROVE  RemoveFirst(s, s[p]) = Without(s, p)
  <1>0. Len(s) \in Nat /\ DOMAIN s = 1 .. Len(s)
    OBVIOUS
  <1> DEFINE I == {i \in 1 .. Len(s) : s[i] = s[p]}
  <1>1. I = {p}
    BY <1>0 DEF Distinct
  <1>2. Min({p}) = p
    BY DEF Min
  <1>3. RemoveFirst(s, s[p]) = RemoveAt(s, Min(I))
    <2>1. I # {} /\ \E i \in 1 .. Len(s) : s[i] = s[p]
      BY <1>1
    <2> QED
      BY <2>1, Zenon DEF RemoveFirst, SelectInSeq
  <1>4. RemoveFirst(s, s[p]) = SubSeq(s, 1, p - 1) \o SubSeq(s, p + 1, Len(s))
    BY <1>1, <1>2, <1>3 DEF RemoveAt
  <1> DEFINE u == SubSeq(s, 1, p - 1)
             v == SubSeq(s, p + 1, Len(s))
  <1>5. u \in Seq(S) /\ Len(u) = p - 1 /\ \A i \in 1 .. p - 1 : u[i] = s[i]
    <2> DEFINE n == p - 1
    <2>1. n \in Nat /\ \A i \in 1 .. n : s[i] \in S
      BY <1>0
    <2> HIDE DEF n
    <2> DEFINE t == SubSeq(s, 1, n)
    <2>2. /\ t \in Seq(S) /\ Len(t) = IF 1 <= n THEN n - 1 + 1 ELSE 0
          /\ \A i \in 1 .. n - 1 + 1 : t[i] = s[1 + i - 1]
      BY <2>1, SubSeqProperties
    <2> HIDE DEF t
    <2>3. n - 1 + 1 = n /\ \A i \in 1 .. n : 1 + i - 1 = i
      BY <2>1
    <2>4. t \in Seq(S) /\ Len(t) = n /\ \A i \in 1 .. n : t[i] = s[i]
      BY <2>1, <2>2, <2>3
    <2> QED
      BY <2>4 DEF n, t
  <1>6. v \in Seq(S) /\ Len(v) = Len(s) - p /\ \A i \in 1 .. Len(s) - p : v[i] = s[p + i]
    <2> DEFINE m == p + 1
               l == Len(s)
    <2>0. p \in Nat /\ l \in Nat /\ p <= l /\ m \in Int
      BY <1>0
    <2>1. \A i \in m .. l : s[i] \in S
      BY <1>0
    <2> HIDE DEF l
    <2>2. l - m + 1 = l - p /\ (m <= l \/ l - p = 0)
      BY <2>0
    <2>5. \A i \in 1 .. l - p : m + i - 1 = p + i
      BY <2>0
    <2> HIDE DEF m
    <2>3. /\ SubSeq(s, m, l) \in Seq(S)
          /\ Len(SubSeq(s, m, l)) = IF m <= l THEN l - m + 1 ELSE 0
          /\ \A i \in 1 .. l - m + 1 : SubSeq(s, m, l)[i] = s[m + i - 1]
      BY <2>0, <2>1, SubSeqProperties
    <2> DEFINE t == SubSeq(s, m, l)
    <2> HIDE DEF t
    <2>4. t \in Seq(S) /\ Len(t) = l - p /\ \A i \in 1 .. l - p : t[i] = s[p + i]
      BY <2>0, <2>2, <2>3, <2>5 DEF t
    <2> QED
      BY <2>4 DEF m, l, t
  <1> HIDE DEF u, v
  <1> DEFINE w == u \o v
  <1>7. w \in Seq(S) /\ Len(w) = Len(s) - 1
        /\ \A i \in 1 .. Len(s) - 1 : w[i] = IF i < p THEN s[i] ELSE s[i + 1]
    <2>1. w \in Seq(S) /\ Len(w) = Len(s) - 1
      <3>1. w \in Seq(S) /\ Len(w) = Len(u) + Len(v)
        BY <1>5, <1>6, ConcatProperties
      <3>2. Len(u) + Len(v) = Len(s) - 1
        BY <1>0, <1>5, <1>6
      <3> QED
        BY <3>1, <3>2
    <2>2. ASSUME NEW i \in 1 .. Len(s) - 1
          PROVE  w[i] = IF i < p THEN s[i] ELSE s[i + 1]
      <3>1. w[i] = IF i <= Len(u) THEN u[i] ELSE v[i - Len(u)]
        <4>1. i \in 1 .. Len(u) + Len(v)
          BY <1>0, <1>5, <1>6
        <4> QED
          BY <1>5, <1>6, <4>1, ConcatProperties
      <3>2. CASE i < p
        BY <1>0, <1>5, <3>1, <3>2
      <3>3. CASE i >= p
        <4>1. i - Len(u) \in 1 .. Len(s) - p /\ p + (i - Len(u)) = i + 1 /\ ~(i <= Len(u))
          BY <1>0, <1>5, <3>3
        <4>2. w[i] = s[i + 1]
          BY <1>6, <3>1, <4>1
        <4>3. ~(i < p)
          BY <1>0, <3>3
        <4> QED
          BY <4>2, <4>3
      <3>4. i < p \/ i >= p
        BY <1>0
      <3> QED
        BY <3>2, <3>3, <3>4
    <2> QED
      BY <2>1, <2>2
  <1> HIDE DEF w
  <1>8. Without(s, p) \in Seq(S) /\ Len(Without(s, p)) = Len(s) - 1
        /\ \A i \in 1 .. Len(s) - 1 : Without(s, p)[i] = IF i < p THEN s[i] ELSE s[i + 1]
    BY <1>0 DEF Without
  <1>9. w = Without(s, p)
    BY <1>7, <1>8, SeqEqual
  <1> QED
    BY <1>4, <1>9 DEF w, u, v

(* The first entry of a free list is taken off it. *)
LEMMA TailList ==
    ASSUME NEW S, NEW s \in Seq(S), s # << >>, Distinct(s)
    PROVE  /\ Head(s) \in ToSet(s) /\ Tail(s) \in Seq(S)
           /\ ToSet(Tail(s)) = ToSet(s) \ {Head(s)} /\ Distinct(Tail(s))
  <1>1. 1 \in 1 .. Len(s) /\ Head(s) = s[1] /\ Tail(s) = Without(s, 1)
    BY TailIsWithout
  <1>2. Head(s) \in ToSet(s)
    BY <1>1 DEF ToSet
  <1>3. /\ Without(s, 1) \in Seq(S) /\ ToSet(Without(s, 1)) = ToSet(s) \ {s[1]}
        /\ Distinct(Without(s, 1))
    BY <1>1, WithoutList
  <1> QED
    BY <1>1, <1>2, <1>3

(* A buddy is taken off its free list. *)
LEMMA RemoveList ==
    ASSUME NEW S, NEW s \in Seq(S), NEW x \in ToSet(s), Distinct(s)
    PROVE  /\ RemoveFirst(s, x) \in Seq(S) /\ ToSet(RemoveFirst(s, x)) = ToSet(s) \ {x}
           /\ Distinct(RemoveFirst(s, x))
  <1>1. PICK p \in 1 .. Len(s) : x = s[p]
    BY DEF ToSet
  <1> QED
    BY <1>1, RemoveFirstIsWithout, WithoutList

----------------------------------------------------------------------------
(* Blocks that partition the pool. *)

Block == [addr : Blocks, order : Orders]

(* y lies in block p *)
In(y, p) == Same(y, p.addr, p.order)

(* Every unit of the pool lies in exactly one of the blocks A. *)
IsPartition(A) ==
    /\ A \subseteq Block
    /\ \A p \in A : Aligned(p.addr, p.order)
    /\ \A y \in Blocks : \E p \in A : In(y, p)
    /\ \A y \in Blocks : \A p, q \in A : In(y, p) /\ In(y, q) => p = q

(* What a block is made of.                                                 *)
LEMMA BlockIs ==
    /\ \A p \in Block : p.addr \in Blocks /\ p.addr \in Nat /\ p.order \in Orders
                        /\ p.order \in Nat /\ p.order <= pool_order /\ In(p.addr, p)
                        /\ p = [addr |-> p.addr, order |-> p.order]
    /\ \A b \in Blocks, o \in Orders : [addr |-> b, order |-> o] \in Block
    /\ \A p, q \in Block : p.addr = q.addr /\ p.order = q.order => p = q
  <1>1. \A p \in Block : p.addr \in Blocks /\ p.order \in Orders
                         /\ p = [addr |-> p.addr, order |-> p.order]
    BY DEF Block
  <1>2. \A b \in Blocks, o \in Orders : [addr |-> b, order |-> o] \in Block
    BY DEF Block
  <1>3. \A p \in Block : In(p.addr, p)
    BY SameEq DEF In
  <1> QED
    BY <1>1, <1>2, <1>3, InPool, OrdersAre

(* The address of one block lies in no other. *)
LEMMA Apart ==
    ASSUME NEW A, IsPartition(A), NEW p \in A, NEW q \in A, In(p.addr, q)
    PROVE  p = q
  BY BlockIs DEF IsPartition

(* Blocks replaced by others of the same extent. *)
LEMMA Replace ==
    ASSUME NEW A, IsPartition(A), NEW R \in SUBSET A, NEW N \in SUBSET Block,
           \A p \in N : Aligned(p.addr, p.order),
           \A y \in Blocks : (\E p \in R : In(y, p)) <=> (\E p \in N : In(y, p)),
           \A y \in Blocks : \A p, q \in N : In(y, p) /\ In(y, q) => p = q
    PROVE  IsPartition((A \ R) \cup N)
  <1> DEFINE B == (A \ R) \cup N
  <1>1. B \subseteq Block /\ \A p \in B : Aligned(p.addr, p.order)
    BY DEF IsPartition
  <1>2. ASSUME NEW y \in Blocks PROVE \E p \in B : In(y, p)
    <2>1. PICK p \in A : In(y, p)
      BY DEF IsPartition
    <2>2. CASE p \in R
      BY <2>1, <2>2
    <2>3. CASE p \notin R
      BY <2>1, <2>3
    <2> QED
      BY <2>2, <2>3
  <1>3. ASSUME NEW y \in Blocks, NEW p \in A \ R, NEW q \in N, In(y, p), In(y, q)
        PROVE  FALSE
    <2>1. PICK r \in R : In(y, r)
      BY <1>3
    <2> QED
      BY <1>3, <2>1 DEF IsPartition
  <1>4. ASSUME NEW y \in Blocks, NEW p \in B, NEW q \in B, In(y, p), In(y, q)
        PROVE  p = q
    <2>1. CASE p \in A \ R /\ q \in A \ R
      BY <1>4, <2>1 DEF IsPartition
    <2>2. CASE p \in N /\ q \in N
      BY <1>4, <2>2
    <2> QED
      BY <1>3, <1>4, <2>1, <2>2
  <1> HIDE DEF B
  <1>5. IsPartition(B)
    BY <1>1, <1>2, <1>4 DEF IsPartition
  <1> QED
    BY <1>5 DEF B

(* the buddies of the orders o .. j - 1 around block b *)
Buddies(b, o, j) == {[addr |-> OtherHalf(b, k), order |-> k] : k \in o .. j - 1}

(* They are disjoint, and with b they make up its block of order j.         *)
LEMMA BuddiesAre ==
    ASSUME NEW b \in Blocks, NEW o \in Orders, NEW j \in Orders, o <= j
    PROVE  /\ Buddies(b, o, j) \subseteq Block
           /\ \A p \in Buddies(b, o, j) :
                 /\ p.order \in o .. j - 1 /\ p.addr = OtherHalf(b, p.order)
                 /\ Aligned(p.addr, p.order)
           /\ \A k \in o .. j - 1 :
                 /\ k \in Orders /\ k \in Nat /\ k < pool_order /\ k + 1 \in Nat
                 /\ OtherHalf(b, k) \in Blocks
                 /\ [addr |-> OtherHalf(b, k), order |-> k] \in Buddies(b, o, j)
           /\ \A y \in Blocks : \A p, q \in Buddies(b, o, j) :
                 In(y, p) /\ In(y, q) => p = q
           /\ \A y \in Blocks : \A p \in Buddies(b, o, j) :
                 In(y, p) => ~Same(y, b, o) /\ Same(y, b, j)
           /\ \A y \in Blocks : Same(y, b, j) <=>
                 Same(y, b, o) \/ \E p \in Buddies(b, o, j) : In(y, p)
  <1>1. b \in Nat /\ o \in Nat /\ j \in Nat /\ min_order <= o /\ j <= pool_order
        /\ pool_order \in Nat /\ min_order \in Nat
    BY InPool, OrdersAre
  <1>2. \A k \in o .. j - 1 : k \in Nat /\ min_order <= k /\ k < pool_order /\ k <= pool_order
                              /\ k + 1 \in Nat /\ o <= k
    BY <1>1
  <1>3. \A k \in o .. j - 1 : k \in Orders /\ k \in Nat /\ k < pool_order
                              /\ k + 1 \in Nat /\ o <= k
    BY <1>2, OrdersAre
  <1>4. \A k \in o .. j - 1 : OtherHalf(b, k) \in Blocks
    BY <1>3, PoolClosed
  <1>5. \A p \in Buddies(b, o, j) :
           p.order \in o .. j - 1 /\ p.addr = OtherHalf(b, p.order) /\ p \in Block
    BY <1>3, <1>4, BlockIs DEF Buddies
  <1>6. \A p \in Buddies(b, o, j) : Aligned(p.addr, p.order)
    <2> SUFFICES ASSUME NEW p \in Buddies(b, o, j) PROVE Aligned(p.addr, p.order)
      OBVIOUS
    <2>1. p.order \in o .. j - 1 /\ p.addr = OtherHalf(b, p.order)
      BY <1>5
    <2>2. p.order \in Nat
      BY <1>3, <2>1
    <2>3. Aligned(OtherHalf(b, p.order), p.order)
      BY <1>1, <2>2, OtherHalfIs
    <2> QED
      BY <2>1, <2>3
  <1>7. ASSUME NEW y \in Blocks, NEW p \in Buddies(b, o, j), In(y, p)
        PROVE  ~Same(y, b, o)
               /\ \A l \in Nat : l # p.order => ~Same(y, OtherHalf(b, l), l)
    <2>1. p.order \in Nat /\ o <= p.order /\ Same(y, OtherHalf(b, p.order), p.order) /\ y \in Nat
      BY <1>3, <1>5, <1>7, InPool DEF In
    <2> QED
      BY <1>1, <2>1, PiecesApart
  <1>8. ASSUME NEW y \in Blocks, NEW p \in Buddies(b, o, j), NEW q \in Buddies(b, o, j),
               In(y, p), In(y, q)
        PROVE  p = q
    <2>1. p.order = q.order
      BY <1>3, <1>5, <1>7, <1>8 DEF In
    <2> QED
      BY <1>5, <2>1, BlockIs
  <1>9. ASSUME NEW y \in Blocks
        PROVE  Same(y, b, j) <=> Same(y, b, o) \/ \E p \in Buddies(b, o, j) : In(y, p)
    <2>1. y \in Nat
      BY InPool
    <2>2. Same(y, b, j) <=>
            Same(y, b, o) \/ \E k \in o .. j - 1 : Same(y, OtherHalf(b, k), k)
      BY <1>1, <2>1, Cover
    <2>3. (\E k \in o .. j - 1 : Same(y, OtherHalf(b, k), k))
             <=> \E p \in Buddies(b, o, j) : In(y, p)
      <3>1. ASSUME NEW k \in o .. j - 1, Same(y, OtherHalf(b, k), k)
            PROVE  \E p \in Buddies(b, o, j) : In(y, p)
        <4>1. [addr |-> OtherHalf(b, k), order |-> k] \in Buddies(b, o, j)
          BY DEF Buddies
        <4> QED
          BY <3>1, <4>1 DEF In
      <3>2. ASSUME NEW p \in Buddies(b, o, j), In(y, p)
            PROVE  \E k \in o .. j - 1 : Same(y, OtherHalf(b, k), k)
        BY <1>5, <3>2 DEF In
      <3> QED
        BY <3>1, <3>2
    <2> QED
      BY <2>2, <2>3
  <1>10. \A k \in o .. j - 1 : [addr |-> OtherHalf(b, k), order |-> k] \in Buddies(b, o, j)
    BY DEF Buddies
  <1> HIDE DEF Buddies
  <1> QED
    BY <1>3, <1>4, <1>5, <1>6, <1>7, <1>8, <1>9, <1>10

(* A split: block b of order j becomes a block of order o and the buddies. *)
LEMMA SplitPartition ==
    ASSUME NEW A, IsPartition(A), NEW b \in Blocks, NEW o \in Orders, NEW j \in Orders, o <= j,
           [addr |-> b, order |-> j] \in A
    PROVE  IsPartition((A \ {[addr |-> b, order |-> j]})
                         \cup (Buddies(b, o, j) \cup {[addr |-> b, order |-> o]}))
  <1> DEFINE r == [addr |-> b, order |-> j]
             n == [addr |-> b, order |-> o]
             N == Buddies(b, o, j) \cup {n}
  <1>1. b \in Nat /\ o \in Nat /\ j \in Nat
    BY InPool, OrdersAre
  <1>2. n \in Block /\ r.addr = b /\ r.order = j /\ n.addr = b /\ n.order = o
    BY BlockIs
  <1>3. Aligned(n.addr, n.order)
    <2>1. Aligned(r.addr, r.order)
      BY DEF IsPartition
    <2> QED
      BY <1>1, <1>2, <2>1, AlignedDown
  <1>4. \A y \in Blocks : (In(y, r) <=> Same(y, b, j)) /\ (In(y, n) <=> Same(y, b, o))
    BY <1>2 DEF In
  <1> HIDE DEF r, n
  <1>5. N \in SUBSET Block /\ \A p \in N : Aligned(p.addr, p.order)
    BY <1>2, <1>3, BuddiesAre
  <1>6. \A y \in Blocks : (\E p \in {r} : In(y, p)) <=> (\E p \in N : In(y, p))
    BY <1>4, BuddiesAre
  <1>7. \A y \in Blocks : \A p, q \in N : In(y, p) /\ In(y, q) => p = q
    BY <1>4, BuddiesAre
  <1>8. {r} \in SUBSET A
    BY DEF r
  <1> HIDE DEF N
  <1>9. IsPartition((A \ {r}) \cup N)
    BY <1>5, <1>6, <1>7, <1>8, Replace
  <1> QED
    BY <1>9 DEF r, n, N

(* A merge: the reverse. *)
LEMMA MergePartition ==
    ASSUME NEW A, IsPartition(A), NEW b \in Blocks, NEW o \in Orders, NEW j \in Orders, o <= j,
           [addr |-> b, order |-> o] \in A, Buddies(b, o, j) \subseteq A
    PROVE  IsPartition((A \ (Buddies(b, o, j) \cup {[addr |-> b, order |-> o]}))
                         \cup {[addr |-> MergedAddr(b, j), order |-> j]})
  <1> DEFINE n == [addr |-> MergedAddr(b, j), order |-> j]
             r == [addr |-> b, order |-> o]
             R == Buddies(b, o, j) \cup {r}
  <1>1. b \in Nat /\ o \in Nat /\ j \in Nat
    BY InPool, OrdersAre
  <1>2. n \in Block /\ Aligned(n.addr, n.order) /\ Same(MergedAddr(b, j), b, j)
    <2>1. MergedAddr(b, j) \in Blocks /\ Aligned(MergedAddr(b, j), j)
          /\ Same(MergedAddr(b, j), b, j)
      BY <1>1, PoolClosed, MergedIs
    <2> QED
      BY <2>1, BlockIs
  <1>3. \A y \in Blocks : (In(y, n) <=> Same(y, b, j)) /\ (In(y, r) <=> Same(y, b, o))
    BY <1>2, SameEq DEF In
  <1> HIDE DEF n, r
  <1>4. \A y \in Blocks : (\E p \in R : In(y, p)) <=> (\E p \in {n} : In(y, p))
    BY <1>3, BuddiesAre
  <1>5. R \in SUBSET A
    BY DEF r
  <1> HIDE DEF R
  <1>6. {n} \in SUBSET Block /\ \A p \in {n} : Aligned(p.addr, p.order)
    BY <1>2
  <1>7. IsPartition((A \ R) \cup {n})
    BY <1>4, <1>5, <1>6, Replace
  <1> QED
    BY <1>7 DEF r, n, R

(* What lies at the address of a block's buddy is the buddy or a part of it. *)
LEMMA AtOtherHalf ==
    ASSUME NEW A, IsPartition(A), NEW h \in A, NEW k \in Orders, h.order <= k, k < pool_order
    PROVE  \E p \in A : p.addr = OtherHalf(h.addr, k) /\ p.order <= k
  <1> DEFINE c == OtherHalf(h.addr, k)
  <1>1. h \in Block /\ h.addr \in Blocks /\ h.addr \in Nat /\ h.order \in Nat /\ k \in Nat
    BY BlockIs, OrdersAre DEF IsPartition
  <1>2. c \in Blocks /\ c \in Nat
    BY <1>1, PoolClosed, InPool
  <1>3. Aligned(c, k) /\ Same(c, h.addr, k + 1) /\ k + 1 \in Nat
    <2>1. k + 1 \in Nat
      BY <1>1
    <2> QED
      BY <1>1, <2>1, OtherHalfIs
  <1> HIDE DEF c
  <1>4. PICK p \in A : In(c, p)
    BY <1>2 DEF IsPartition
  <1>5. p.addr \in Nat /\ p.order \in Nat /\ Aligned(p.addr, p.order)
    BY BlockIs DEF IsPartition
  <1>6. p.order <= k
    <2> SUFFICES ASSUME ~(p.order <= k) PROVE FALSE
      OBVIOUS
    <2>1. k + 1 <= p.order
      BY <1>1, <1>5
    <2>2. Same(c, h.addr, p.order)
      BY <1>1, <1>2, <1>3, <1>5, <2>1, SameUp
    <2>3. In(h.addr, p)
      BY <1>4, <2>2, SameEq DEF In
    <2>4. h = p
      BY <2>3, Apart
    <2> QED
      BY <2>4
  <1>7. Aligned(c, p.order)
    BY <1>1, <1>2, <1>3, <1>5, <1>6, AlignedDown
  <1>8. c = p.addr
    BY <1>2, <1>4, <1>5, <1>7, AlignedSame DEF In
  <1> QED
    BY <1>6, <1>8 DEF c

----------------------------------------------------------------------------
(* The steps of the allocator, on the parts of its state. *)

(* the blocks on the free lists av *)
FreeOf(av) == {p \in Block : p.addr \in ToSet(av[p.order])}

(* The invariant, of free lists av, tag bits, order fields, free blocks F   *)
(* and held blocks H.                                                       *)
Sound(av, tags, ords, F, H) ==
    /\ av \in [Orders -> Seq(Blocks)]
    /\ tags \in [Blocks -> BOOLEAN]
    /\ ords \in [Blocks -> Orders \cup {Junk}]
    /\ \A k \in Orders : Distinct(av[k])
    /\ F = FreeOf(av)
    /\ IsPartition(F \cup H) /\ F \cap H = {}
    /\ \A p \in F : tags[p.addr] /\ ords[p.addr] = p.order
    /\ \A p \in H : ~tags[p.addr]
    /\ \A p \in F : p.order < pool_order =>
          [addr |-> OtherHalf(p.addr, p.order), order |-> p.order] \notin F

(* Being free is being on the list of one's order.                          *)
LEMMA FreeOfIs ==
    ASSUME NEW av, NEW b \in Blocks, NEW k \in Orders
    PROVE  [addr |-> b, order |-> k] \in FreeOf(av) <=> b \in ToSet(av[k])
  <1> DEFINE p == [addr |-> b, order |-> k]
  <1>1. p \in Block /\ p.addr = b /\ p.order = k
    BY BlockIs
  <1> QED
    BY <1>1 DEF FreeOf

(* A free list holds addresses.                                             *)
LEMMA ListElements ==
    ASSUME NEW s \in Seq(Blocks)
    PROVE  ToSet(s) \subseteq Blocks
  BY DEF ToSet

(* A block is not its own buddy. *)
LEMMA NotOwnBuddy ==
    ASSUME NEW b \in Blocks, NEW k \in Orders
    PROVE  OtherHalf(b, k) # b
  <1>1. b \in Nat /\ k \in Nat
    BY PoolClosed
  <1>2. ~Same(OtherHalf(b, k), b, k)
    BY <1>1, OtherHalfIs
  <1> QED
    BY <1>2, SameEq

(* The state after buddy_alloc has cut block a of order j down to order o. *)
SplitLists(av, a, o, j) ==
    [k \in Orders |->
        IF k = j THEN Tail(av[j])
        ELSE IF k \in o .. j - 1 THEN <<Trimmed(a, k)>> \o av[k]
        ELSE av[k]]

SplitTags(tags, a, o, j) ==
    mark_available(mark_allocated(tags, a), {Trimmed(a, k) : k \in o .. j - 1})

SplitOrders(ords, a, o, j) ==
    [b \in Blocks |->
        LET ks == {k \in o .. j - 1 : b = Trimmed(a, k)}
        IN  IF ks # {} THEN Min(ks)
            ELSE IF b \in Units(a, o) THEN Junk
            ELSE ords[b]]

SplitFree(F, a, o, j) == (F \ {[addr |-> a, order |-> j]}) \cup Buddies(a, o, j)

SplitHeld(H, a, o) == H \cup {[addr |-> a, order |-> o]}

(* the list j is the first from o on that is not empty *)
FirstFit(av, o, j) == o <= j /\ av[j] # << >> /\ \A k \in o .. j - 1 : av[k] = << >>

(* buddy_alloc preserves the invariant: nothing else lies in the block that *)
(* is cut, the tags and order fields that change are inside it, and a list  *)
(* that gets a block was empty.                                             *)
LEMMA AllocStep ==
    ASSUME NEW av, NEW tags, NEW ords, NEW F, NEW H, Sound(av, tags, ords, F, H),
           NEW o \in Orders, NEW j \in Orders, FirstFit(av, o, j),
           NEW a, a = Head(av[j])
    PROVE  /\ a \in Blocks /\ [addr |-> a, order |-> j] \in F
           /\ [addr |-> a, order |-> o] \notin H
           /\ Sound(SplitLists(av, a, o, j), SplitTags(tags, a, o, j),
                    SplitOrders(ords, a, o, j), SplitFree(F, a, o, j), SplitHeld(H, a, o))
  <1> DEFINE r == [addr |-> a, order |-> j]
             n == [addr |-> a, order |-> o]
             N == Buddies(a, o, j)
             F2 == (F \ {r}) \cup N
             H2 == H \cup {n}
             av2 == SplitLists(av, a, o, j)
             tags2 == SplitTags(tags, a, o, j)
             ords2 == SplitOrders(ords, a, o, j)
  <1> HIDE DEF av2, tags2, ords2
  <1>0. o <= j /\ av[j] # << >> /\ \A k \in o .. j - 1 : av[k] = << >>
    BY DEF FirstFit
  <1> USE <1>0
  <1>1. /\ av \in [Orders -> Seq(Blocks)] /\ tags \in [Blocks -> BOOLEAN]
        /\ ords \in [Blocks -> Orders \cup {Junk}]
        /\ \A k \in Orders : Distinct(av[k])
        /\ F = FreeOf(av) /\ IsPartition(F \cup H) /\ F \cap H = {}
        /\ \A p \in F : tags[p.addr] /\ ords[p.addr] = p.order
        /\ \A p \in H : ~tags[p.addr]
        /\ \A p \in F : p.order < pool_order =>
              [addr |-> OtherHalf(p.addr, p.order), order |-> p.order] \notin F
    BY DEF Sound
  <1>2. /\ a \in ToSet(av[j]) /\ Tail(av[j]) \in Seq(Blocks)
        /\ ToSet(Tail(av[j])) = ToSet(av[j]) \ {a} /\ Distinct(Tail(av[j]))
    BY <1>1, TailList
  <1>3. a \in Blocks
    BY <1>1, <1>2, ListElements
  <1>4. r \in F
    BY <1>1, <1>2, <1>3, FreeOfIs
  <1>5. r \in Block /\ r.addr = a /\ r.order = j /\ n \in Block /\ n.addr = a /\ n.order = o
        /\ a \in Nat /\ o \in Nat /\ j \in Nat
    BY <1>3, BlockIs, OrdersAre, InPool
  <1>6. Aligned(a, j) /\ Aligned(a, o)
    <2>1. Aligned(a, j)
      BY <1>1, <1>4, <1>5 DEF IsPartition
    <2> QED
      BY <1>5, <2>1, AlignedDown
  <1>7. \A k \in o .. j - 1 : /\ k \in Orders /\ k # j /\ Trimmed(a, k) = OtherHalf(a, k)
                              /\ OtherHalf(a, k) \in Blocks
    <2> SUFFICES ASSUME NEW k \in o .. j - 1
                 PROVE  /\ k \in Orders /\ k # j /\ Trimmed(a, k) = OtherHalf(a, k)
                        /\ OtherHalf(a, k) \in Blocks
      OBVIOUS
    <2>1. k \in Orders /\ OtherHalf(a, k) \in Blocks
      BY <1>3, BuddiesAre
    <2>2. k \in Nat /\ k + 1 \in Nat /\ k + 1 <= j /\ k # j
      BY <1>5
    <2>3. Aligned(a, k + 1)
      BY <1>5, <1>6, <2>2, AlignedDown
    <2> QED
      BY <1>5, <2>1, <2>2, <2>3, TrimmedIs
  \* what lies in the block that is split belongs to no other block
  <1>8. ASSUME NEW p \in F \cup H, p # r, NEW y \in Blocks, Same(y, a, j)
        PROVE  p.addr # y
    <2>1. In(y, r)
      BY <1>5, <1>8 DEF In
    <2> DEFINE A == F \cup H
    <2>2. IsPartition(A) /\ p \in A /\ r \in A
      BY <1>1, <1>4
    <2> HIDE DEF r, A
    <2>3. In(p.addr, r) => p = r
      BY <2>2, Apart
    <2> QED
      BY <1>8, <2>1, <2>3
  <1>9. \A k \in o .. j - 1 : Same(OtherHalf(a, k), a, j) /\ OtherHalf(a, k) # a
    <2> SUFFICES ASSUME NEW k \in o .. j - 1
                 PROVE  Same(OtherHalf(a, k), a, j) /\ OtherHalf(a, k) # a
      OBVIOUS
    <2> DEFINE p == [addr |-> OtherHalf(a, k), order |-> k]
    <2>1. p \in Buddies(a, o, j) /\ p \in Block /\ p.addr = OtherHalf(a, k)
      BY <1>3, BuddiesAre
    <2>2. In(p.addr, p)
      BY <2>1, BlockIs
    <2>3. Same(p.addr, a, j)
      <3> HIDE DEF p
      <3> QED
        BY <1>3, <2>1, <2>2, BuddiesAre, BlockIs
    <2> QED
      BY <1>3, <1>7, <2>1, <2>3, NotOwnBuddy
  <1>10. Same(a, a, j)
    BY SameEq
  <1> HIDE DEF r
  <1>11. n \notin H
    BY <1>1, <1>3, <1>4, <1>5, <1>8, <1>10
  <1>12. N \subseteq Block /\ \A p \in N : /\ p.order \in o .. j - 1
                                           /\ p.addr = OtherHalf(a, p.order)
    BY <1>3, BuddiesAre
  <1>13. \A k \in o .. j - 1 : [addr |-> OtherHalf(a, k), order |-> k] \in N
    BY <1>3, BuddiesAre
  <1> HIDE DEF N, n
  \* the free lists
  <1>14. /\ av2 \in [Orders -> Seq(Blocks)] /\ \A k \in Orders : Distinct(av2[k])
         /\ ToSet(av2[j]) = ToSet(av[j]) \ {a}
         /\ \A k \in o .. j - 1 : ToSet(av2[k]) = {OtherHalf(a, k)}
         /\ \A k \in Orders : k # j /\ k \notin o .. j - 1 => av2[k] = av[k]
    <2>1. av2[j] = Tail(av[j])
      BY DEF SplitLists, av2
    <2>2. ASSUME NEW k \in o .. j - 1
          PROVE  av2[k] \in Seq(Blocks) /\ Distinct(av2[k]) /\ ToSet(av2[k]) = {OtherHalf(a, k)}
      <3>1. av2[k] = <<OtherHalf(a, k)>> \o << >>
        BY <1>7 DEF SplitLists, av2
      <3>2. << >> \in Seq(Blocks) /\ ToSet(<< >>) = {} /\ Distinct(<< >>)
        BY DEF ToSet, Distinct
      <3>3. OtherHalf(a, k) \in Blocks /\ OtherHalf(a, k) \notin ToSet(<< >>)
        BY <1>7, <3>2
      <3>4. /\ <<OtherHalf(a, k)>> \o << >> \in Seq(Blocks)
            /\ ToSet(<<OtherHalf(a, k)>> \o << >>) = {OtherHalf(a, k)} \cup ToSet(<< >>)
            /\ Distinct(<<OtherHalf(a, k)>> \o << >>)
        BY <3>2, <3>3, ConsList, Zenon
      <3> QED
        BY <3>1, <3>2, <3>4, Zenon
    <2>3. \A k \in Orders : k # j /\ k \notin o .. j - 1 => av2[k] = av[k]
      BY DEF SplitLists, av2
    <2>4. \A k \in Orders : av2[k] \in Seq(Blocks) /\ Distinct(av2[k])
      BY <1>1, <1>2, <2>1, <2>2, <2>3
    <2>5. av2 = [k \in Orders |-> av2[k]]
      BY DEF SplitLists, av2
    <2> QED
      BY <1>2, <2>1, <2>2, <2>3, <2>4, <2>5
  <1>15. F2 = FreeOf(av2)
    <2>1. ASSUME NEW p \in Block PROVE p \in F2 <=> p.addr \in ToSet(av2[p.order])
      <3>1. p.order \in Orders /\ p.addr \in Blocks
        BY BlockIs
      <3>2. p \in F <=> p.addr \in ToSet(av[p.order])
        BY <1>1 DEF FreeOf
      <3>3. CASE p.order = j
        <4>1. p \notin N
          BY <1>12, <1>7, <3>3
        <4>2. p = r <=> p.addr = a
          BY <1>5, <3>3, BlockIs
        <4> QED
          BY <1>14, <3>2, <3>3, <4>1, <4>2
      <3>4. CASE p.order \in o .. j - 1
        <4>1. av[p.order] = << >> /\ ToSet(<< >>) = {}
          BY <3>4 DEF ToSet
        <4>2. p \notin F
          BY <3>2, <4>1
        <4>3. p \in N <=> p.addr = OtherHalf(a, p.order)
          BY <1>12, <1>13, <3>4, BlockIs
        <4>4. ToSet(av2[p.order]) = {OtherHalf(a, p.order)}
          BY <1>14, <3>4
        <4>5. p \in F2 <=> p \in N
          BY <4>2
        <4> QED
          BY <4>3, <4>4, <4>5
      <3>5. CASE p.order # j /\ p.order \notin o .. j - 1
        <4>1. p \notin N /\ p # r
          BY <1>5, <1>12, <3>5
        <4> QED
          BY <1>14, <3>1, <3>2, <3>5, <4>1
      <3> QED
        BY <3>3, <3>4, <3>5
    <2>2. F2 \subseteq Block
      BY <1>1, <1>12 DEF IsPartition
    <2> HIDE DEF F2
    <2> QED
      BY <2>1, <2>2 DEF FreeOf
  \* the partition
  <1>16. IsPartition(F2 \cup H2) /\ F2 \cap H2 = {}
    <2>1. IsPartition(((F \cup H) \ {r}) \cup (N \cup {n}))
      BY <1>1, <1>3, <1>4, SplitPartition DEF r, n, N
    <2>2. r \notin H
      BY <1>1, <1>4
    <2>3. ((F \cup H) \ {r}) \cup (N \cup {n}) = F2 \cup H2
      BY <2>2
    <2>4. n \notin F \ {r}
      BY <1>3, <1>5, <1>8, <1>10
    <2>5. n \notin N
      BY <1>5, <1>9, <1>12
    <2>6. \A p \in N : p \notin H
      BY <1>4, <1>1, <1>7, <1>8, <1>9, <1>12
    <2> QED
      BY <1>1, <2>1, <2>3, <2>4, <2>5, <2>6
  \* the tags
  <1>17. /\ tags2 \in [Blocks -> BOOLEAN]
         /\ \A x \in Blocks : tags2[x] <=> (\E k \in o .. j - 1 : x = OtherHalf(a, k))
                                           \/ (x # a /\ tags[x])
    <2> DEFINE T == {Trimmed(a, k) : k \in o .. j - 1}
               m == mark_allocated(tags, a)
    <2>1. \A x \in Blocks : x \in T <=> \E k \in o .. j - 1 : x = OtherHalf(a, k)
      BY <1>7
    <2>2. m \in [Blocks -> BOOLEAN] /\ \A x \in Blocks : m[x] <=> (x # a /\ tags[x])
      BY <1>1, <1>3 DEF mark_allocated
    <2> HIDE DEF T, m
    <2>3. tags2 = [x \in Blocks |-> x \in T \/ m[x]]
      BY DEF SplitTags, tags2, mark_available, T, m
    <2> QED
      BY <2>1, <2>2, <2>3
  <1>18. \A p \in F2 : tags2[p.addr]
    <2> SUFFICES ASSUME NEW p \in F2 PROVE tags2[p.addr]
      OBVIOUS
    <2>0. p.addr \in Blocks
      BY <1>15, BlockIs DEF FreeOf
    <2>1. CASE p \in N
      BY <1>12, <1>17, <2>0, <2>1
    <2>2. CASE p \in F \ {r}
      <3>1. p.addr # a
        BY <1>3, <1>8, <1>10, <2>2
      <3>2. tags[p.addr]
        BY <1>1, <2>2
      <3> QED
        BY <1>17, <2>0, <3>1, <3>2
    <2> QED
      BY <2>1, <2>2
  <1>19. \A p \in H2 : ~tags2[p.addr]
    <2> SUFFICES ASSUME NEW p \in H2 PROVE ~tags2[p.addr]
      OBVIOUS
    <2>1. CASE p = n
      BY <1>3, <1>5, <1>9, <1>17, <2>1
    <2>2. CASE p \in H
      <3>1. p # r /\ p.addr \in Blocks /\ ~tags[p.addr]
        BY <1>1, <1>4, <2>2, BlockIs DEF IsPartition
      <3>2. \A k \in o .. j - 1 : p.addr # OtherHalf(a, k)
        BY <1>7, <1>8, <1>9, <2>2, <3>1
      <3> QED
        BY <1>17, <3>1, <3>2
    <2> QED
      BY <2>1, <2>2
  \* the order fields
  <1>20. /\ ords2 \in [Blocks -> Orders \cup {Junk}]
         /\ \A k \in o .. j - 1 : ords2[OtherHalf(a, k)] = k
         /\ \A x \in Blocks : ~Same(x, a, j) => ords2[x] = ords[x]
    <2> DEFINE K(x) == {k \in o .. j - 1 : x = OtherHalf(a, k)}
               w(x) == IF K(x) # {} THEN Min(K(x)) ELSE IF x \in Units(a, o) THEN Junk ELSE ords[x]
    <2>1. \A x \in Blocks : {k \in o .. j - 1 : x = Trimmed(a, k)} = K(x)
      BY <1>7
    <2>2. \A x \in Blocks : ords2[x] = w(x)
      BY <2>1 DEF SplitOrders, ords2
    <2>3. \A x \in Blocks : K(x) # {} => Min(K(x)) \in K(x)
      <3> SUFFICES ASSUME NEW x \in Blocks, K(x) # {} PROVE Min(K(x)) \in K(x)
        OBVIOUS
      <3>1. K(x) \in SUBSET Nat
        BY <1>5
      <3> HIDE DEF K
      <3> QED
        BY <3>1, MinIsLeast
    <2>4. \A x \in Blocks : w(x) \in Orders \cup {Junk}
      BY <1>1, <1>7, <2>3
    <2>5. ASSUME NEW k \in o .. j - 1 PROVE ords2[OtherHalf(a, k)] = k
      <3>1. OtherHalf(a, k) \in Blocks /\ k \in K(OtherHalf(a, k))
        BY <1>7
      <3>2. Min(K(OtherHalf(a, k))) \in K(OtherHalf(a, k))
        BY <2>3, <3>1
      <3>3. \A l \in K(OtherHalf(a, k)) : l = k
        <4> SUFFICES ASSUME NEW l \in o .. j - 1, OtherHalf(a, k) = OtherHalf(a, l)
                     PROVE  l = k
          OBVIOUS
        <4>1. Same(OtherHalf(a, k), OtherHalf(a, k), k)
              /\ Same(OtherHalf(a, k), OtherHalf(a, l), l)
          BY SameEq
        <4>2. k \in Nat /\ l \in Nat /\ OtherHalf(a, k) \in Nat
          BY <1>5, <3>1, InPool
        <4> QED
          BY <1>5, <4>1, <4>2, PiecesApart
      <3> HIDE DEF K
      <3>4. w(OtherHalf(a, k)) = Min(K(OtherHalf(a, k)))
        BY <3>1
      <3> HIDE DEF w
      <3> QED
        BY <2>2, <3>1, <3>2, <3>3, <3>4
    <2>6. ASSUME NEW x \in Blocks, ~Same(x, a, j) PROVE ords2[x] = ords[x]
      <3>1. K(x) = {}
        BY <1>9, <2>6
      <3>2. x \notin Units(a, o)
        <4>1. x \in Units(a, o) => Same(x, a, o)
          BY <1>5, <1>6, UnitsIs
        <4>2. x \in Nat
          BY InPool
        <4> QED
          BY <1>5, <2>6, <4>1, <4>2, SameUp
      <3> HIDE DEF K
      <3> QED
        BY <2>2, <3>1, <3>2
    <2> HIDE DEF w
    <2>7. ords2 = [x \in Blocks |-> ords2[x]]
      BY DEF SplitOrders, ords2
    <2>8. \A x \in Blocks : ords2[x] \in Orders \cup {Junk}
      BY <2>2, <2>4
    <2> QED
      BY <2>5, <2>6, <2>7, <2>8
  <1>21. \A p \in F2 : ords2[p.addr] = p.order
    <2> SUFFICES ASSUME NEW p \in F2 PROVE ords2[p.addr] = p.order
      OBVIOUS
    <2>1. CASE p \in N
      BY <1>12, <1>20, <2>1
    <2>2. CASE p \in F \ {r}
      <3>1. p.addr \in Blocks
        BY <1>1, <2>2, BlockIs DEF IsPartition
      <3>2. ~Same(p.addr, a, j)
        BY <1>8, <2>2, <3>1
      <3>3. ords[p.addr] = p.order
        BY <1>1, <2>2
      <3> QED
        BY <1>20, <3>1, <3>2, <3>3
    <2> QED
      BY <2>1, <2>2
  \* no two free buddies: a list that was empty has one entry
  <1>22. ASSUME NEW p \in F2, p.order < pool_order,
                [addr |-> OtherHalf(p.addr, p.order), order |-> p.order] \in F2
         PROVE  FALSE
    <2> DEFINE q == [addr |-> OtherHalf(p.addr, p.order), order |-> p.order]
    <2>1. p \in Block /\ p.addr \in Blocks /\ p.order \in Orders
      BY <1>15, BlockIs DEF FreeOf
    <2>2. OtherHalf(p.addr, p.order) \in Blocks /\ OtherHalf(p.addr, p.order) # p.addr
      BY <1>22, <2>1, PoolClosed, NotOwnBuddy
    <2>3. OtherHalf(p.addr, p.order) \in ToSet(av2[p.order]) /\ p.addr \in ToSet(av2[p.order])
      <3>1. p \in FreeOf(av2) /\ q \in FreeOf(av2)
        BY <1>15, <1>22
      <3>2. OtherHalf(p.addr, p.order) \in ToSet(av2[p.order])
        BY <2>1, <2>2, <3>1, FreeOfIs
      <3> QED
        BY <3>1, <3>2 DEF FreeOf
    <2>4. p.order \notin o .. j - 1
      <3> SUFFICES ASSUME p.order \in o .. j - 1 PROVE FALSE
        OBVIOUS
      <3>1. ToSet(av2[p.order]) = {OtherHalf(a, p.order)}
        BY <1>14
      <3>2. p.addr = OtherHalf(a, p.order)
        BY <2>3, <3>1
      <3>3. OtherHalf(p.addr, p.order) = OtherHalf(a, p.order)
        BY <2>3, <3>1
      <3> QED
        BY <2>2, <3>2, <3>3
    <2>5. ToSet(av2[p.order]) \subseteq ToSet(av[p.order])
      BY <1>14, <2>1, <2>4
    <2>6. p \in F /\ q \in F
      BY <1>1, <2>1, <2>2, <2>3, <2>5, FreeOfIs DEF FreeOf
    <2> QED
      BY <1>1, <1>22, <2>6
  <1>23. Sound(av2, tags2, ords2, F2, H2)
    <2> HIDE DEF F2, H2
    <2> QED
      BY <1>14, <1>15, <1>16, <1>17, <1>18, <1>19, <1>20, <1>21, <1>22 DEF Sound
  <1> QED
    BY <1>3, <1>4, <1>11, <1>23 DEF r, n, N, av2, tags2, ords2, SplitFree, SplitHeld

(* the test of buddy_free's loop *)
Mergeable(tags, ords, b, k) ==
    k < pool_order /\ tags[OtherHalf(b, k)] /\ ords[OtherHalf(b, k)] = k

(* The test finds out whether the buddy is free: what it reads is at the    *)
(* address of a block, and so it is right.                                  *)
LEMMA MergeableIs ==
    ASSUME NEW av, NEW tags, NEW ords, NEW F, NEW H, Sound(av, tags, ords, F, H),
           NEW h \in F \cup H, NEW k \in Orders, h.order <= k
    PROVE  Mergeable(tags, ords, h.addr, k)
              <=> k < pool_order /\ [addr |-> OtherHalf(h.addr, k), order |-> k] \in F
  <1> DEFINE c == OtherHalf(h.addr, k)
             q == [addr |-> c, order |-> k]
             A == F \cup H
  <1>1. /\ IsPartition(A)
        /\ \A p \in F : tags[p.addr] /\ ords[p.addr] = p.order
        /\ \A p \in H : ~tags[p.addr]
    BY DEF Sound
  <1>2. h.addr \in Blocks /\ h \in A
    BY <1>1, BlockIs DEF IsPartition
  <1>3. ASSUME k < pool_order, q \in F PROVE tags[c] /\ ords[c] = k
    <2>1. q.addr = c /\ q.order = k
      OBVIOUS
    <2> HIDE DEF c, q
    <2> QED
      BY <1>1, <1>3, <2>1
  <1>4. ASSUME k < pool_order, tags[c], ords[c] = k PROVE q \in F
    <2>1. PICK p \in A : p.addr = c /\ p.order <= k
      <3> HIDE DEF A
      <3> QED
        BY <1>1, <1>2, <1>4, AtOtherHalf
    <2>2. p \in F
      BY <1>1, <1>4, <2>1
    <2>3. p.order = k
      BY <1>1, <1>4, <2>1, <2>2
    <2>4. p \in Block
      BY <1>1 DEF IsPartition
    <2>5. p = q
      BY <2>1, <2>3, <2>4, BlockIs
    <2> QED
      BY <2>2, <2>5
  <1> QED
    BY <1>3, <1>4 DEF Mergeable

(* The state after buddy_free has merged block b of order o up to order top. *)
MergeLists(av, b, o, top) ==
    [k \in Orders |->
        IF k \in o .. top - 1 THEN RemoveFirst(av[k], find_buddy(MergedAddr(b, k), k))
        ELSE IF k = top THEN <<MergedAddr(b, top)>> \o av[k]
        ELSE av[k]]

MergeOrders(ords, b, o, top) ==
    [x \in Blocks |->
        LET ks == {k \in {k \in o .. top : k > o \/ k = top} : MergedAddr(b, k) = x}
        IN  IF ks = {} THEN ords[x] ELSE Max(ks)]

MergeFree(F, b, o, top) ==
    (F \ Buddies(b, o, top)) \cup {[addr |-> MergedAddr(b, top), order |-> top]}

MergeHeld(H, b, o) == H \ {[addr |-> b, order |-> o]}

(* the buddies of b are free from order o to below order top *)
MergesTo(tags, ords, b, o, top) ==
    /\ o <= top
    /\ \A k \in o .. top - 1 : Mergeable(tags, ords, b, k)
    /\ ~Mergeable(tags, ords, b, top)

(* buddy_free preserves the invariant: the merged block is made of the      *)
(* block and its free buddies and of nothing else, and the loop ends where  *)
(* the buddy is not free.                                                   *)
LEMMA FreeStep ==
    ASSUME NEW av, NEW tags, NEW ords, NEW F, NEW H, Sound(av, tags, ords, F, H),
           NEW b \in Blocks, NEW o \in Orders, NEW top \in Orders,
           [addr |-> b, order |-> o] \in H, MergesTo(tags, ords, b, o, top)
    PROVE  Sound(MergeLists(av, b, o, top), mark_available(tags, {MergedAddr(b, top)}),
                 MergeOrders(ords, b, o, top), MergeFree(F, b, o, top), MergeHeld(H, b, o))
  <1> DEFINE g == [addr |-> b, order |-> o]
             m == MergedAddr(b, top)
             n == [addr |-> m, order |-> top]
             N == Buddies(b, o, top)
             F2 == (F \ N) \cup {n}
             H2 == H \ {g}
             A == F \cup H
             av2 == MergeLists(av, b, o, top)
             tags2 == mark_available(tags, {m})
             ords2 == MergeOrders(ords, b, o, top)
  <1> HIDE DEF av2, tags2, ords2
  <1>0. /\ o <= top /\ \A k \in o .. top - 1 : Mergeable(tags, ords, b, k)
        /\ ~Mergeable(tags, ords, b, top)
    BY DEF MergesTo
  <1> USE <1>0
  <1>1. /\ av \in [Orders -> Seq(Blocks)] /\ tags \in [Blocks -> BOOLEAN]
        /\ ords \in [Blocks -> Orders \cup {Junk}]
        /\ \A k \in Orders : Distinct(av[k])
        /\ F = FreeOf(av) /\ IsPartition(A) /\ F \cap H = {}
        /\ \A p \in F : tags[p.addr] /\ ords[p.addr] = p.order
        /\ \A p \in H : ~tags[p.addr]
        /\ \A p \in F : p.order < pool_order =>
              [addr |-> OtherHalf(p.addr, p.order), order |-> p.order] \notin F
    BY DEF Sound
  <1>2. /\ b \in Nat /\ o \in Nat /\ top \in Nat /\ top <= pool_order /\ pool_order \in Nat
        /\ m \in Blocks /\ m \in Nat
    BY PoolClosed, OrdersAre, InPool
  <1>3. Aligned(m, top) /\ Same(m, b, top)
    BY <1>2, MergedIs
  <1> HIDE DEF m
  <1>4. /\ g \in A /\ g \in Block /\ g.addr = b /\ g.order = o
        /\ n \in Block /\ n.addr = m /\ n.order = top
    BY <1>2, BlockIs
  <1>5. /\ N \subseteq Block
        /\ \A p \in N : p.order \in o .. top - 1 /\ p.addr = OtherHalf(b, p.order)
        /\ \A k \in o .. top - 1 :
              /\ k \in Orders /\ k \in Nat /\ OtherHalf(b, k) \in Blocks
              /\ [addr |-> OtherHalf(b, k), order |-> k] \in N
        /\ \A y \in Blocks : Same(y, b, top) <=> Same(y, b, o) \/ \E p \in N : In(y, p)
    BY BuddiesAre
  <1>6. \A k \in o .. top - 1 : [addr |-> OtherHalf(b, k), order |-> k] \in F
    <2> SUFFICES ASSUME NEW k \in o .. top - 1
                 PROVE  [addr |-> OtherHalf(b, k), order |-> k] \in F
      OBVIOUS
    <2>1. k \in Orders /\ g.order <= k
      <3>1. o <= k
        BY <1>2
      <3> QED
        BY <1>4, <1>5, <3>1
    <2> HIDE DEF g, A
    <2> QED
      BY <1>4, <2>1, MergeableIs DEF A
  <1>7. N \subseteq F
    BY <1>6 DEF Buddies
  <1>8. top < pool_order => [addr |-> OtherHalf(b, top), order |-> top] \notin F
    <2>1. g.order <= top
      BY <1>4
    <2> HIDE DEF g, A
    <2> QED
      BY <1>4, <2>1, MergeableIs DEF A
  <1> HIDE DEF N, n, g
  <1>9. g \in H /\ g \notin F /\ N \cap H = {}
    BY <1>1, <1>7 DEF g
  \* what lies in the merged block belonged to the block or to a buddy
  <1>10. ASSUME NEW p \in A, NEW y \in Blocks, In(y, p), Same(y, b, top)
         PROVE  p = g \/ p \in N
    <2>1. CASE Same(y, b, o)
      <3>1. In(y, g)
        BY <1>4, <2>1 DEF In
      <3> QED
        BY <1>1, <1>4, <1>10, <3>1 DEF IsPartition
    <2>2. CASE \E q \in N : In(y, q)
      <3>1. PICK q \in N : In(y, q)
        BY <2>2
      <3>2. q \in A
        BY <1>7, <3>1
      <3> QED
        BY <1>1, <1>10, <3>1, <3>2 DEF IsPartition
    <2> QED
      BY <1>5, <1>10, <2>1, <2>2
  <1>11. ASSUME NEW p \in A, NEW y \in Blocks, Same(y, b, top), p.addr = y
         PROVE  p = g \/ p \in N
    <2>1. In(p.addr, p)
      BY <1>1, BlockIs DEF IsPartition
    <2> QED
      BY <1>10, <1>11, <2>1
  <1>12. n \notin F \ N /\ n \notin H2
    <2>1. ASSUME n \in A PROVE n = g \/ n \in N
      BY <1>2, <1>3, <1>4, <1>11, <2>1
    <2>2. n \notin N
      BY <1>2, <1>4, <1>5
    <2> QED
      BY <1>1, <1>9, <2>1, <2>2
  <1>13. m \notin ToSet(av[top])
    <2>1. n \notin F
      <3>1. n \notin N
        BY <1>2, <1>4, <1>5
      <3> QED
        BY <1>12, <3>1
    <2> QED
      BY <1>1, <1>2, <2>1, FreeOfIs DEF n
  \* the free lists
  <1>14. /\ av2 \in [Orders -> Seq(Blocks)] /\ \A k \in Orders : Distinct(av2[k])
         /\ ToSet(av2[top]) = {m} \cup ToSet(av[top])
         /\ \A k \in o .. top - 1 : ToSet(av2[k]) = ToSet(av[k]) \ {OtherHalf(b, k)}
         /\ \A k \in Orders : k # top /\ k \notin o .. top - 1 => av2[k] = av[k]
    <2>1. /\ av2[top] \in Seq(Blocks) /\ Distinct(av2[top])
          /\ ToSet(av2[top]) = {m} \cup ToSet(av[top])
      <3>1. top \notin o .. top - 1
        BY <1>2
      <3>2. av2[top] = <<m>> \o av[top]
        BY <3>1 DEF MergeLists, av2, m
      <3>3. av[top] \in Seq(Blocks) /\ Distinct(av[top])
        BY <1>1
      <3> QED
        BY <1>2, <1>13, <3>2, <3>3, ConsList
    <2>2. ASSUME NEW k \in o .. top - 1
          PROVE  /\ av2[k] \in Seq(Blocks) /\ Distinct(av2[k])
                 /\ ToSet(av2[k]) = ToSet(av[k]) \ {OtherHalf(b, k)}
      <3>1. k \in Orders
        BY <1>5
      <3>2. av2[k] = RemoveFirst(av[k], OtherHalf(b, k))
        BY <3>1 DEF MergeLists, av2, OtherHalf
      <3>3. av[k] \in Seq(Blocks) /\ Distinct(av[k])
        BY <1>1, <3>1
      <3>4. OtherHalf(b, k) \in ToSet(av[k])
        BY <1>1, <1>5, <1>6, <3>1, FreeOfIs
      <3> QED
        BY <3>2, <3>3, <3>4, RemoveList
    <2>3. \A k \in Orders : k # top /\ k \notin o .. top - 1 => av2[k] = av[k]
      BY DEF MergeLists, av2
    <2>4. \A k \in Orders : av2[k] \in Seq(Blocks) /\ Distinct(av2[k])
      BY <1>1, <2>1, <2>2, <2>3
    <2>5. av2 = [k \in Orders |-> av2[k]]
      BY DEF MergeLists, av2
    <2> QED
      BY <2>1, <2>2, <2>3, <2>4, <2>5
  <1>15. F2 = FreeOf(av2)
    <2>1. ASSUME NEW p \in Block PROVE p \in F2 <=> p.addr \in ToSet(av2[p.order])
      <3>1. p.order \in Orders /\ p.addr \in Blocks
        BY BlockIs
      <3>2. p \in F <=> p.addr \in ToSet(av[p.order])
        BY <1>1 DEF FreeOf
      <3>3. CASE p.order = top
        <4>1. p \notin N
          BY <1>2, <1>5, <3>3
        <4>2. p = n <=> p.addr = m
          BY <1>4, <3>3, BlockIs
        <4> QED
          BY <1>14, <3>2, <3>3, <4>1, <4>2
      <3>4. CASE p.order \in o .. top - 1
        <4>1. p # n
          BY <1>2, <1>4, <3>4
        <4>2. p \in N <=> p.addr = OtherHalf(b, p.order)
          BY <1>5, <3>4, BlockIs
        <4>3. ToSet(av2[p.order]) = ToSet(av[p.order]) \ {OtherHalf(b, p.order)}
          BY <1>14, <3>4
        <4>4. p \in F2 <=> p \in F /\ p \notin N
          BY <4>1
        <4> QED
          BY <3>2, <4>2, <4>3, <4>4
      <3>5. CASE p.order # top /\ p.order \notin o .. top - 1
        <4>1. p \notin N /\ p # n
          BY <1>4, <1>5, <3>5
        <4> QED
          BY <1>14, <3>1, <3>2, <3>5, <4>1
      <3> QED
        BY <3>3, <3>4, <3>5
    <2>2. F2 \subseteq Block
      BY <1>1, <1>4 DEF IsPartition
    <2> HIDE DEF F2
    <2> QED
      BY <2>1, <2>2 DEF FreeOf
  \* the partition
  <1>16. IsPartition(F2 \cup H2) /\ F2 \cap H2 = {}
    <2>1. N \subseteq A
      BY <1>7
    <2>2. IsPartition((A \ (N \cup {g})) \cup {n})
      <3> HIDE DEF A
      <3> QED
        BY <1>1, <1>4, <2>1, MergePartition DEF g, n, N, m
    <2>3. (A \ (N \cup {g})) \cup {n} = F2 \cup H2
      BY <1>9
    <2> QED
      BY <1>1, <1>12, <2>2, <2>3
  \* the tags
  <1>17. /\ tags2 \in [Blocks -> BOOLEAN]
         /\ \A x \in Blocks : tags2[x] <=> x = m \/ tags[x]
    BY <1>1 DEF mark_available, tags2
  <1>18. \A p \in F2 : tags2[p.addr]
    <2> SUFFICES ASSUME NEW p \in F2 PROVE tags2[p.addr]
      OBVIOUS
    <2>1. p.addr \in Blocks
      BY <1>15, BlockIs DEF FreeOf
    <2>2. CASE p = n
      BY <1>4, <1>17, <2>1, <2>2
    <2>3. CASE p \in F
      <3>1. tags[p.addr]
        BY <1>1, <2>3
      <3> QED
        BY <1>17, <2>1, <3>1
    <2> QED
      BY <2>2, <2>3
  <1>19. \A p \in H2 : ~tags2[p.addr]
    <2> SUFFICES ASSUME NEW p \in H2 PROVE ~tags2[p.addr]
      OBVIOUS
    <2>1. p.addr \in Blocks /\ ~tags[p.addr] /\ p \in A
      BY <1>1, BlockIs DEF IsPartition
    <2>2. p.addr # m
      BY <1>2, <1>3, <1>9, <1>11, <2>1
    <2> QED
      BY <1>17, <2>1, <2>2
  \* the order fields
  <1>20. /\ ords2 \in [Blocks -> Orders \cup {Junk}]
         /\ ords2[m] = top
         /\ \A x \in Blocks : ~Same(x, b, top) => ords2[x] = ords[x]
    <2> DEFINE K(x) == {k \in {k \in o .. top : k > o \/ k = top} : MergedAddr(b, k) = x}
               w(x) == IF K(x) = {} THEN ords[x] ELSE Max(K(x))
    <2>1. \A x \in Blocks : ords2[x] = w(x)
      BY DEF MergeOrders, ords2
    <2>2. \A x \in Blocks : K(x) \subseteq o .. top
      OBVIOUS
    <2>3. \A k \in o .. top : k \in Orders /\ k \in Nat /\ k <= top
      <3>1. \A k \in o .. top : k \in Nat /\ o <= k /\ k <= pool_order /\ k <= top
        BY <1>2
      <3> QED
        BY <3>1, OrdersAre
    <2>4. ASSUME NEW x \in Blocks, K(x) # {} PROVE Same(x, b, top)
      <3>1. PICK k \in o .. top : MergedAddr(b, k) = x
        BY <2>4
      <3>2. x \in Nat /\ Same(x, b, k)
        BY <1>2, <2>3, <3>1, MergedIs
      <3> QED
        BY <1>2, <2>3, <3>2, SameUp
    <2>5. top \in K(m) /\ \A k \in K(m) : k <= top
      BY <1>2, <2>3 DEF m
    <2>6. ASSUME NEW x \in Blocks, K(x) # {} PROVE Max(K(x)) \in K(x)
      <3>1. K(x) \in SUBSET (0 .. top)
        BY <1>2
      <3> HIDE DEF K
      <3>2. \E y \in K(x) : \A z \in K(x) : z <= y
        BY <1>2, <2>6, <3>1, GreatestExists
      <3>3. \E y \in K(x) : \A z \in K(x) : y >= z
        BY <3>1, <3>2
      <3> QED
        BY <3>3 DEF Max
    <2>7. Max(K(m)) = top
      <3>1. K(m) \in SUBSET Nat
        BY <1>2
      <3> HIDE DEF K
      <3>2. \E y \in K(m) : \A z \in K(m) : y >= z
        BY <1>2, <2>5, <3>1
      <3>3. Max(K(m)) \in K(m) /\ \A z \in K(m) : Max(K(m)) >= z
        BY <3>2 DEF Max
      <3> QED
        BY <1>2, <2>5, <3>1, <3>3
    <2>8. ASSUME NEW x \in Blocks PROVE w(x) \in Orders \cup {Junk}
      <3>1. CASE K(x) = {}
        BY <1>1, <3>1
      <3>2. CASE K(x) # {}
        BY <2>2, <2>3, <2>6, <3>2
      <3> QED
        BY <3>1, <3>2
    <2> HIDE DEF K
    <2>9. w(m) = top
      BY <2>5, <2>7
    <2>10. \A x \in Blocks : ~Same(x, b, top) => w(x) = ords[x]
      BY <2>4
    <2> HIDE DEF w
    <2>11. ords2 = [x \in Blocks |-> ords2[x]]
      BY DEF MergeOrders, ords2
    <2> QED
      BY <1>2, <2>1, <2>8, <2>9, <2>10, <2>11
  <1>21. \A p \in F2 : ords2[p.addr] = p.order
    <2> SUFFICES ASSUME NEW p \in F2 PROVE ords2[p.addr] = p.order
      OBVIOUS
    <2>1. CASE p = n
      BY <1>4, <1>20, <2>1
    <2>2. CASE p \in F \ N
      <3>1. p.addr \in Blocks /\ p # g /\ p \in A
        BY <1>1, <1>9, <2>2, BlockIs DEF IsPartition
      <3>2. ~Same(p.addr, b, top)
        BY <1>11, <2>2, <3>1
      <3>3. ords[p.addr] = p.order
        BY <1>1, <2>2
      <3> QED
        BY <1>20, <3>1, <3>2, <3>3
    <2> QED
      BY <2>1, <2>2
  \* no two free buddies: the loop ended because there is none
  <1>22. OtherHalf(m, top) = OtherHalf(b, top)
    <2>1. MergedAddr(m, top) = m
      BY <1>2, <1>3, MergedIs
    <2> QED
      BY <2>1 DEF OtherHalf, m
  <1>23. ASSUME NEW p \in F2, p.order < pool_order,
                [addr |-> OtherHalf(p.addr, p.order), order |-> p.order] \in F2
         PROVE  FALSE
    <2> DEFINE c == OtherHalf(p.addr, p.order)
               q == [addr |-> c, order |-> p.order]
    <2>1. /\ p \in Block /\ p.addr \in Blocks /\ p.order \in Orders
          /\ p.addr \in Nat /\ p.order \in Nat
      BY <1>15, BlockIs DEF FreeOf
    <2>2. c \in Blocks /\ c # p.addr
      BY <1>23, <2>1, PoolClosed, NotOwnBuddy
    <2>3. q \in Block /\ q.addr = c /\ q.order = p.order
      BY <2>1, <2>2, BlockIs
    <2>4. CASE p = n
      <3>1. q = [addr |-> OtherHalf(b, top), order |-> top] /\ top < pool_order
        BY <1>4, <1>22, <1>23, <2>4
      <3>2. q # n
        BY <1>4, <2>2, <2>3, <2>4
      <3> QED
        BY <1>8, <1>23, <3>1, <3>2
    <2>5. CASE p \in F /\ q = n
      <3>1. c = m /\ p.order = top
        BY <1>4, <2>3, <2>5
      <3>2. Same(m, p.addr, top + 1) /\ ~Same(m, p.addr, top)
        BY <2>1, <3>1, OtherHalfIs
      <3>3. Same(p.addr, OtherHalf(m, top), top)
        <4>1. Same(p.addr, m, top + 1) /\ ~Same(p.addr, m, top)
          BY <3>2, SameEq
        <4> QED
          BY <1>2, <2>1, <4>1, OtherHalfIs
      <3>4. Aligned(p.addr, top)
        BY <1>1, <2>5, <3>1 DEF IsPartition
      <3>5. p.addr = OtherHalf(m, top)
        BY <1>2, <2>1, <3>3, <3>4, OtherHalfIs, AlignedSame
      <3>6. p = [addr |-> OtherHalf(b, top), order |-> top]
        BY <1>22, <2>1, <3>1, <3>5, BlockIs
      <3> QED
        BY <1>8, <1>23, <2>5, <3>1, <3>6
    <2>6. CASE p \in F /\ q \in F
      BY <1>1, <1>23, <2>6
    <2> QED
      BY <1>23, <2>4, <2>5, <2>6
  <1>24. Sound(av2, tags2, ords2, F2, H2)
    <2> HIDE DEF F2, H2
    <2> QED
      BY <1>14, <1>15, <1>16, <1>17, <1>18, <1>19, <1>20, <1>21, <1>23 DEF Sound
  <1> QED
    BY <1>24 DEF g, n, N, m, av2, tags2, ords2, MergeFree, MergeHeld

----------------------------------------------------------------------------
(* The invariant. *)

HeldType == held \subseteq [addr : Blocks, order : 0 .. pool_order]

OneHolder == \A h, g \in held : h.addr = g.addr => h = g

(* A request is rounded up to an order of the pool.                         *)
LEMMA FixupIs ==
    ASSUME NEW x \in 0 .. pool_order
    PROVE  Fixup(x) \in Orders
  BY OrdersAssumption DEF Fixup, Orders

(* The blocks that clients hold.                                            *)
LEMMA HeldIs ==
    ASSUME HeldType
    PROVE  /\ Held \subseteq Block
           /\ \A h \in held : /\ h.addr \in Blocks /\ h.order \in 0 .. pool_order
                              /\ [addr |-> h.addr, order |-> Fixup(h.order)] \in Held
           /\ \A p \in Held : \E h \in held : p = [addr |-> h.addr, order |-> Fixup(h.order)]
  <1>1. \A h \in held : h.addr \in Blocks /\ h.order \in 0 .. pool_order
    BY DEF HeldType
  <1>2. \A h \in held : [addr |-> h.addr, order |-> Fixup(h.order)] \in Block
    BY <1>1, FixupIs, BlockIs
  <1> QED
    BY <1>1, <1>2 DEF Held

(* The free blocks.                                                         *)
LEMMA FreeIs == avail \in [Orders -> Seq(Blocks)] => Free = FreeOf(avail)
  <1> SUFFICES ASSUME avail \in [Orders -> Seq(Blocks)] PROVE Free = FreeOf(avail)
    OBVIOUS
  <1>1. \A k \in Orders : ToSet(avail[k]) \subseteq Blocks
    BY ListElements
  <1>2. ASSUME NEW p \in Free PROVE p \in FreeOf(avail)
    <2>1. PICK k \in Orders : \E b \in ToSet(avail[k]) : p = [addr |-> b, order |-> k]
      BY DEF Free
    <2> QED
      BY <1>1, <2>1, FreeOfIs
  <1>3. ASSUME NEW p \in FreeOf(avail) PROVE p \in Free
    <2>1. p \in Block /\ p.addr \in ToSet(avail[p.order])
      BY DEF FreeOf
    <2>2. p.order \in Orders /\ p = [addr |-> p.addr, order |-> p.order]
      BY <2>1, BlockIs
    <2>3. p \in {[addr |-> b, order |-> p.order] : b \in ToSet(avail[p.order])}
      BY <2>1, <2>2
    <2> QED
      BY <2>2, <2>3 DEF Free
  <1> QED
    BY <1>2, <1>3

(* The units of a block.                                                    *)
LEMMA InUnits ==
    ASSUME NEW p \in Block, Aligned(p.addr, p.order), NEW y \in Blocks
    PROVE  y \in Units(p.addr, p.order) <=> In(y, p)
  BY BlockIs, UnitsIs DEF In

(* The invariant is Sound of the state. *)
LEMMA SoundIs ==
    BuddyInv <=> /\ Sound(avail, tag_bits, block_order, Free, Held)
                 /\ HeldType /\ OneHolder
  <1> DEFINE A == Free \cup Held
             U == \A b \in Blocks : \E p \in A :
                     /\ b \in Units(p.addr, p.order)
                     /\ \A q \in A : b \in Units(q.addr, q.order) => q = p
             L == \A p \in Free : p.order < pool_order =>
                     [addr |-> OtherHalf(p.addr, p.order), order |-> p.order] \notin Free
  <1>1. ASSUME TypeOK
        PROVE  /\ Free = FreeOf(avail) /\ Free \subseteq Block /\ Held \subseteq Block
               /\ avail \in [Orders -> Seq(Blocks)]
    <2>1. avail \in [Orders -> Seq(Blocks)] /\ HeldType
      BY <1>1 DEF TypeOK, HeldType
    <2>2. Free = FreeOf(avail)
      BY <2>1, FreeIs
    <2> QED
      BY <2>1, <2>2, HeldIs DEF FreeOf
  <1>2. ASSUME TypeOK, \A p \in A : Aligned(p.addr, p.order)
        PROVE  U <=> IsPartition(A)
    <2>1. \A p \in A, y \in Blocks : y \in Units(p.addr, p.order) <=> In(y, p)
      BY <1>1, <1>2, InUnits
    <2>2. A \subseteq Block
      BY <1>1, <1>2
    <2> HIDE DEF A
    <2>3. U <=> \A y \in Blocks : \E p \in A : In(y, p) /\ \A q \in A : In(y, q) => q = p
      BY <2>1
    <2>4. ASSUME U PROVE IsPartition(A)
      <3>1. \A y \in Blocks : \E p \in A : In(y, p)
        BY <2>3, <2>4
      <3>2. \A y \in Blocks : \A p, q \in A : In(y, p) /\ In(y, q) => p = q
        <4> HIDE DEF U
        <4> QED
          BY <2>3, <2>4
      <3> QED
        BY <1>2, <2>2, <3>1, <3>2 DEF IsPartition
    <2>5. ASSUME IsPartition(A) PROVE U
      <3>1. \A y \in Blocks : \E p \in A : In(y, p) /\ \A q \in A : In(y, q) => q = p
        BY <2>5 DEF IsPartition
      <3> HIDE DEF U
      <3> QED
        BY <2>3, <3>1
    <2> QED
      BY <2>4, <2>5
  <1>3. ASSUME TypeOK, \A p \in A : Aligned(p.addr, p.order)
        PROVE  NoFreeBuddies <=> L
    <2>1. \A p \in Free : /\ p.order \in Orders /\ p.addr \in Blocks
                          /\ find_buddy(p.addr, p.order) = OtherHalf(p.addr, p.order)
      <3> SUFFICES ASSUME NEW p \in Free
                   PROVE  /\ p.order \in Orders /\ p.addr \in Blocks
                          /\ find_buddy(p.addr, p.order) = OtherHalf(p.addr, p.order)
        OBVIOUS
      <3>1. p.order \in Orders /\ p.addr \in Blocks /\ p.addr \in Nat /\ p.order \in Nat
        BY <1>1, <1>3, BlockIs
      <3>2. MergedAddr(p.addr, p.order) = p.addr
        BY <1>3, <3>1, MergedIs
      <3> QED
        BY <3>1, <3>2 DEF OtherHalf
    <2>2. \A k \in Nat : k \in min_order .. pool_order - 1 <=> k \in Orders /\ k < pool_order
      BY OrdersAssumption DEF Orders
    <2>3. \A k \in Orders, b \in Blocks :
             [addr |-> b, order |-> k] \in Free <=> b \in ToSet(avail[k])
      BY <1>1, <1>3, FreeOfIs
    <2>4. ASSUME NoFreeBuddies PROVE L
      <3> SUFFICES ASSUME NEW p \in Free, p.order < pool_order
                   PROVE  [addr |-> OtherHalf(p.addr, p.order), order |-> p.order] \notin Free
        OBVIOUS
      <3>1. p.order \in Orders /\ p.addr \in Blocks /\ p.order \in Nat /\ p \in Block
        BY <1>1, <1>3, BlockIs
      <3>2. p.order \in min_order .. pool_order - 1
        BY <2>2, <3>1
      <3>3. p.addr \in ToSet(avail[p.order])
        BY <1>1, <1>3 DEF FreeOf
      <3>4. OtherHalf(p.addr, p.order) \notin ToSet(avail[p.order])
        BY <2>1, <2>4, <3>2, <3>3 DEF NoFreeBuddies
      <3>5. OtherHalf(p.addr, p.order) \in Blocks
        BY <3>1, PoolClosed
      <3> QED
        BY <2>3, <3>1, <3>4, <3>5
    <2>5. ASSUME L PROVE NoFreeBuddies
      <3> SUFFICES ASSUME NEW k \in min_order .. pool_order - 1, NEW b \in ToSet(avail[k]),
                          find_buddy(b, k) \in ToSet(avail[k])
                   PROVE  FALSE
        BY DEF NoFreeBuddies
      <3>0. k \in Nat
        BY OrdersAssumption
      <3>1. k \in Orders /\ k < pool_order
        BY <2>2, <3>0
      <3>2. b \in Blocks
        BY <1>1, <1>3, <3>1, ListElements
      <3> DEFINE p == [addr |-> b, order |-> k]
      <3>3. p \in Free /\ p.addr = b /\ p.order = k
        BY <2>3, <3>1, <3>2
      <3>4. find_buddy(b, k) = OtherHalf(b, k)
        BY <2>1, <3>3
      <3>5. OtherHalf(b, k) \in Blocks
        BY <3>1, <3>2, PoolClosed
      <3>6. [addr |-> OtherHalf(b, k), order |-> k] \in Free
        BY <2>3, <3>1, <3>4, <3>5
      <3> HIDE DEF p
      <3> QED
        BY <2>5, <3>1, <3>3, <3>6
    <2> QED
      BY <2>4, <2>5
  <1>4. ASSUME BuddyInv
        PROVE  Sound(avail, tag_bits, block_order, Free, Held) /\ HeldType /\ OneHolder
    <2>1. TypeOK /\ Partition /\ TagsAreRight /\ NoFreeBuddies
      BY <1>4 DEF BuddyInv, PoolInv
    <2>2. /\ U /\ Free \cap Held = {} /\ OneHolder
          /\ \A p \in A : Aligned(p.addr, p.order)
          /\ \A k \in Orders : Distinct(avail[k])
      BY <2>1 DEF Partition, OneHolder, Aligned, Distinct
    <2>3. IsPartition(A)
      <3> HIDE DEF A, U
      <3> QED
        BY <1>2, <2>1, <2>2
    <2>4. L
      <3> HIDE DEF A, L
      <3> QED
        BY <1>3, <2>1, <2>2
    <2> HIDE DEF U
    <2> QED
      BY <1>1, <2>1, <2>2, <2>3, <2>4 DEF Sound, TypeOK, HeldType, TagsAreRight
  <1>5. ASSUME Sound(avail, tag_bits, block_order, Free, Held), HeldType, OneHolder
        PROVE  BuddyInv
    <2>1. TypeOK
      BY <1>5 DEF Sound, HeldType, TypeOK
    <2>2. IsPartition(A) /\ \A p \in A : Aligned(p.addr, p.order)
      BY <1>5 DEF Sound, IsPartition
    <2>3. U
      <3> HIDE DEF A, U
      <3> QED
        BY <1>2, <2>1, <2>2
    <2>4. NoFreeBuddies
      <3>1. L
        BY <1>5 DEF Sound
      <3> HIDE DEF A, L
      <3> QED
        BY <1>3, <2>1, <2>2, <3>1
    <2>5. Partition
      <3>1. \A k \in Orders : Distinct(avail[k])
        BY <1>5 DEF Sound
      <3>2. Free \cap Held = {}
        BY <1>5 DEF Sound
      <3> QED
        BY <1>5, <2>2, <2>3, <3>1, <3>2 DEF Partition, OneHolder, Aligned, Distinct
    <2>6. TagsAreRight
      BY <1>5 DEF Sound, TagsAreRight
    <2> QED
      BY <2>1, <2>4, <2>5, <2>6 DEF BuddyInv, PoolInv
  <1> QED
    BY <1>4, <1>5

(* The whole pool is held by its creator.                                   *)
LEMMA InitSound == Init => BuddyInv
  <1> SUFFICES ASSUME Init PROVE BuddyInv
    OBVIOUS
  <1> DEFINE w == [addr |-> 0, order |-> pool_order]
  <1>0. pool_order \in Orders /\ pool_order \in Nat /\ min_order \in Nat
    BY OrdersAre, OrdersAssumption
  <1>1. 0 \in Blocks
    <2>1. Pow2[min_order] \in Nat \ {0}
      BY <1>0, Pow2Positive
    <2>2. 0 % Pow2[min_order] = 0
      BY <2>1
    <2> QED
      BY <2>2, InPool, SameEq DEF Aligned
  <1>2. w \in Block /\ w.addr = 0 /\ w.order = pool_order
    BY <1>0, <1>1, BlockIs
  <1>3. Aligned(0, pool_order)
    <2>1. Pow2[pool_order] \in Nat \ {0}
      BY <1>0, Pow2Positive
    <2> QED
      BY <2>1 DEF Aligned
  <1>4. HeldType /\ OneHolder /\ Held = {w}
    <2>1. Fixup(pool_order) = pool_order
      BY OrdersAssumption DEF Fixup
    <2>2. pool_order \in 0 .. pool_order
      BY <1>0
    <2> QED
      BY <1>1, <2>1, <2>2 DEF Init, HeldType, OneHolder, Held
  <1>5. /\ avail \in [Orders -> Seq(Blocks)]
        /\ \A k \in Orders : ToSet(avail[k]) = {} /\ Distinct(avail[k])
    BY DEF Init, ToSet, Distinct
  <1>6. FreeOf(avail) = {}
    BY <1>5, BlockIs DEF FreeOf
  <1>7. Free = {}
    BY <1>5, <1>6, FreeIs
  <1>8. IsPartition({w})
    <2>1. \A y \in Blocks : In(y, w)
      BY <1>2, InPool DEF In
    <2> HIDE DEF w
    <2> QED
      BY <1>2, <1>3, <2>1 DEF IsPartition
  <1>9. tag_bits \in [Blocks -> BOOLEAN] /\ \A x \in Blocks : ~tag_bits[x]
    BY DEF Init
  <1>10. block_order \in [Blocks -> Orders \cup {Junk}]
    BY DEF Init
  <1> HIDE DEF w
  <1>11. Free \cup Held = {w} /\ Free \cap Held = {}
    BY <1>4, <1>7
  <1>12. \A p \in Held : ~tag_bits[p.addr]
    BY <1>1, <1>2, <1>4, <1>9
  <1>13. Sound(avail, tag_bits, block_order, Free, Held)
    BY <1>5, <1>6, <1>7, <1>8, <1>9, <1>10, <1>11, <1>12 DEF Sound
  <1> QED
    BY <1>4, <1>13, SoundIs

(* What buddy_alloc does: the order and the block it chooses. *)
LEMMA AllocIs ==
    ASSUME BuddyInv, NEW order \in 0 .. pool_order, buddy_alloc(order)
    PROVE  LET o == Fixup(order)
           IN  \E j \in Orders, a \in Blocks :
                  /\ Sound(avail, tag_bits, block_order, Free, Held)
                  /\ [addr |-> a, order |-> j] \in Free
                  /\ [addr |-> a, order |-> o] \notin Held
                  /\ o \in Orders /\ o <= j
                  /\ Sound(avail', tag_bits', block_order',
                           SplitFree(Free, a, o, j), SplitHeld(Held, a, o))
                  /\ held' = held \cup {[addr |-> a, order |-> order]}
  <1> DEFINE o == Fixup(order)
             fits == {j \in o .. pool_order : avail[j] # <<>>}
             j == Min(fits)
             a == Head(avail[j])
  <1>1. Sound(avail, tag_bits, block_order, Free, Held)
    BY SoundIs
  <1>2. o \in Orders /\ o \in Nat
    BY FixupIs, OrdersAre
  <1>3. fits # {}
    BY DEF buddy_alloc
  <1>4. fits \in SUBSET Nat
    BY <1>2
  <1>5. j \in fits /\ \A k \in fits : j <= k
    <2> HIDE DEF fits
    <2> QED
      BY <1>3, <1>4, MinIsLeast
  <1>6. /\ avail' = SplitLists(avail, a, o, j)
        /\ tag_bits' = SplitTags(tag_bits, a, o, j)
        /\ block_order' = SplitOrders(block_order, a, o, j)
        /\ held' = held \cup {[addr |-> a, order |-> order]}
    BY DEF buddy_alloc, SplitLists, SplitTags, SplitOrders
  <1> HIDE DEF j, o
  <1>7. j \in Orders /\ o <= j /\ j \in Nat /\ avail[j] # << >>
    BY <1>2, <1>5, OrdersAssumption DEF Orders
  <1>8. \A k \in o .. j - 1 : avail[k] = << >>
    <2> SUFFICES ASSUME NEW k \in o .. j - 1, avail[k] # << >> PROVE FALSE
      OBVIOUS
    <2>1. k \in o .. pool_order /\ ~(j <= k)
      BY <1>2, <1>5, <1>7, OrdersAssumption
    <2> QED
      BY <1>5, <2>1
  <1> HIDE DEF fits, a
  <1>9. /\ a \in Blocks /\ [addr |-> a, order |-> j] \in Free
        /\ [addr |-> a, order |-> o] \notin Held
        /\ Sound(avail', tag_bits', block_order',
                 SplitFree(Free, a, o, j), SplitHeld(Held, a, o))
    <2>1. a = Head(avail[j])
      BY DEF a
    <2>2. /\ a \in Blocks /\ [addr |-> a, order |-> j] \in Free
          /\ [addr |-> a, order |-> o] \notin Held
          /\ Sound(SplitLists(avail, a, o, j), SplitTags(tag_bits, a, o, j),
                   SplitOrders(block_order, a, o, j),
                   SplitFree(Free, a, o, j), SplitHeld(Held, a, o))
      <3>1. FirstFit(avail, o, j)
        BY <1>7, <1>8 DEF FirstFit
      <3>2. j \in Orders
        BY <1>7
      <3> QED
        BY <1>1, <1>2, <2>1, <3>1, <3>2, AllocStep
    <2> QED
      BY <1>6, <2>2, Zenon
  <1> QED
    BY <1>1, <1>2, <1>6, <1>7, <1>9 DEF o

(* What Sound says of the next state is what the next state is. *)
LEMMA NextFree ==
    ASSUME NEW F, NEW H, Sound(avail', tag_bits', block_order', F, H)
    PROVE  F = Free'
  <1>1. (avail \in [Orders -> Seq(Blocks)] => Free = FreeOf(avail))'
    BY FreeIs, PTL
  <1>2. avail' \in [Orders -> Seq(Blocks)] /\ F = FreeOf(avail')
    BY DEF Sound
  <1> QED
    BY <1>1, <1>2

(* The blocks held after an allocation.                                     *)
LEMMA AllocHeldIs ==
    ASSUME NEW a, NEW order, held' = held \cup {[addr |-> a, order |-> order]}
    PROVE  Held' = SplitHeld(Held, a, Fixup(order))
  <1> DEFINE block(h) == [addr |-> h.addr, order |-> Fixup(h.order)]
             new == [addr |-> a, order |-> order]
  <1>1. Held = {block(h) : h \in held} /\ Held' = {block(h) : h \in held'}
    BY DEF Held, Fixup
  <1>2. block(new) = [addr |-> a, order |-> Fixup(order)]
    OBVIOUS
  <1> HIDE DEF block
  <1> QED
    BY <1>1, <1>2 DEF SplitHeld

(* buddy_alloc as an action.                                                *)
LEMMA AllocHolds ==
    ASSUME BuddyInv, NEW order \in 0 .. pool_order, buddy_alloc(order)
    PROVE  BuddyInv'
  <1> DEFINE o == Fixup(order)
  <1>1. PICK j \in Orders, a \in Blocks :
           /\ Sound(avail, tag_bits, block_order, Free, Held)
           /\ [addr |-> a, order |-> j] \in Free
           /\ [addr |-> a, order |-> o] \notin Held
           /\ o \in Orders /\ o <= j
           /\ Sound(avail', tag_bits', block_order',
                    SplitFree(Free, a, o, j), SplitHeld(Held, a, o))
           /\ held' = held \cup {[addr |-> a, order |-> order]}
    BY AllocIs
  <1>2. HeldType /\ OneHolder
    BY SoundIs
  <1> DEFINE r == [addr |-> a, order |-> j]
             F2 == SplitFree(Free, a, o, j)
             H2 == SplitHeld(Held, a, o)
             new == [addr |-> a, order |-> order]
  <1>3. Held' = H2
    BY <1>1, AllocHeldIs
  <1>4. HeldType'
    BY <1>1, <1>2 DEF HeldType
  <1>5. \A h \in held : h.addr # a
    <2> SUFFICES ASSUME NEW h \in held, h.addr = a PROVE FALSE
      OBVIOUS
    <2> DEFINE q == [addr |-> a, order |-> Fixup(h.order)]
               A == Free \cup Held
    <2>1. q \in Held
      BY <1>2, HeldIs
    <2>2. IsPartition(A) /\ Free \cap Held = {}
      BY <1>1 DEF Sound
    <2>3. q \in A /\ r \in A /\ q.addr = a /\ r.addr = a /\ r.order = j
      BY <1>1, <2>1
    <2>4. In(q.addr, r)
      BY <2>3, SameEq DEF In
    <2> HIDE DEF q, r, A
    <2>5. q = r
      BY <2>2, <2>3, <2>4, Apart
    <2> QED
      BY <1>1, <2>1, <2>2, <2>5 DEF r
  <1>6. OneHolder'
    <2>1. \A h \in held' : h \in held \/ (h = new /\ h.addr = a)
      BY <1>1
    <2> HIDE DEF new
    <2> QED
      BY <1>2, <1>5, <2>1 DEF OneHolder
  <1>7. F2 = Free'
    BY <1>1, NextFree
  <1>8. Sound(avail', tag_bits', block_order', Free', Held')
    BY <1>1, <1>3, <1>7
  <1>9. SoundIs'
    BY SoundIs, PTL
  <1> QED
    BY <1>4, <1>6, <1>8, <1>9

(* What buddy_free does: the order up to which it merges. *)
LEMMA FreeActionIs ==
    ASSUME BuddyInv, NEW h \in held, buddy_free(h)
    PROVE  LET b == h.addr
               o == Fixup(h.order)
           IN  \E top \in Orders :
                  /\ b \in Blocks /\ o \in Orders
                  /\ Sound(avail', tag_bits', block_order',
                           MergeFree(Free, b, o, top), MergeHeld(Held, b, o))
                  /\ held' = held \ {h}
  <1> DEFINE b == h.addr
             o == Fixup(h.order)
             ends == {k \in o .. pool_order : ~CanMerge(b, k)}
             top == Min(ends)
  <1>1. Sound(avail, tag_bits, block_order, Free, Held) /\ HeldType
    BY SoundIs
  <1>2. b \in Blocks /\ h.order \in 0 .. pool_order /\ [addr |-> b, order |-> o] \in Held
    BY <1>1, HeldIs
  <1>3. o \in Orders /\ o \in Nat /\ o <= pool_order /\ pool_order \in Nat
    BY <1>2, FixupIs, OrdersAre
  <1>4. ends \in SUBSET Nat /\ pool_order \in ends
    BY <1>3 DEF CanMerge
  <1>5. top \in ends /\ \A k \in ends : top <= k
    <2> HIDE DEF ends
    <2> QED
      BY <1>4, MinIsLeast
  <1>6. top = MergedOrder(b, o)
    BY DEF MergedOrder
  <1>7. /\ avail' = MergeLists(avail, b, o, top)
        /\ tag_bits' = mark_available(tag_bits, {MergedAddr(b, top)})
        /\ block_order' = MergeOrders(block_order, b, o, top)
        /\ held' = held \ {h}
    <2> HIDE DEF top
    <2> QED
      BY <1>6 DEF buddy_free, MergeLists, MergeOrders
  <1>8. \A k : CanMerge(b, k) <=> Mergeable(tag_bits, block_order, b, k)
    BY DEF CanMerge, Mergeable, OtherHalf
  <1> HIDE DEF top, o, b
  <1>9. top \in Orders /\ o <= top /\ top \in Nat
    BY <1>3, <1>5, OrdersAre
  <1>10. MergesTo(tag_bits, block_order, b, o, top)
    <2>1. ASSUME NEW k \in o .. top - 1 PROVE CanMerge(b, k)
      <3>1. k \in o .. pool_order /\ ~(top <= k)
        BY <1>3, <1>5, <1>9
      <3> QED
        BY <1>5, <3>1
    <2>2. ~CanMerge(b, top)
      BY <1>5
    <2> QED
      BY <1>8, <1>9, <2>1, <2>2 DEF MergesTo
  <1> HIDE DEF ends
  <1>11. Sound(MergeLists(avail, b, o, top), mark_available(tag_bits, {MergedAddr(b, top)}),
               MergeOrders(block_order, b, o, top), MergeFree(Free, b, o, top),
               MergeHeld(Held, b, o))
    BY <1>1, <1>2, <1>3, <1>9, <1>10, FreeStep
  <1>12. Sound(avail', tag_bits', block_order', MergeFree(Free, b, o, top), MergeHeld(Held, b, o))
    BY <1>7, <1>11, Zenon
  <1> QED
    BY <1>2, <1>3, <1>7, <1>9, <1>12 DEF b, o

(* The blocks held after a free: no other client has the same block.        *)
LEMMA FreeHeldIs ==
    ASSUME HeldType, OneHolder, NEW h \in held, held' = held \ {h}
    PROVE  Held' = MergeHeld(Held, h.addr, Fixup(h.order))
  <1> DEFINE block(x) == [addr |-> x.addr, order |-> Fixup(x.order)]
  <1>1. Held = {block(x) : x \in held} /\ Held' = {block(x) : x \in held'}
    BY DEF Held, Fixup
  <1>2. \A x \in held : block(x) = block(h) => x = h
    BY DEF OneHolder
  <1>3. MergeHeld(Held, h.addr, Fixup(h.order)) = Held \ {block(h)}
    BY DEF MergeHeld
  <1> HIDE DEF block
  <1> QED
    BY <1>1, <1>2, <1>3

(* buddy_free as an action.                                                 *)
LEMMA FreeHolds ==
    ASSUME BuddyInv, NEW h \in held, buddy_free(h)
    PROVE  BuddyInv'
  <1> DEFINE b == h.addr
             o == Fixup(h.order)
  <1>1. PICK top \in Orders :
           /\ b \in Blocks /\ o \in Orders
           /\ Sound(avail', tag_bits', block_order',
                    MergeFree(Free, b, o, top), MergeHeld(Held, b, o))
           /\ held' = held \ {h}
    BY FreeActionIs
  <1>2. HeldType /\ OneHolder
    BY SoundIs
  <1>3. Held' = MergeHeld(Held, b, o)
    BY <1>1, <1>2, FreeHeldIs
  <1>4. MergeFree(Free, b, o, top) = Free'
    BY <1>1, NextFree
  <1>5. Sound(avail', tag_bits', block_order', Free', Held')
    BY <1>1, <1>3, <1>4
  <1>6. HeldType' /\ OneHolder'
    BY <1>1, <1>2 DEF HeldType, OneHolder
  <1>7. SoundIs'
    BY SoundIs, PTL
  <1> QED
    BY <1>5, <1>6, <1>7

(* One step per action.                                                     *)
LEMMA BuddyStep == BuddyInv /\ [Next]_vars => BuddyInv'
  <1> SUFFICES ASSUME BuddyInv, [Next]_vars PROVE BuddyInv'
    OBVIOUS
  <1>1. CASE UNCHANGED vars
    BY <1>1 DEF vars, BuddyInv, TypeOK, PoolInv, Partition, TagsAreRight, NoFreeBuddies,
                Free, Held, Units, find_buddy, Fixup, Blocks, Orders
  <1>2. ASSUME NEW order \in 0 .. pool_order, buddy_alloc(order) PROVE BuddyInv'
    BY <1>2, AllocHolds
  <1>3. ASSUME NEW order \in 0 .. pool_order, AllocFails(order) PROVE BuddyInv'
    BY <1>1, <1>3 DEF AllocFails
  <1>4. ASSUME NEW h \in held, buddy_free(h) PROVE BuddyInv'
    BY <1>4, FreeHolds
  <1> QED
    BY <1>1, <1>2, <1>3, <1>4 DEF Next

(* The inductive invariant: types, the partition, the tags and order fields *)
(* at the addresses of blocks, and no two free buddies.  They need each     *)
(* other: a merge takes the right blocks because the tags are right, the    *)
(* tags are right because the blocks do not overlap, and only the loop that *)
(* merges as far as it can leaves no two free buddies.                      *)
THEOREM BuddySafe == Spec => []BuddyInv
  BY InitSound, BuddyStep, PTL DEF Spec

(* No byte of the pool is in two blocks or in none, and what buddy_free     *)
(* reads of a buddy was written by the allocator, through any sequence of   *)
(* splits and merges in a pool of any size.                                 *)
THEOREM BuddyPoolInv == Spec => []PoolInv
  <1>1. BuddyInv => PoolInv
    BY DEF BuddyInv
  <1> QED
    BY <1>1, BuddySafe, PTL

----------------------------------------------------------------------------
(* A region of which nothing is held and that no free block covers is made  *)
(* of smaller free blocks; the buddy of the smallest of them lies in the    *)
(* region too, in no larger pieces and in no smaller ones: it is free, and  *)
(* the two had to be merged.                                                *)
LEMMA FullIs == BuddyInv => FailsOnlyWhenFull
  <1> SUFFICES ASSUME BuddyInv, NEW o \in Orders, \A j \in o .. pool_order : avail[j] = <<>>,
                      NEW b \in Blocks, b % Pow2[o] = 0,
                      \A h \in Held : Units(b, o) \cap Units(h.addr, h.order) = {}
               PROVE  FALSE
    BY DEF FailsOnlyWhenFull
  <1> DEFINE A == Free \cup Held
             S == {k \in Nat : \E p \in Free : p.order = k /\ Same(p.addr, b, o)}
  <1>1. /\ IsPartition(A) /\ Free = FreeOf(avail)
        /\ \A p \in Free : p.order < pool_order =>
              [addr |-> OtherHalf(p.addr, p.order), order |-> p.order] \notin Free
    BY SoundIs DEF Sound
  <1>2. b \in Nat /\ o \in Nat /\ Aligned(b, o) /\ o <= pool_order /\ pool_order \in Nat
    BY InPool, OrdersAre DEF Aligned
  <1>3. \A p \in A : /\ p \in Block /\ p.addr \in Blocks /\ p.addr \in Nat /\ p.order \in Orders
                     /\ p.order \in Nat /\ p.order <= pool_order /\ In(p.addr, p)
                     /\ Aligned(p.addr, p.order)
    BY <1>1, BlockIs DEF IsPartition
  <1>4. \A p \in Free : p.order < o
    <2> SUFFICES ASSUME NEW p \in Free, ~(p.order < o) PROVE FALSE
      OBVIOUS
    <2>1. p.order \in o .. pool_order
      BY <1>2, <1>3
    <2>2. avail[p.order] = << >>
      BY <2>1
    <2>3. p.addr \in ToSet(avail[p.order])
      BY <1>1 DEF FreeOf
    <2> QED
      BY <2>2, <2>3 DEF ToSet
  \* no unit of the region is held
  <1>5. ASSUME NEW h \in Held, NEW y \in Blocks, Same(y, b, o), In(y, h) PROVE FALSE
    <2>1. y \in Units(b, o)
      BY <1>2, <1>5, UnitsIs
    <2>2. y \in Units(h.addr, h.order)
      BY <1>3, <1>5, InUnits
    <2> QED
      BY <2>1, <2>2
  <1>6. S # {}
    <2>1. PICK p \in A : In(b, p)
      BY <1>1 DEF IsPartition
    <2>2. p \in Free
      BY <1>5, <2>1, SameEq
    <2>3. Same(b, p.addr, o)
      BY <1>2, <1>3, <1>4, <2>1, <2>2, SameUp DEF In
    <2>4. Same(p.addr, b, o)
      BY <2>3, SameEq
    <2>5. p.order \in S
      BY <1>3, <2>2, <2>4
    <2> QED
      BY <2>5
  <1>7. PICK k \in S : \A l \in S : k <= l
    <2>1. S \in SUBSET Nat
      OBVIOUS
    <2> HIDE DEF S
    <2> QED
      BY <1>6, <2>1, MinIsLeast
  <1>8. PICK p \in Free : p.order = k /\ Same(p.addr, b, o)
    BY <1>7
  <1> DEFINE c == OtherHalf(p.addr, k)
  <1>9. k \in Orders /\ k \in Nat /\ k < o /\ k < pool_order /\ k + 1 \in Nat /\ k + 1 <= o
    BY <1>2, <1>3, <1>4, <1>8
  <1>10. PICK q \in A : q.addr = c /\ q.order <= k
    <2>1. p \in A /\ p.order <= k
      BY <1>8, <1>9
    <2> HIDE DEF A
    <2> QED
      BY <1>1, <1>9, <2>1, <1>8, AtOtherHalf
  <1>11. c \in Nat /\ Same(c, b, o)
    <2>1. c \in Nat /\ Same(c, p.addr, k + 1)
      BY <1>3, <1>9, OtherHalfIs
    <2>2. Same(c, p.addr, o)
      BY <1>2, <1>3, <1>9, <2>1, SameUp
    <2> QED
      BY <1>8, <2>1, <2>2, SameEq
  <1> HIDE DEF c
  <1>12. q \in Free
    BY <1>3, <1>5, <1>10, <1>11
  <1>13. q.order \in S
    BY <1>3, <1>10, <1>11, <1>12
  <1>14. q.order = k
    <2> HIDE DEF S
    <2> QED
      BY <1>3, <1>7, <1>9, <1>10, <1>13
  <1>15. q = [addr |-> OtherHalf(p.addr, p.order), order |-> p.order]
    BY <1>3, <1>8, <1>10, <1>14, BlockIs DEF c
  <1> QED
    BY <1>1, <1>8, <1>9, <1>12, <1>15

(* buddy_alloc returns NULL only when part of every aligned region of the   *)
(* size it was asked for is held.                                           *)
THEOREM BuddyFailsOnlyWhenFull == Spec => []FailsOnlyWhenFull
  BY FullIs, BuddySafe, PTL

----------------------------------------------------------------------------
(* The abstract pool has the same sizes.                                    *)
LEMMA PoolPow2 == Pool!Pow2 = Pow2
  BY DEF Pool!Pow2, Pow2

(* The block that buddy_alloc hands out is one of which nobody holds a part. *)
LEMMA AllocUnused ==
    ASSUME BuddyInv, NEW a \in Blocks, NEW j \in Orders, NEW o \in Orders, o <= j,
           [addr |-> a, order |-> j] \in Free
    PROVE  [addr |-> a, order |-> o] \in Unused(Held, pool_order, o)
  <1> DEFINE r == [addr |-> a, order |-> j]
             n == [addr |-> a, order |-> o]
             A == Free \cup Held
             P == Pow2[o]
  <1>1. IsPartition(A) /\ Free \cap Held = {}
    BY SoundIs DEF Sound
  <1>2. /\ a \in Nat /\ o \in Nat /\ j \in Nat /\ pool_order \in Nat /\ o <= pool_order
        /\ P \in Nat \ {0} /\ Pow2[pool_order] \in Nat \ {0}
    BY InPool, OrdersAre, Pow2Positive
  <1>3. r \in A /\ r.addr = a /\ r.order = j
    OBVIOUS
  <1>4. Aligned(a, o)
    <2>1. Aligned(a, j)
      BY <1>1, <1>3 DEF IsPartition
    <2> QED
      BY <1>2, <2>1, AlignedDown
  <1> HIDE DEF P, r
  <1>5. a \in 0 .. Pow2[pool_order] - P
    <2> DEFINE y == a + P - 1
    <2>1. y \in Nat /\ a <= y /\ y < a + P
      BY <1>2
    <2> HIDE DEF y
    <2>2. Same(y, a, o)
      BY <1>2, <1>4, <2>1, WithinIs DEF P
    <2>3. Same(y, a, pool_order) /\ Same(a, 0, pool_order)
      BY <1>2, <2>1, <2>2, SameUp, InPool
    <2>4. Same(y, 0, pool_order)
      BY <2>3, SameEq
    <2>5. y < Pow2[pool_order]
      <3>1. Aligned(0, pool_order)
        BY <1>2 DEF Aligned
      <3>2. y < 0 + Pow2[pool_order]
        BY <1>2, <2>1, <2>4, <3>1, WithinIs
      <3> QED
        BY <1>2, <3>2
    <2> QED
      BY <1>2, <2>1, <2>5 DEF y
  <1>6. ASSUME NEW x \in Held, NEW y \in UnitsOf(n) \cap UnitsOf(x) PROVE FALSE
    <2>1. x \in A /\ x # r
      BY <1>1 DEF r
    <2>2. /\ x.addr \in Nat /\ x.order \in Nat /\ Aligned(x.addr, x.order)
          /\ Pow2[x.order] \in Nat \ {0}
      BY <1>1, <2>1, BlockIs, Pow2Positive DEF IsPartition
    <2>3. y \in Nat /\ a <= y /\ y < a + P
      BY <1>2, <1>6 DEF UnitsOf, P
    <2>4. x.addr <= y /\ y < x.addr + Pow2[x.order]
      BY <1>6, <2>2 DEF UnitsOf
    <2>5. Same(y, a, o)
      BY <1>2, <1>4, <2>3, WithinIs DEF P
    <2>6. Same(y, x.addr, x.order)
      BY <2>2, <2>3, <2>4, WithinIs
    <2>7. CASE o <= x.order
      <3>1. Same(y, a, x.order)
        BY <1>2, <2>2, <2>3, <2>5, <2>7, SameUp
      <3>2. In(r.addr, x)
        BY <1>3, <2>6, <3>1, SameEq DEF In
      <3> HIDE DEF A
      <3> QED
        BY <1>1, <1>3, <2>1, <3>2, Apart
    <2>8. CASE x.order <= o
      <3>1. Same(y, x.addr, o)
        BY <1>2, <2>2, <2>3, <2>6, <2>8, SameUp
      <3>2. Same(x.addr, a, o)
        BY <2>5, <3>1, SameEq
      <3>3. Same(x.addr, a, j)
        BY <1>2, <2>2, <3>2, SameUp
      <3>4. In(x.addr, r)
        BY <1>3, <3>3 DEF In
      <3> HIDE DEF A
      <3> QED
        BY <1>1, <1>3, <2>1, <3>4, Apart
    <2> QED
      BY <1>2, <2>2, <2>7, <2>8
  <1>7. n \in [addr : {x \in 0 .. Pow2[pool_order] - P : x % P = 0}, order : {o}]
    BY <1>4, <1>5 DEF Aligned, P
  <1> HIDE DEF n
  <1>8. n \in Unused(Held, pool_order, o)
    BY <1>6, <1>7 DEF Unused, P
  <1> QED
    BY <1>8 DEF n

(* The initial state is one of the abstract pool.                           *)
LEMMA PoolInitIs == Init => Pool!Init
  <1>1. Fixup(pool_order) = pool_order
    BY OrdersAssumption DEF Fixup
  <1> QED
    BY <1>1 DEF Init, Held, Pool!Init

(* Every step is a step of the abstract pool or leaves it alone.            *)
LEMMA PoolStep == BuddyInv /\ [Next]_vars => [Pool!Next]_Held
  <1> SUFFICES ASSUME BuddyInv, [Next]_vars PROVE [Pool!Next]_Held
    OBVIOUS
  <1>1. CASE UNCHANGED vars
    BY <1>1 DEF vars, Held, Fixup
  <1>2. ASSUME NEW order \in 0 .. pool_order, buddy_alloc(order) PROVE Pool!Next
    <2> DEFINE o == Fixup(order)
    <2>1. PICK j \in Orders, a \in Blocks :
             /\ Sound(avail, tag_bits, block_order, Free, Held)
             /\ [addr |-> a, order |-> j] \in Free
             /\ [addr |-> a, order |-> o] \notin Held
             /\ o \in Orders /\ o <= j
             /\ Sound(avail', tag_bits', block_order',
                      SplitFree(Free, a, o, j), SplitHeld(Held, a, o))
             /\ held' = held \cup {[addr |-> a, order |-> order]}
      BY <1>2, AllocIs
    <2>2. Held' = Held \cup {[addr |-> a, order |-> o]}
      BY <2>1, AllocHeldIs DEF SplitHeld
    <2>3. [addr |-> a, order |-> o] \in Unused(Held, pool_order, o)
      BY <2>1, AllocUnused
    <2>4. Pool!Unused(Held, pool_order, o) = Unused(Held, pool_order, o)
      BY PoolPow2 DEF Unused, UnitsOf, Pool!Unused, Pool!UnitsOf
    <2>5. o \in min_order .. pool_order
      BY <2>1 DEF Orders
    <2> HIDE DEF o
    <2>6. Pool!Alloc(o)
      BY <2>2, <2>3, <2>4 DEF Pool!Alloc
    <2> QED
      BY <2>5, <2>6 DEF Pool!Next
  <1>3. ASSUME NEW order \in 0 .. pool_order, AllocFails(order) PROVE UNCHANGED Held
    BY <1>3 DEF AllocFails, vars, Held, Fixup
  <1>4. ASSUME NEW h \in held, buddy_free(h) PROVE Pool!Next
    <2> DEFINE g == [addr |-> h.addr, order |-> Fixup(h.order)]
    <2>1. HeldType /\ OneHolder
      BY SoundIs
    <2>2. held' = held \ {h}
      BY <1>4 DEF buddy_free
    <2>3. Held' = Held \ {g} /\ g \in Held
      BY <2>1, <2>2, FreeHeldIs, HeldIs DEF MergeHeld
    <2> HIDE DEF g
    <2> QED
      BY <2>3 DEF Pool!Next, Pool!Free
  <1> QED
    BY <1>1, <1>2, <1>3, <1>4 DEF Next

(* The allocator implements the abstract pool that the driver relies on:    *)
(* what it hands out is aligned and nobody holds a part of it.              *)
THEOREM BuddyImplementsPool == Spec => PoolContract
  BY PoolInitIs, PoolStep, BuddySafe, PTL DEF Spec, PoolContract, Pool!Spec

=============================================================================
