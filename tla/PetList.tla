------------------------------ MODULE PetList ------------------------------
(***************************************************************************)
(* The doubly linked lists of Threads/pet_list.h, on which the threads of  *)
(* PetThread and, in the kernel's own copy, the nodes of MemMap and the    *)
(* free blocks of Buddy are kept.  Those modules have sequences where the  *)
(* code has links; this one has the links, and BuddyProofs shows that      *)
(* each operation does to the links what the sequence operator does.       *)
(*                                                                         *)
(* Links are a record m of two functions on Nodes, next and prev.  A list  *)
(* has a head, which is a node and not an element.                         *)
(***************************************************************************)
EXTENDS Integers, Sequences

CONSTANTS
    Nodes,          \* every struct list_head in memory
    LIST_POISON1,   \* what list_del leaves in the entry
    LIST_POISON2

Links == [next : [Nodes -> Nodes \cup {LIST_POISON1}],
          prev : [Nodes -> Nodes \cup {LIST_POISON2}]]

(* list->next = next and list->prev = prev *)
SetNext(m, list, next) == [m EXCEPT !.next[list] = next]
SetPrev(m, list, prev) == [m EXCEPT !.prev[list] = prev]

INIT_LIST_HEAD(m, list) == SetPrev(SetNext(m, list, list), list, list)

(* the stores in the order of the code *)
__list_add(m, new, prev, next) ==
    SetNext(SetPrev(SetNext(SetPrev(m, next, new), new, next), new, prev), prev, new)

list_add(m, new, head) == __list_add(m, new, head, m.next[head])

list_add_tail(m, new, head) == __list_add(m, new, m.prev[head], head)

__list_del(m, prev, next) == SetNext(SetPrev(m, next, prev), prev, next)

list_del(m, entry) ==
    SetPrev(SetNext(__list_del(m, m.prev[entry], m.next[entry]), entry, LIST_POISON1),
            entry, LIST_POISON2)

list_del_init(m, entry) ==
    INIT_LIST_HEAD(__list_del(m, m.prev[entry], m.next[entry]), entry)

list_move(m, list, head) ==
    list_add(__list_del(m, m.prev[list], m.next[list]), list, head)

list_move_tail(m, list, head) ==
    list_add_tail(__list_del(m, m.prev[list], m.next[list]), list, head)

list_empty(m, head) == m.next[head] = head

----------------------------------------------------------------------------
(* What the links mean. *)

(* the node at place k of the ring that a head and the elements s make *)
At(head, s, k) == IF k \in 1 .. Len(s) THEN s[k] ELSE head

(* The list at head has exactly the elements s, in that order: each link    *)
(* forward has its link back, and nothing is in the list twice.             *)
Represents(m, head, s) ==
    /\ head \in Nodes /\ s \in Seq(Nodes)
    /\ \A k \in 1 .. Len(s) : s[k] # head
    /\ \A k, l \in 1 .. Len(s) : s[k] = s[l] => k = l
    /\ \A k \in 0 .. Len(s) :
          /\ m.next[At(head, s, k)] = At(head, s, k + 1)
          /\ m.prev[At(head, s, k + 1)] = At(head, s, k)

(* s with a new element behind place p *)
Inserted(s, p, new) ==
    [l \in 1 .. Len(s) + 1 |->
        IF l <= p THEN s[l] ELSE IF l = p + 1 THEN new ELSE s[l - 1]]

(* s without its element k *)
Without(s, k) == [l \in 1 .. Len(s) - 1 |-> IF l < k THEN s[l] ELSE s[l + 1]]

(* the nodes of a list, its head included *)
NodesOf(head, s) == {head} \cup {s[k] : k \in 1 .. Len(s)}

============================================================================
