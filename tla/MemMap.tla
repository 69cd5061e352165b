------------------------------ MODULE MemMap ------------------------------
(***************************************************************************)
(* The memory map of VMproject/on_demand.c: a process's part of the petmem *)
(* range as a list of adjacent nodes, free or allocated, in address order. *)
(* Addresses and sizes are in pages and relative to PETMEM_REGION_START.   *)
(* petmem_ioctl's LAZY_ALLOC rounds a byte count up to pages; the count of *)
(* pages may be 0.                                                         *)
(*                                                                         *)
(* This module has the map alone; OnDemand adds the page tables that       *)
(* petmem_free_vspace and the fault handler also change.                   *)
(***************************************************************************)
EXTENDS Integers, Sequences, SequencesExt

CONSTANTS
    RegionPages,    \* pages between PETMEM_REGION_START and _END
    Sizes,          \* page counts asked for
    MaxNodes        \* bound: nodes in the map

ASSUME RegionAssumption == RegionPages \in Nat \ {0}
ASSUME SizesAssumption == Sizes \subseteq Nat
ASSUME MaxNodesAssumption == MaxNodes \in Nat \ {0}

VARIABLES
    map,            \* the nodes after the list head map0
    head_allocated, \* map0->allocated, which nothing initialises
    file,           \* "open", "closing" in petmem_deinit_process, "closed"
    failed          \* has list_del been called on a deleted node

mapVars == <<map, head_allocated, file, failed>>

(* petmem_init_process, called by petmem_open *)
MapInit ==
    /\ map = <<[start |-> 0, size |-> RegionPages, allocated |-> FALSE]>>
    /\ head_allocated \in BOOLEAN
    /\ file = "open"
    /\ failed = FALSE

----------------------------------------------------------------------------
(* Mutant: does not look whether the node is allocated. *)
FitsAllocated(node, n) == node.size >= n

(* the test of petmem_alloc_vspace's loop *)
Fits(node, n) == ~node.allocated /\ node.size >= n

Fitting(n) == {i \in DOMAIN map : Fits(map[i], n)}

(* Mutant: no node for a remainder of size 0. *)
SplitExact(node, n) ==
    <<[start |-> node.start, size |-> n, allocated |-> TRUE]>>
        \o IF node.size = n THEN <<>>
           ELSE <<[start |-> node.start + n, size |-> node.size - n,
                   allocated |-> FALSE]>>

(* Mutant: the remainder keeps the size of the whole node. *)
SplitWhole(node, n) ==
    <<[start |-> node.start, size |-> n, allocated |-> TRUE],
      [start |-> node.start + n, size |-> node.size, allocated |-> FALSE]>>

(* what becomes of the node that is found: the allocated part, and a free   *)
(* node for what remains of it, even if that is nothing                     *)
Split(node, n) ==
    <<[start |-> node.start, size |-> n, allocated |-> TRUE],
      [start |-> node.start + n, size |-> node.size - n, allocated |-> FALSE]>>

(* petmem_alloc_vspace: first fit *)
MapAlloc(n) ==
    LET i == Min(Fitting(n))
    IN  /\ Fitting(n) # {}
        /\ map' = SubSeq(map, 1, i - 1) \o Split(map[i], n)
                      \o SubSeq(map, i + 1, Len(map))

(* petmem_find_address: the nodes it can return for a page *)
FindAddress(page) ==
    {i \in DOMAIN map : /\ map[i].allocated
                        /\ page >= map[i].start
                        /\ page < map[i].start + map[i].size}

(* the nodes that petmem_free_vspace's loop stops at for an address *)
Freeable(page) == {i \in DOMAIN map : map[i].start = page /\ map[i].allocated}

(* The tests for merging node i with its neighbours.  The node before the   *)
(* first and after the last is map0, whose head field excludes it as the    *)
(* previous node; as the next node only its allocated field does, unless it *)
(* is the previous node too.                                                *)
MergesPrev(i) == i > 1 /\ ~map[i - 1].allocated

(* Mutant: never merges with the next node. *)
MergesNextNever(i) == FALSE

MergesNext(i) ==
    IF i < Len(map) THEN ~map[i + 1].allocated ELSE i > 1 /\ ~head_allocated

(* The map after petmem_free_vspace has freed node i.  Merging it into map0 *)
(* would only take it out of the list.                                      *)
Freed(i) ==
    LET lo == IF MergesPrev(i) THEN i - 1 ELSE i
        hi == IF MergesNext(i) /\ i < Len(map) THEN i + 1 ELSE i
        last == map[hi]
        merged == [start |-> map[lo].start,
                   size |-> last.start + last.size - map[lo].start,
                   allocated |-> FALSE]
        lost == MergesNext(i) /\ i = Len(map)
    IN  SubSeq(map, 1, lo - 1) \o (IF lost THEN <<>> ELSE <<merged>>)
            \o SubSeq(map, hi + 1, Len(map))

----------------------------------------------------------------------------
(* The operations on an open file. *)

LazyAlloc(n) ==
    /\ file = "open" /\ Len(map) < MaxNodes
    /\ MapAlloc(n)
    /\ UNCHANGED <<head_allocated, file, failed>>

(* petmem_alloc_vspace returns NULL *)
LazyAllocFails(n) ==
    /\ file = "open" /\ Fitting(n) = {}
    /\ UNCHANGED mapVars

(* the map's part of petmem_free_vspace *)
LazyFree(page) ==
    /\ file = "open" /\ Freeable(page) # {}
    /\ map' = Freed(Min(Freeable(page)))
    /\ UNCHANGED <<head_allocated, file, failed>>

(* petmem_free_vspace of an address where nothing is allocated *)
LazyFreeUnmapped(page) ==
    /\ file = "open" /\ Freeable(page) = {}
    /\ UNCHANGED mapVars

(* petmem_release calls petmem_deinit_process *)
Close ==
    /\ file = "open"
    /\ file' = "closing"
    /\ UNCHANGED <<map, head_allocated, failed>>

(* One round of petmem_deinit_process's loop: the first node is freed if it *)
(* is allocated, and then deleted, a second time if freeing it merged it    *)
(* with the next node.                                                      *)
CloseNode ==
    /\ file = "closing" /\ map # <<>> /\ ~failed
    /\ IF map[1].allocated /\ MergesNext(1)
       THEN failed' = TRUE /\ UNCHANGED map
       ELSE map' = Tail(map) /\ UNCHANGED failed
    /\ UNCHANGED <<head_allocated, file>>

CloseDone ==
    /\ file = "closing" /\ map = <<>>
    /\ file' = "closed"
    /\ UNCHANGED <<map, head_allocated, failed>>

MapNext ==
    \/ \E n \in Sizes : LazyAlloc(n) \/ LazyAllocFails(n)
    \/ \E page \in 0 .. RegionPages : LazyFree(page) \/ LazyFreeUnmapped(page)
    \/ Close
    \/ CloseNode
    \/ CloseDone

MapSpec == MapInit /\ [][MapNext]_mapVars

----------------------------------------------------------------------------
MapTypeOK ==
    /\ map \in Seq([start : 0 .. RegionPages, size : 0 .. RegionPages,
                    allocated : BOOLEAN])
    /\ head_allocated \in BOOLEAN
    /\ file \in {"open", "closing", "closed"}
    /\ failed \in BOOLEAN

(* While the file is open the nodes cover the whole range in order, with no *)
(* gap and no overlap, whatever has been split and merged before: no        *)
(* address is lost and none is handed out twice.                            *)
Tiles ==
    file = "open" =>
        /\ map # <<>> /\ map[1].start = 0
        /\ Last(map).start + Last(map).size = RegionPages
        /\ \A i \in 1 .. Len(map) - 1 :
              map[i + 1].start = map[i].start + map[i].size

(* No two free nodes are adjacent and the last node is free.  The second    *)
(* part is why map0's uninitialised allocated field never decides anything: *)
(* a node that is freed always has a real next node.                        *)
Coalesced ==
    file = "open" =>
        /\ ~Last(map).allocated
        /\ \A i \in 1 .. Len(map) - 1 : map[i].allocated \/ map[i + 1].allocated

(* An allocation fails only when every run of that many pages meets a       *)
(* region that is still held, or has a held region of no pages inside it:   *)
(* freeing leaves no fragmentation of its own.                              *)
FailsOnlyWhenFull ==
    file = "open" =>
        \A n \in Sizes : Fitting(n) = {} =>
            \A p \in 0 .. RegionPages - n :
                \E i \in DOMAIN map :
                    /\ map[i].allocated
                    /\ map[i].start < p + n /\ p < map[i].start + map[i].size

(* The nodes lie in the range, in order and without overlap, also while     *)
(* petmem_deinit_process takes them away from the front.                    *)
NodesInOrder ==
    /\ \A i \in DOMAIN map : map[i].start + map[i].size <= RegionPages
    /\ \A i, j \in DOMAIN map :
          i < j => map[i].start + map[i].size <= map[j].start

(* The inductive invariant behind Tiles, Coalesced and VspaceContract. *)
MapInv == MapTypeOK /\ NodesInOrder /\ Tiles /\ Coalesced

(* The regions a process holds behave as AbstractVspace says. *)
Held == {[start |-> map[i].start, size |-> map[i].size] :
            i \in {j \in DOMAIN map : map[j].allocated /\ map[j].size > 0}}
Vspace == INSTANCE AbstractVspace WITH held <- Held
VspaceContract == Vspace!Spec

============================================================================
