----------------------------- MODULE OnDemand -----------------------------
(***************************************************************************)
(* Demand paging in VMproject/on_demand.c: one process, its memory map     *)
(* (MemMap) and the page tables that the fault handler fills and that      *)
(* petmem_free_vspace walks and empties.  Tables have R entries where the  *)
(* hardware has 512.  The petmem range lies in one PML entry, so the PML   *)
(* is a table of which only entry 0 is used.                               *)
(*                                                                         *)
(* The walk of petmem_free_vspace is a loop that keeps its position in     *)
(* local variables; one round of it is one action.  Where the code leaves  *)
(* the tables, uses one that it has given back or never got, uses a null   *)
(* pointer or frees a page twice the model stops with `harm' set: what     *)
(* follows depends on memory that is not the program's.                    *)
(***************************************************************************)
EXTENDS MemMap, FiniteSets

CONSTANTS
    R,              \* entries per table: 512
    Stride,         \* sizeof(pte64_t), the step of the emptiness loops: 8
    FirstPDP,       \* PDPE64_INDEX(PETMEM_REGION_START): 64
    NumPages,       \* bound: physical pages
    Touched         \* bound: pages of the range that the process touches

ASSUME TablesAssumption ==
    /\ {R, Stride, NumPages} \subseteq Nat \ {0} /\ FirstPDP \in 1 .. R - 1
    /\ RegionPages < (R - FirstPDP) * R * R
    /\ Touched \subseteq 0 .. RegionPages - 1

PML == 0
Phys == 1 .. NumPages
None == -1          \* an entry that is not present, or address 0
Own == -2           \* a PD of the program itself, outside the petmem range
Null == [table |-> None, index |-> 0]           \* a null entry pointer
NoWalk == [pages_covered |-> 0]
Empty == [i \in 0 .. R - 1 |-> None]

VARIABLES
    mem,            \* tables: the entries of each page, as a table;
                    \* used: the pages allocated and not freed; harm;
                    \* ended, history: has a free come to the end of a table
                    \* or gone on behind one that is missing
    walk            \* the locals of petmem_free_vspace's loop, or NoWalk

vars == <<mapVars, mem, walk>>

(* The PDP table may exist already, with an entry of the program's own. *)
Init ==
    /\ MapInit
    /\ \E own \in BOOLEAN :
          mem = [tables |-> [p \in {PML} \cup Phys |->
                               IF own /\ p = PML THEN [Empty EXCEPT ![0] = 1]
                               ELSE IF own /\ p = 1 THEN [Empty EXCEPT ![0] = Own]
                               ELSE Empty],
                 used |-> IF own THEN {1} ELSE {},
                 harm |-> "none", ended |-> FALSE]
    /\ walk = NoWalk

Idle == walk = NoWalk /\ ~failed /\ mem.harm = "none"

(* PDPE64_INDEX, PDE64_INDEX and PTE64_INDEX *)
PdpIndex(page) == FirstPDP + page \div (R * R)
PdIndex(page) == (page \div R) % R
PtIndex(page) == page % R

Entry(tables, table, i) == IF table = None THEN None ELSE tables[table][i]

(* the path to a page's entry, None from the first entry not present on *)
PdpOf(tables) == tables[PML][0]
PdOf(tables, page) == Entry(tables, PdpOf(tables), PdpIndex(page))
PtOf(tables, page) == Entry(tables, PdOf(tables, page), PdIndex(page))
PageOf(tables, page) == Entry(tables, PtOf(tables, page), PtIndex(page))

(* the table pages on the path *)
TablesOf(page) == {PdpOf(mem.tables), PdOf(mem.tables, page),
                   PtOf(mem.tables, page)} \ {None}

----------------------------------------------------------------------------
(* Linux's page allocator is external and serves the whole machine.  What   *)
(* this process does not have may be free or may have gone to the kernel or *)
(* to another process, and comes back as they like; get_zeroed_page gives   *)
(* pages that nobody has, or fails.  Pages that the process does not have   *)
(* look alike to the code, so it does not matter which ones it is given.    *)
FreePages == Phys \ mem.used
Fresh(n) == CHOOSE p \in FreePages : Cardinality({q \in FreePages : q <= p}) = n

(* walk_page_table(fault_addr, 1) and the rest of petmem_handle_pagefault:  *)
(* allocate the tables missing on the way, and the page.                    *)
Mapped(page) ==
    LET old == mem.tables
        get(p, n) == IF p = None THEN Fresh(n) ELSE p
        pdp == get(PdpOf(old), 1)
        pd == get(PdOf(old, page), 2)
        pt == get(PtOf(old, page), 3)
        new == {pdp, pd, pt, Fresh(4)} \ mem.used
        zeroed == [p \in DOMAIN old |-> IF p \in new THEN Empty ELSE old[p]]
    IN  [tables |-> [zeroed EXCEPT ![PML][0] = pdp, ![pdp][PdpIndex(page)] = pd,
                                   ![pd][PdIndex(page)] = pt,
                                   ![pt][PtIndex(page)] = Fresh(4)],
         used |-> mem.used \cup new, harm |-> mem.harm, ended |-> mem.ended]

(* The process touches a page that is not present, and its SIGSEGV handler  *)
(* calls PAGE_FAULT.  (A touch that finds an old translation in the TLB has *)
(* no fault and changes nothing here.)  Bound: pages enough for a fault.    *)
HandlePagefault(page) ==
    /\ Idle /\ file = "open"
    /\ PageOf(mem.tables, page) = None
    /\ FindAddress(page) # {}
    /\ Cardinality(FreePages) >= 4
    /\ mem' = IF TablesOf(page) \subseteq mem.used THEN Mapped(page)
              ELSE [mem EXCEPT !.harm = "outside"]
    /\ UNCHANGED <<mapVars, walk>>

(* One of the calls of get_zeroed_page fails.  Nothing looks at its result: *)
(* the entry is made to point at a page that is not the program's.          *)
PagefaultNoMemory(page) ==
    /\ Idle /\ file = "open"
    /\ PageOf(mem.tables, page) = None
    /\ FindAddress(page) # {}
    /\ mem' = [mem EXCEPT !.harm = "no memory"]
    /\ UNCHANGED <<mapVars, walk>>

(* PAGE_FAULT returns 1 for an address that is not allocated or a           *)
(* permission error: the process is killed and its file is closed.          *)
PagefaultRefused(page, error_code) ==
    /\ Idle /\ file = "open"
    /\ PageOf(mem.tables, page) = None
    /\ error_code = 2 \/ FindAddress(page) = {}
    /\ file' = "closing"
    /\ UNCHANGED <<map, head_allocated, failed, mem, walk>>

----------------------------------------------------------------------------
(* petmem_free_vspace's walk. *)

(* The locals at the start.  `deinit' says what petmem_deinit_process does  *)
(* with the node afterwards: nothing when it is not the caller, else        *)
(* whether the node has been deleted already.                               *)
WalkFrom(node, deinit) ==
    [start |-> node.start, num_pages |-> node.size, pages_covered |-> 0,
     pdp_index |-> PdpIndex(node.start), pd_index |-> PdIndex(node.start),
     pt_index |-> PtIndex(node.start),
     pdp_cur |-> Null, pd_cur |-> Null, pt_cur |-> Null,
     pdp_mine |-> FALSE, pd_mine |-> FALSE, pt_mine |-> FALSE, deinit |-> deinit]

At(table, i) == [table |-> table, index |-> i]

(* Where the round gets to from w: the level that is not present, the page  *)
(* table entry, or outside: behind a table, whose index is never set back   *)
(* to 0, or in a table page that has been given back.                       *)
Reach(w) ==
    LET pdp == PdpOf(mem.tables)
        pd == Entry(mem.tables, pdp, w.pdp_index)
        pt == Entry(mem.tables, pd, w.pd_index)
    IN  IF pdp = None THEN "no pdp"
        ELSE IF pdp \notin mem.used \/ w.pdp_index >= R THEN "outside"
        ELSE IF pd = None THEN "no pd"
        ELSE IF pd \notin mem.used \/ w.pd_index >= R THEN "outside"
        ELSE IF pt = None THEN "no pt"
        ELSE IF pt \notin mem.used \/ w.pt_index >= R THEN "outside"
        ELSE "pte"

(* Mutant: does not count the pages below an absent PDP table. *)
CoveredPdp(w) ==
    CASE Reach(w) = "no pd" -> (R - w.pd_index) * (R - w.pt_index)
      [] Reach(w) = "no pt" -> R - w.pt_index
      [] Reach(w) = "pte" -> 1
      [] OTHER -> 0

(* What the round adds to pages_covered, which may be negative: an index    *)
(* that has run past R is not set back before its table is gone.            *)
Covered(w) ==
    CASE Reach(w) = "no pdp" ->
           (R - w.pdp_index) * (R - w.pd_index) * (R - w.pt_index)
      [] Reach(w) = "no pd" -> (R - w.pd_index) * (R - w.pt_index)
      [] Reach(w) = "no pt" -> R - w.pt_index
      [] Reach(w) = "pte" -> 1

(* the locals at the label cascade *)
Descend(w) ==
    LET pdp == PdpOf(mem.tables)
        pd == Entry(mem.tables, pdp, w.pdp_index)
        pt == Entry(mem.tables, pd, w.pd_index)
    IN  CASE Reach(w) = "no pdp" ->
               [w EXCEPT !.pages_covered = @ + Covered(w),
                         !.pdp_index = 0, !.pd_index = 0, !.pt_index = 0,
                         !.pdp_mine = TRUE, !.pd_mine = TRUE, !.pt_mine = TRUE]
          [] Reach(w) = "no pd" ->
               [w EXCEPT !.pages_covered = @ + Covered(w),
                         !.pdp_cur = At(pdp, w.pdp_index),
                         !.pdp_index = @ + 1, !.pd_index = 0, !.pt_index = 0,
                         !.pd_mine = TRUE, !.pt_mine = TRUE]
          [] Reach(w) = "no pt" ->
               [w EXCEPT !.pages_covered = @ + Covered(w),
                         !.pdp_cur = At(pdp, w.pdp_index),
                         !.pd_cur = At(pd, w.pd_index),
                         !.pd_index = @ + 1, !.pt_index = 0, !.pt_mine = TRUE]
          [] Reach(w) = "pte" ->
               [w EXCEPT !.pages_covered = @ + Covered(w),
                         !.pdp_cur = At(pdp, w.pdp_index),
                         !.pd_cur = At(pd, w.pd_index),
                         !.pt_cur = At(pt, w.pt_index),
                         !.pt_index = @ + 1]

(* the increments at the label cascade *)
Cascade(w) ==
    LET pd_index == w.pd_index + 1
    IN  IF w.pt_index % R # 0 THEN w
        ELSE [w EXCEPT !.pd_index = pd_index,
                       !.pdp_index = IF pd_index % R = 0 THEN @ + 1 ELSE @]

(* Mutant: unmaps the page without giving it back. *)
VisitKept(w) == [mem EXCEPT !.tables[w.pt_cur.table][w.pt_cur.index] = None]

(* The user page at the entry that the round reached, unmapped and freed.   *)
Visit(w) ==
    LET page == mem.tables[w.pt_cur.table][w.pt_cur.index]
    IN  IF page \notin mem.used \cup {None} THEN [mem EXCEPT !.harm = "freed twice"]
        ELSE IF page = None THEN mem
        ELSE [mem EXCEPT !.tables[w.pt_cur.table][w.pt_cur.index] = None,
                         !.used = @ \ {page}]

(* An index that has moved by other than 1 means that the table's last      *)
(* entry was checked.                                                       *)
Ended(new, old) == new # old + 1 /\ new # old

(* The table page that cur points into, freed and taken out of its parent. *)
Unlink(m, cur, parent) ==
    IF parent = Null THEN [m EXCEPT !.harm = "null pointer"]
    ELSE IF cur.table \notin m.used \cup {None} THEN [m EXCEPT !.harm = "freed twice"]
    ELSE [m EXCEPT !.tables[parent.table][parent.index] = None,
                   !.used = @ \ {cur.table}]

(* What the code after cascade may make of memory m at one level: the table *)
(* is freed if it is ours, or if the loop finds it empty.  That loop steps  *)
(* by Stride entries and goes on past the end of the table, so it may see   *)
(* an entry where there is none, and miss most of the table's own.          *)
FreeTable(m, ended, mine, cur, parent) ==
    LET seen == {m.tables[cur.table][i] : i \in {j \in 0 .. R - 1 : j % Stride = 0}}
        end == [m EXCEPT !.ended = TRUE]
    IN  IF ~ended \/ m.harm # "none" THEN {m}
        ELSE IF mine THEN {Unlink(end, cur, parent)}
        ELSE IF seen # {None} THEN {end}
        ELSE {end, Unlink(end, cur, parent)}

(* Mutants: one round more; two rounds less. *)
WalkingLonger(w) == w.pages_covered \in 0 .. w.num_pages + 1
WalkingShort(w) == w.pages_covered \in 0 .. w.num_pages - 2

(* the loop's condition: pages_covered is unsigned, so a value that has     *)
(* gone below 0 is larger than any num_pages                                *)
Walking(w) == w.pages_covered \in 0 .. w.num_pages

(* One round of the loop. *)
WalkRound ==
    LET w == Cascade(Descend(walk))
        m == IF Reach(walk) = "pte" THEN Visit(w)
             ELSE [mem EXCEPT !.ended = @ \/ Walking(w)]
    IN  /\ walk # NoWalk /\ mem.harm = "none" /\ Walking(walk)
        /\ Reach(walk) # "outside"
        /\ \E m1 \in FreeTable(m, Ended(w.pt_index, walk.pt_index), w.pt_mine,
                               w.pt_cur, w.pd_cur) :
           \E m2 \in FreeTable(m1, Ended(w.pd_index, walk.pd_index), w.pd_mine,
                               w.pd_cur, w.pdp_cur) :
              mem' \in FreeTable(m2, Ended(w.pdp_index, walk.pdp_index), w.pdp_mine,
                                 w.pdp_cur, At(PML, 0))
        /\ walk' = w
        /\ UNCHANGED mapVars

(* A round that reads, and may write, memory that is not a table's. *)
WalkOutside ==
    /\ walk # NoWalk /\ mem.harm = "none" /\ Walking(walk)
    /\ Reach(walk) = "outside"
    /\ mem' = [mem EXCEPT !.harm = "outside"]
    /\ UNCHANGED <<mapVars, walk>>

(* petmem_free_vspace returns; petmem_deinit_process deletes the node. *)
WalkEnds ==
    /\ walk # NoWalk /\ mem.harm = "none" /\ ~Walking(walk)
    /\ walk' = NoWalk
    /\ CASE walk.deinit = "no" -> UNCHANGED <<map, failed>>
         [] walk.deinit = "kept" -> map' = Tail(map) /\ UNCHANGED failed
         [] walk.deinit = "deleted" -> failed' = TRUE /\ UNCHANGED map
    /\ UNCHANGED <<head_allocated, file, mem>>

----------------------------------------------------------------------------
(* The other operations: MemMap's, by a process that is not in a walk. *)

Allocate(n) ==
    /\ Idle
    /\ LazyAlloc(n)
    /\ UNCHANGED <<mem, walk>>

FreeVspace(page) ==
    /\ Idle
    /\ LazyFree(page)
    /\ walk' = WalkFrom(map[Min(Freeable(page))], "no")
    /\ UNCHANGED mem

CloseFile ==
    /\ Idle
    /\ Close
    /\ UNCHANGED <<mem, walk>>

(* petmem_deinit_process at an allocated node, up to the walk *)
DeinitAllocated ==
    /\ Idle /\ file = "closing" /\ map # <<>> /\ map[1].allocated
    /\ map' = Freed(1)
    /\ walk' = WalkFrom(map[1], IF MergesNext(1) THEN "deleted" ELSE "kept")
    /\ UNCHANGED <<head_allocated, file, failed, mem>>

(* petmem_deinit_process at a free node *)
DeinitFree ==
    /\ Idle /\ map # <<>> /\ ~map[1].allocated
    /\ CloseNode
    /\ UNCHANGED <<mem, walk>>

DeinitDone ==
    /\ Idle
    /\ CloseDone
    /\ UNCHANGED <<mem, walk>>

Next ==
    \/ \E n \in Sizes : Allocate(n)
    \/ \E page \in 0 .. RegionPages - 1 : FreeVspace(page)
    \/ \E page \in Touched :
          \/ HandlePagefault(page)
          \/ PagefaultNoMemory(page)
          \/ \E error_code \in {1, 2} : PagefaultRefused(page, error_code)
    \/ WalkRound
    \/ WalkOutside
    \/ WalkEnds
    \/ CloseFile
    \/ DeinitAllocated
    \/ DeinitFree
    \/ DeinitDone

(* A free is a system call: the kernel runs its loop to the end. *)
WalkStep == WalkRound \/ WalkOutside \/ WalkEnds
Spec == Init /\ [][Next]_vars /\ WF_vars(WalkStep)

----------------------------------------------------------------------------
VPages == 0 .. RegionPages - 1

(* the entries, of the PML and of pages in use, that point to a page *)
Links == {l \in [table : {PML} \cup mem.used, index : 0 .. R - 1] :
             mem.tables[l.table][l.index] \in Phys}
Target(l) == mem.tables[l.table][l.index]

(* Until a free comes to the end of a table or goes on behind a missing     *)
(* one: every entry points to a page in use, no page is reached by two      *)
(* entries, and every page in use is reached.  Nothing is freed while it is *)
(* mapped, nothing is shared and nothing leaks, through faults, frees and   *)
(* walks.                                                                   *)
TreeSound ==
    ~mem.ended =>
        /\ \A l \in Links : Target(l) \in mem.used
        /\ \A l, k \in Links : Target(l) = Target(k) => l = k
        /\ \A p \in mem.used : \E l \in Links : Target(l) = p

(* Between calls, until a free has come to the end of a table or gone on    *)
(* behind a missing one, the page tables map a page only while a region     *)
(* holds it: a walk of petmem_free_vspace passes no page of its region      *)
(* over.  (A translation that the TLB has kept is not in the tables.)       *)
MappedOnlyIfHeld ==
    Idle /\ ~mem.ended /\ file = "open" =>
        \A v \in VPages : PageOf(mem.tables, v) # None => FindAddress(v) # {}

(* Until a free comes to the end of a table or goes on behind a missing     *)
(* one, a free unmaps pages of its own region and at most the one page      *)
(* behind it, and a page fault maps one page, a fresh one, and disturbs no  *)
(* other.                                                                   *)
ChangesAreLocal ==
    [][LET changed == {v \in VPages :
                          PageOf(mem'.tables, v) # PageOf(mem.tables, v)}
       IN  ~mem'.ended =>
           /\ walk # NoWalk => \A v \in changed :
                 v \in walk.start .. walk.start + walk.num_pages
           /\ walk = NoWalk => \A v \in changed :
                 /\ PageOf(mem.tables, v) = None
                 /\ PageOf(mem'.tables, v) \notin mem.used
                 /\ changed = {v}]_vars

(* The loop of a free ends, or runs into harm, however the indices move:    *)
(* a round that covers no page makes progress in another way.               *)
WalkTerminates == walk # NoWalk ~> walk = NoWalk \/ mem.harm # "none"

(* The walk stays inside the tables. *)
StaysInTables == mem.harm # "outside"

============================================================================
