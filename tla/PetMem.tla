------------------------------- MODULE PetMem -------------------------------
(***************************************************************************)
(* The page pools of VMproject/main.c, filled by the utility of Offline:   *)
(* ADD_MEMORY cuts the range it is given into pools whose sizes are powers *)
(* of two, and petmem_alloc_pages and petmem_free_pages look for pages in  *)
(* the list of pools.  The utility may be started again and again.         *)
(*                                                                         *)
(* A pool is the AbstractPool that Buddy implements.  Addresses count      *)
(* pages.  petmem_ioctl takes no lock, so calls may come between two pools *)
(* of ADD_MEMORY.  At this commit no other code of the driver calls        *)
(* petmem_alloc_pages or petmem_free_pages; the model has callers that do, *)
(* each with one result at a time.                                         *)
(***************************************************************************)
EXTENDS Offline, PoolBlocks, Sequences

CONSTANTS
    BlockPages,     \* pages in a memory block
    Callers,        \* callers of petmem_alloc_pages and petmem_free_pages
    Requests,       \* numbers of pages asked for
    PAGE_OFFSET,    \* difference of kernel and physical addresses
    MaxRuns         \* bound: runs of the utility

ASSUME PagesAssumption ==
    /\ BlockPages \in Nat \ {0} /\ Requests \subseteq Nat \ {0} /\ MaxRuns \in Nat
    /\ PAGE_OFFSET \in Nat /\ PAGE_OFFSET > bitmap_entries * BlockPages

VARIABLES
    petmem_pool_list,   \* the pools, first entry first: base, order, the blocks
                        \* held of it and the call of ADD_MEMORY that made it
    range,              \* what ADD_MEMORY still has to add: base_addr, num_pages
    given,              \* history: the memory blocks of each call of ADD_MEMORY
    trusted,            \* history: sysfs has never called a block removable
                        \* that the driver had
    runs,               \* runs of the utility so far
    result,             \* what petmem_alloc_pages has returned to each caller,
                        \* until the caller frees it
    dead                \* callers that a BUG_ON has ended

clientVars == <<result, dead>>
memVars == <<petmem_pool_list, range, given, trusted, runs, clientVars>>

Nothing == [paddr |-> 0, pages |-> 0]

MemInit ==
    /\ Init
    /\ petmem_pool_list = <<>>
    /\ range = [base_addr |-> 0, num_pages |-> 0]
    /\ given = <<>> /\ trusted = TRUE /\ runs = 1
    /\ result = [c \in Callers |-> Nothing] /\ dead = {}

Min2(s) == CHOOSE x \in s : \A y \in s : x <= y

(* Kernel and physical addresses.  __pa(NULL) is negative here: for the     *)
(* machine it is above all memory and below the kernel's addresses.         *)
NULL == 0
__va(paddr) == paddr + PAGE_OFFSET
__pa(vaddr) == vaddr - PAGE_OFFSET

GivenBlocks == UNION {given[k] : k \in DOMAIN given}

----------------------------------------------------------------------------
(* ADD_MEMORY *)

(* the utility's ioctl: base and size of its region, in pages *)
CallAddMemory ==
    /\ AddMemory
    /\ range' = [base_addr |-> __va(reg_start * BlockPages),
                 num_pages |-> num_blocks * BlockPages]
    /\ given' = Append(given, reg_start .. reg_start + num_blocks - 1)
    /\ UNCHANGED <<petmem_pool_list, trusted, runs, clientVars>>

(* the highest set bit of n, counted from 1 *)
fls(n) == Min2({b \in 1 .. n : n < Pow2[b]})

(* Mutant: base_addr moves by the pages that are left. *)
AdvanceByRest(r, order) ==
    [base_addr |-> r.base_addr + r.num_pages - Pow2[order], num_pages |-> r.num_pages - Pow2[order]]

(* the rest of the range behind a pool *)
Advance(r, order) ==
    [base_addr |-> r.base_addr + Pow2[order], num_pages |-> r.num_pages - Pow2[order]]

(* One round of the loop: a new pool, all of it free, is put in front.      *)
(* (buddy_init returns NULL only for a pool smaller than a page, which no   *)
(* round asks for.)                                                         *)
AddPool ==
    LET order == fls(range.num_pages) - 1
    IN  /\ range.num_pages # 0
        /\ petmem_pool_list' =
              <<[base_addr |-> range.base_addr, order |-> order, held |-> {},
                 call |-> Len(given)]>> \o petmem_pool_list
        /\ range' = Advance(range, order)
        /\ UNCHANGED <<vars, given, trusted, runs, clientVars>>

(* The utility is started again and reads all blocks anew: it keeps no      *)
(* record of the blocks that the driver has, and only sysfs could tell.     *)
Rerun ==
    /\ phase \in {"given", "failed"} /\ range.num_pages = 0 /\ runs < MaxRuns
    /\ bitmap' \in SUBSET Blocks
    /\ bitmap_entries = 1 => bitmap' = {}
    /\ trusted' = (trusted /\ bitmap' \cap GivenBlocks = {})
    /\ reg_start' = 0 /\ phase' = "scan" /\ i' = 0 /\ j' = 0
    /\ runs' = runs + 1
    /\ UNCHANGED <<online, petmem_pool_list, range, given, clientVars>>

----------------------------------------------------------------------------
(* Pages *)

(* Mutant: rounds down. *)
get_order_down(num_pages) == fls(num_pages) - 1

(* get_order: the smallest power of two that holds as many pages *)
get_order(num_pages) == Min2({o \in 0 .. num_pages : num_pages <= Pow2[o]})

(* what buddy_alloc may return for pool n *)
UnusedIn(n, order) == Unused(petmem_pool_list[n].held, petmem_pool_list[n].order, order)

(* The loop of petmem_alloc_pages goes on to the next pool only when paddr  *)
(* is 0: when it was given the first page of the machine's memory.  That    *)
(* block stays allocated.  The loop has come past the pools before n:       *)
First(order) == [addr |-> 0, order |-> order]
Passes(n, order) ==
    \A m \in 1 .. n - 1 :
        /\ petmem_pool_list[m].base_addr = __va(0)
        /\ order <= petmem_pool_list[m].order /\ First(order) \in UnusedIn(m, order)

(* the pools then *)
Passed(n, order) ==
    [m \in DOMAIN petmem_pool_list |->
        IF m < n THEN [petmem_pool_list[m] EXCEPT !.held = @ \cup {First(order)}]
        ELSE petmem_pool_list[m]]

Calls(c) == c \notin dead /\ result[c] = Nothing

(* petmem_alloc_pages, when pool n has the pages *)
petmem_alloc_pages(c, num_pages) ==
    LET order == get_order(num_pages)
    IN  /\ Calls(c)
        /\ \E n \in DOMAIN petmem_pool_list : \E b \in UnusedIn(n, order) :
              LET paddr == __pa(petmem_pool_list[n].base_addr + b.addr)
              IN  /\ Passes(n, order) /\ order <= petmem_pool_list[n].order /\ paddr # 0
                  /\ petmem_pool_list' = [Passed(n, order) EXCEPT ![n].held = @ \cup {b}]
                  /\ result' = [result EXCEPT ![c] = [paddr |-> paddr, pages |-> num_pages]]
        /\ UNCHANGED <<vars, range, given, trusted, runs, dead>>

(* petmem_alloc_pages, when pool n is full: __pa(NULL) is not 0, so it is   *)
(* returned as the address of the pages, whatever the other pools have.     *)
AllocNowhere(c, num_pages) ==
    LET order == get_order(num_pages)
    IN  /\ Calls(c)
        /\ \E n \in DOMAIN petmem_pool_list :
              /\ Passes(n, order) /\ order <= petmem_pool_list[n].order
              /\ UnusedIn(n, order) = {}
              /\ petmem_pool_list' = Passed(n, order)
        /\ result' = [result EXCEPT ![c] = [paddr |-> __pa(NULL), pages |-> num_pages]]
        /\ UNCHANGED <<vars, range, given, trusted, runs, dead>>

(* petmem_alloc_pages, when it has come past all pools: it returns 0 *)
AllocFails(c, num_pages) ==
    LET order == get_order(num_pages)
        n == Len(petmem_pool_list) + 1
    IN  /\ Calls(c) /\ Passes(n, order)
        /\ petmem_pool_list' = Passed(n, order)
        /\ UNCHANGED <<vars, range, given, trusted, runs, clientVars>>

(* BUG_ON(order > mp->pool_order) in buddy_alloc: a pool that the loop      *)
(* comes to is too small, whatever the others are                           *)
AllocBug(c, num_pages) ==
    LET order == get_order(num_pages)
    IN  /\ Calls(c)
        /\ \E n \in DOMAIN petmem_pool_list :
              /\ Passes(n, order) /\ order > petmem_pool_list[n].order
              /\ petmem_pool_list' = Passed(n, order)
        /\ dead' = dead \cup {c}
        /\ UNCHANGED <<vars, range, given, trusted, runs, result>>

(* the pools in which petmem_free_pages finds page_addr, a physical address *)
(* that it compares with the kernel's address of the pool                   *)
PoolsWith(page_addr) ==
    {n \in DOMAIN petmem_pool_list :
        /\ page_addr >= petmem_pool_list[n].base_addr
        /\ page_addr < petmem_pool_list[n].base_addr + Pow2[petmem_pool_list[n].order]}

(* petmem_free_pages: a caller gives its pages back *)
petmem_free_pages(c) ==
    LET page_addr == result[c].paddr
        with == PoolsWith(page_addr)
        n == Min2(with)
        b == [addr |-> __va(page_addr) - petmem_pool_list[n].base_addr,
              order |-> get_order(result[c].pages)]
    IN  /\ c \notin dead /\ result[c] # Nothing
        /\ petmem_pool_list' = IF with = {} THEN petmem_pool_list
                               ELSE [petmem_pool_list EXCEPT ![n].held = @ \ {b}]
        /\ result' = [result EXCEPT ![c] = Nothing]
        /\ UNCHANGED <<vars, range, given, trusted, runs, dead>>

----------------------------------------------------------------------------
Utility == Search /\ UNCHANGED memVars

Kernel == CallAddMemory \/ AddPool

Client ==
    \E c \in Callers :
        \/ \E num_pages \in Requests :
              \/ petmem_alloc_pages(c, num_pages) \/ AllocNowhere(c, num_pages)
              \/ AllocFails(c, num_pages) \/ AllocBug(c, num_pages)
        \/ petmem_free_pages(c)

MemNext ==
    \/ Utility \/ Kernel \/ Client
    \/ OpenFails /\ UNCHANGED memVars
    \/ Rerun

(* The utility and the ioctl that it is in keep running. *)
MemSpec ==
    /\ MemInit /\ [][MemNext]_<<vars, memVars>>
    /\ WF_<<vars, memVars>>(Utility \/ Kernel)

----------------------------------------------------------------------------
(* the kernel's addresses of the pages of a range, of a pool, of a call *)
PagesFrom(base, n) == base .. base + n - 1
PagesOf(pool) == PagesFrom(pool.base_addr, Pow2[pool.order])
PoolPages(n) == PagesOf(petmem_pool_list[n])
RangePages == PagesFrom(range.base_addr, range.num_pages)
AllPages == PagesFrom(PAGE_OFFSET, bitmap_entries * BlockPages)
BlockOf(page) == (page - PAGE_OFFSET) \div BlockPages

PoolsOf(k) == {n \in DOMAIN petmem_pool_list : petmem_pool_list[n].call = k}
PagesGiven(k) == {page \in AllPages : BlockOf(page) \in given[k]}

(* the pages of call k that ADD_MEMORY's loop has not come to *)
Waiting(k) == IF k = Len(given) THEN RangePages ELSE {}

(* Every page that a call of ADD_MEMORY is given comes into exactly one of  *)
(* the pools that the call makes, or still waits for its loop, and these    *)
(* pools have no other page: for regions that are no power of two, whatever *)
(* is allocated between two rounds.                                         *)
PoolsTile ==
    \A k \in DOMAIN given :
        /\ \A n \in PoolsOf(k) : PoolPages(n) \subseteq PagesGiven(k)
        /\ \A page \in PagesGiven(k) :
              Cardinality({n \in PoolsOf(k) : page \in PoolPages(n)}) =
                  IF page \in Waiting(k) THEN 0 ELSE 1

(* While sysfs calls no block removable that the driver has, no page is in  *)
(* two pools, of whatever calls, and no block of the driver is online: a    *)
(* search, with its new starts and the blocks that it puts back, touches no *)
(* block whose bit is not set.  The code itself does nothing to ensure the  *)
(* premise.                                                                 *)
PoolsApart ==
    trusted =>
        /\ \A m, n \in DOMAIN petmem_pool_list :
              m # n => PoolPages(m) \cap PoolPages(n) = {}
        /\ GivenBlocks \cap online = {}

(* the pages that a caller takes its result for, if they are in memory *)
Handed(c) == IF result[c].paddr = __pa(NULL) THEN {}
             ELSE PagesFrom(__va(result[c].paddr), result[c].pages)

(* A caller of petmem_alloc_pages gets pages of the driver, all that it     *)
(* asked for, unless it gets __pa(NULL); and while sysfs calls no block     *)
(* removable that the driver has, no other caller has one of them, whatever *)
(* pools are added, passed over or full in between.                         *)
HandedOutOnce ==
    \A c \in Callers :
        /\ \A page \in Handed(c) : page \in AllPages /\ BlockOf(page) \in GivenBlocks
        /\ trusted => \A d \in Callers \ {c} : Handed(c) \cap Handed(d) = {}

----------------------------------------------------------------------------
(* The inductive invariant behind these.  The pools of a call and what is   *)
(* left of its range are a partition of its pages; while sysfs is right, no *)
(* two calls have a block in common and no block of the driver is online or *)
(* one that the utility may choose; the blocks held of a pool lie in it and *)
(* do not overlap; and what a caller has lies in such a block, at a         *)
(* physical address, so that petmem_free_pages finds no pool for it.        *)
Tiled(k) ==
    /\ Waiting(k) \subseteq PagesGiven(k)
    /\ \A n \in PoolsOf(k) : PoolPages(n) \subseteq PagesGiven(k) \ Waiting(k)
    /\ \A m, n \in PoolsOf(k) : m # n => PoolPages(m) \cap PoolPages(n) = {}
    /\ \A page \in PagesGiven(k) \ Waiting(k) : \E n \in PoolsOf(k) : page \in PoolPages(n)

BlocksApart ==
    /\ range.num_pages # 0 => phase = "given" /\ given # <<>>
    /\ trusted =>
          /\ \A k, l \in DOMAIN given : k # l => given[k] \cap given[l] = {}
          /\ GivenBlocks \cap online = {}
          /\ phase \notin {"given", "failed"} => bitmap \cap GivenBlocks = {}

HeldRight(pool) ==
    \A b \in pool.held :
        /\ b.addr + Pow2[b.order] <= Pow2[pool.order]
        /\ \A d \in pool.held : d # b => UnitsOf(b) \cap UnitsOf(d) = {}

(* the kernel's addresses of the pages of a block of pool n *)
Held(n, b) == PagesFrom(petmem_pool_list[n].base_addr + b.addr, Pow2[b.order])

HandedRight ==
    \A c \in Callers :
        /\ result[c].paddr < PAGE_OFFSET
        /\ Handed(c) # {} =>
              \E n \in DOMAIN petmem_pool_list : \E b \in petmem_pool_list[n].held :
                  Handed(c) \subseteq Held(n, b)
        /\ trusted => \A d \in Callers \ {c} : Handed(c) \cap Handed(d) = {}

PoolBlock == [addr : Nat, order : Nat]
Pools == [base_addr : Int, order : Nat, held : SUBSET PoolBlock, call : Nat]

MemTypeOK ==
    /\ petmem_pool_list \in Seq(Pools) /\ range \in [base_addr : Int, num_pages : Nat]
    /\ given \in Seq(SUBSET Blocks) /\ trusted \in BOOLEAN
    /\ result \in [Callers -> [paddr : Int, pages : Nat]]
    /\ \A n \in DOMAIN petmem_pool_list : petmem_pool_list[n].call \in DOMAIN given

MemInv ==
    /\ SearchInv /\ MemTypeOK /\ BlocksApart /\ HandedRight
    /\ \A k \in DOMAIN given : Tiled(k)
    /\ \A n \in DOMAIN petmem_pool_list : HeldRight(petmem_pool_list[n])

(* Every run of the utility gives up, or hands a region to the driver and   *)
(* ADD_MEMORY makes pools of it, however often Linux refuses: each new      *)
(* start of the search has one removable block fewer.                       *)
Ends ==
    phase = "scan" ~> \/ phase = "failed"
                      \/ phase = "given" /\ range.num_pages = 0

=============================================================================
