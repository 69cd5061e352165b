# TLA+ models of the CS 1651 projects

The repository holds three course projects in C: synchronisation primitives
(`SyncProject`), a user-level thread library (`Threads`) and a Linux kernel module
with a user library and a control utility for demand paging (`VMproject`). This
directory models the parts of them that keep state, checks them with TLC on small
instances, and proves with TLAPS, for every value of the constants, the safety of the
synchronisation primitives, the thread library, the linked lists, the memory map, the
page pools and the utility that fills them. All paths below are relative to the repository's root.

Run a model with `tlc -config X.cfg M`, a proof with `tlapm M.tla`.
`PROJECT.json` lists runs, mutants, hazards and findings, and maps every definition
to the lines it models.

## 1. Inventory

| Part | State | Operations | What is hard about it |
|---|---|---|---|
| barrier (`locking.c` 79-113) | `iterations`, `cur_count` | `barrier_init`, `barrier_wait` | reuse: fast threads are a round ahead of slow ones; the order of reset and opening; wrap-around |
| spin lock (58-75) | `free` | lock, unlock | atomicity of the compare-and-swap; progress |
| reader/writer lock (120-163) | `num_readers`, `writer`, the pointer `mutex` | two lock and two unlock functions | the pointer itself is decremented; who excludes whom |
| lock-free queue (181-244) | `head`, `tail`, `next` fields | `lf_enqueue`, `lf_dequeue` | competing compare-and-swaps, helping, a lagging tail |
| exercises (`driver.c`) | `global_value`, loop counters | one thread function per exercise, joined by `main` | what the primitives have to guarantee together |
| user-level threads (`pet_thread.c`, `pet_thread_hw.S`) | `running`, `ready_list`, `blocked_list`, each thread's state, waiters and `return_reciever` | init, create, schedule, yield_to, join, exit, run | long sequences of calls; a call is suspended in the middle and resumed much later; main is a thread that is treated differently |
| buddy allocator (`buddy.c`) | free lists, tag bits, order fields inside free memory | `buddy_alloc`, `buddy_free` | stale tags and overwritten fields inside blocks |
| linked lists (`pet_list.h`) | `next` and `prev` of every node | init, add, del, move, empty | the order of stores; entries next to the head |
| hash table (`pet_hashtable.c`) | array of chains, `entry_count`, `prime_index`, `load_limit`; an iterator's index, entry and parent | insert, change, inc, dec, search, remove, iterate | growth in the middle of an insertion, memory that runs out there, iterators that remove |
| page pools (`main.c` 38-138) | list of pools | `petmem_alloc_pages`, `petmem_free_pages`, `ADD_MEMORY` | a range cut into powers of two, the order of pools, no lock; the first two are not called by anything at this commit |
| memory map (`on_demand.c` 14-158) | list of nodes per open file | alloc, find, free, init and deinit | splitting, merging, regions of no pages, an uninitialised list head |
| demand paging (`on_demand.c` 160-609) | four levels of page tables, physical pages | page fault, free, close | a loop with seven locals over shared tables |
| translation cache (`petmem.h` 79-96, `INVALIDATE_PAGE`) | the TLB | `flush_tlb`, `invlpg` | translations that outlive their page; not modelled, see section 5 |
| harness (`user/harness.c`) | file descriptor, signal handler | `pet_malloc`, `pet_free`, `pet_invlpg`, SIGSEGV handler | the retry of the faulting access |
| offlining utility (`user/petmem.c`) | bitmap, `reg_start` | scan, offline, check, put back, give | Linux may refuse any request |
| swap, kernel file I/O | none / files | empty functions; wrappers | nothing modelled |

How they interact: the exercises call the primitives on shared memory from pinned
threads. Thread functions call the thread library, which switches stacks inside the
call. The harness turns `malloc`, `free` and faults into `ioctl`s; the driver passes
them to `on_demand.c`, which changes the map and the page tables; closing the file
frees what is left. The utility gives memory to the driver, which makes buddy pools
of it. The thread library keeps its threads in linked lists; the hash table is part of
the library and has no caller in the repository.

## 2. Modules

| Module | Models | Uses |
|---|---|---|
| `AbstractBarrier` | what a reusable barrier promises | |
| `Barrier` | `struct barrier`, one action per memory access | refines `AbstractBarrier` |
| `BarrierTest` | `ex2_fn` around the barrier | extends `Barrier` |
| `BarrierProofs` | theorems on both | |
| `Atomics` | `lock cmpxchg` | |
| `SpinLock`, `SpinLockProofs` | spin lock under `ex3_fn`; theorems | `Atomics` |
| `RWLock`, `RWLockProofs` | reader/writer lock under `ex4_read_fn` and `ex4_write_fn`; theorems | `Atomics` |
| `AbstractLog` | what an enqueue promises | |
| `LFQueue`, `LFQueueProofs` | queue under `enqueue_fn` and `dequeue_fn`; theorems | `Atomics`, refines `AbstractLog` |
| `PetThread`, `PetThreadProofs` | the thread library and its callers; theorems on it and on `HashTable` | |
| `PetList` | the linked lists as stores to links | |
| `AbstractTable` | what the hash table promises: a stack of values per key | |
| `HashTable`, `MCHashTable` | hash table, iterator, allocator that may fail; its instance | refines `AbstractTable` |
| `PoolBlocks` | aligned blocks of a pool; `Pow2`, the `1 << n` of the code | |
| `AbstractPool` | what a pool promises | `PoolBlocks` |
| `Buddy`, `BuddyProofs` | one buddy pool and its clients; theorems on it and on `PetList` | `PoolBlocks`, refines `AbstractPool` |
| `AbstractVspace` | what the address allocator promises | |
| `MemMap` | the list of regions, open to close | refines `AbstractVspace` |
| `OnDemand`, `OnDemandProofs` | page tables, faults and the walk of a free; theorems on both | extends `MemMap` |
| `Offline` | the control utility and Linux's answers | |
| `PetMem`, `PetMemProofs` | `ADD_MEMORY`, the list of pools and its callers, the utility run again; theorems on both | extends `Offline`, `PoolBlocks` |

The specifications are the TLC models too: each cfg gives the constants their values
and replaces nothing (`MCHashTable` only names two sequences for its cfg). Definitions whose comment starts with "Mutant" are changed
versions of the definition behind them. No specification uses them; they are there to
show that a property would notice the change.

### Correspondence

*SyncProject.* The Makefile compiles with `-g` and no optimisation, so each C access to
shared memory is one load or store and `x++` is both; only the `lock`-prefixed
instructions are one step. The models interleave these under sequential consistency.
x86 may delay a store past a later load of the same thread. In the barrier the last
thread stores `cur_count` and `iterations` in that order and x86 keeps the order of
stores; the stores of `spinlock_unlock` and inside the lock are ordered too; the queue
publishes with locked instructions. `rw_write_lock` and `rw_read_lock` read and write
under the spin lock, where it works. The register of a split increment is a variable
of the model. A pass of a spin loop that changes nothing is no step.

`RWLock` keeps the pointer `lock->mutex` as an offset and eight bytes of memory below
the spin lock (the size word of a glibc heap chunk), because `rw_read_unlock`
decrements the pointer and later calls then use the four bytes there. The named bound
`PointerBound` keeps the pointer inside these bytes.

*Threads.* An action is one library call of the running thread up to the switch of
stacks, clean-up on the new stack included; `at` says which call a suspended thread
returns from. Thread functions and main may make any of the calls that the cfg lists,
in any order. Exit values are thread ids, so that a wrong value is always noticed.
`stopped` is left out (see the module's comment). Lists are sequences here and in the
models of `VMproject`; `PetList` has the stores that the list functions make, and its
theorems connect the two.

`HashTable` keeps each chain as a sequence of entries with their addresses, and the
iterator as the code has it: a position, an entry and that entry's parent, as addresses.
An iterator's removal links the successor to the parent that the iterator remembers,
right or wrong. `calloc` and `realloc` may fail at each call. `AbstractTable` is what a
client sees: per key a stack of values, reversed as a whole when the table grows, as
the header says of repeated keys. The client stays within what an iterator bears (the
module's comment says how); `owed` and `seen` record what an iteration still owes it.

*VMproject.* `Buddy` keeps addresses relative to the pool; a client may overwrite all
of a block that it holds, so order fields in it become `Junk`. `MemMap` counts in
pages. `OnDemand` has tables of `R` entries where the hardware has 512, and one round
of the walk's loop is one action. Where the code leaves its tables, stores through a
null pointer or frees a page twice, `mem.harm` is set and the model stops: anything
could follow. `pages_covered` is unsigned in the code: what is less than 0 here has
wrapped around there and ends the loop (`Walking`). `get_zeroed_page`, `free_page` and Linux's
answers in `Offline` are external and modelled from their use. Linux's page allocator
serves the whole machine: what the process gives back may go to anybody, a request may fail
at any time, and a request that succeeds gives pages that nobody has. The model keeps
only the pages of this process apart from the others.

`PetMem` counts in pages. One round of `ADD_MEMORY`'s loop is one action, since the ioctl
takes no lock. A pool's blocks are those of `AbstractPool`, which
`BuddyImplementsPool` proves `Buddy` to implement; with `min_order` a page, as `ADD_MEMORY` asks, a request is never
rounded up further. Physical and kernel addresses differ by `PAGE_OFFSET`, which is more
than the memory there is, so the comparisons of `petmem_free_pages` come out as in the
code. Each caller has the result of one `petmem_alloc_pages` until it frees it, and the call
has one action for each of its ends: pages of a pool; `__pa(NULL)`, which is not 0, from a
pool that is full (`AllocNowhere`); 0, when there is no pool left (`AllocFails`); and the `BUG_ON` of
a pool that is too small (`AllocBug`). On its way the loop passes over a pool that gave it
physical page 0 (`Passes`, `Passed`).

The utility keeps no record between its runs and reads sysfs anew. `Rerun` lets sysfs call any
blocks removable, those that the driver has included. The history variable `trusted` says whether
that has happened; properties that need it not to have happened say so.

## 3. Runs

Passing runs:

| Run | Instance | Shows |
|---|---|---|
| `barrier` | 3 threads, 2 iterations, `int` of 3 values | `TestInv` (inductive), `NoError`, refinement `BarrierContract`, `EveryThreadReturns` |
| `spinlock` | 3 threads, 2 iterations | `LockInv` (inductive: mutual exclusion, and no increment is lost), `EveryThreadReturns` |
| `rwlock` | 2 readers, 2 writers, 2 iterations, with the warm-up and without | `RWExclusion`, `NoWriterAfterUnlock`, `WarmupCompletes` |
| `lfqueue` | 2 producers with 2 values, 1 consumer | refinement `EnqueueIsAppend`, `TailLag`, `TailMovesForward`, `EveryThreadReturns` |
| `petthread` | 4 created threads, all calls; main creates and runs | `OnePlace`, `WaitersKept`, `JoinValue`, `NoFailure`, `ReadyIsFIFO`, `RoundRobin` |
| `buddy` | 16 bytes, blocks of 2 and more | `PoolInv` (the blocks partition the pool, the tags and orders that are read are right, no two free blocks could be merged), `FailsOnlyWhenFull`, refinement `PoolContract` |
| `memmap` | 6 pages, requests of 0 to 3 | `Tiles`, `Coalesced`, `FailsOnlyWhenFull`, refinement `VspaceContract` |
| `ondemand` | 5 pages over two page tables of 3, requests of 1 and 4 | `TreeSound`, `MappedOnlyIfHeld`, `ChangesAreLocal`, `WalkTerminates` |
| `petmem` | 4 memory blocks of 3 pages, 2 wanted, 2 runs of the utility, any answers of sysfs, 2 callers, requests of 2 and 3 pages | `GivenIsOffline`, `PoolsTile`, `PoolsApart`, `HandedOutOnce`, `Ends` |
| `hashtable` | sizes 2, 3 and 5, 3 keys of which 2 have one hash, 3 entries, 2 values | `WellFormed`, `IterComplete`, refinement `TableContract` |

Runs that end in a violation, each a disagreement of the code with a comment or a
test that `findings` quotes:

| Run | The code |
|---|---|
| `rwlock_returns` | `rw_read_unlock` never decrements `num_readers`; the driver's writer waits for ever |
| `ondemand_test` | the scenario of `user/test.c` walks behind the end of a page table |

### What the models do that no property forbids

The models follow the code also where it does something a reader may not expect. The
properties are stated so that they are true of the code, and each of these behaviours
is in the state graph of a run above or is reached by the constants given here:

* `lf_queue_init` gives head and tail a dummy node each and `lf_enqueue` only links behind
  the tail's, so `lf_dequeue` returns 0 always, also after an `lf_enqueue` has returned, and no
  value that was produced is ever consumed. This is a bug: the algorithm has one dummy for
  both. `dequeue_fn` (`driver.c` 173-187) takes a return of 0 for the end of its inner loop and
  returns all the same.
* A lone thread that calls `pet_thread_schedule` ends `pet_thread_run`, which reports
  that all threads have finished (`pet_thread.c` 461), while it is still ready; and
  `return 9; // NEVER REACHED` (434) is reached when `pet_thread_run` is called again.
* With `"join"` in `MainCalls`, main can block itself and the assertion of line 192
  then fails (from 441). Main never joins in this repository, so `petthread` leaves
  the call out.
* Closing the file takes the first node out of the list twice (`on_demand.c` 47).
* A free unmaps one page behind its region (194). `ChangesAreLocal` allows exactly this.
* Freeing a region whose tables were never made stores through a null pointer (260);
  a page table that holds another region's page is freed with it (269). Both happen
  only when a walk comes to the end of a table.
* A walk that finds a PD or a page table missing sets the indices below to 0 (212, 220),
  and `cascade`, which takes an index that is 0 for one that has come round, moves the
  PD's index once more (237). When such a walk goes on, it has skipped a page table that
  it has not counted: pages of its region stay mapped, and pages behind the region are
  unmapped in their place.
* A fault for which `get_zeroed_page` fails makes a present entry from `__pa(0)`, a page that
  is not the driver's (470; harm `no memory`).
* A free invalidates the kernel's address of a page and not the user's (232), so the process
  can reach a freed page through the TLB until its next fault flushes it (a flush that is marked
  `TODO: Remove this`). By then Linux may have given the page to anybody. The TLB is not
  modelled; `MappedOnlyIfHeld` speaks of the page tables.
* `petmem_alloc_pages` goes on to another pool only after a 0: when the pool it has come to is
  too small, `BUG_ON` ends the caller (`buddy.c` 171), and when it is full `__pa(NULL)`, which is not
  0, is returned as the address of the pages, whatever the other pools have. When it gets physical page 0 it takes it for a
  failure, and that block stays allocated for ever.
* `petmem_free_pages` compares a physical address with a kernel address and frees nothing, so
  pages never come back and `HandedOutOnce` never sees a page used again. (With the comparison
  mended, blocks would be freed by `buddy_free`, whose contract is `AbstractPool`'s.)
* Nothing keeps a second run of the utility from giving the driver blocks that it has: it
  relies on sysfs not to call them removable. When sysfs does, two pools have the same
  pages. `PoolsTile` and `GivenIsOffline` hold even then; `PoolsApart` and the second half of
  `HandedOutOnce` have the premise `trusted`.
* `hashtable_expand` with a failing `calloc` and a working `realloc` writes through an
  uninitialised pointer (`pet_hashtable.c` 263; `harm`).
* After a refusal `petmem` puts only the blocks before the refused one back online
  (`user/petmem.c` 288-306).

### Why the bounds are enough

*Barrier:* four rounds and a counter that wraps around after three, so a thread can be
one round ahead at the wrap. The smallest counter the contract allows has two values;
the proof covers every width. *Locks, queue:* two or three threads reach every pair of
program points; two readers move the lock's pointer more than once; with two values per
producer a producer meets its own older node.
*Threads:* with four threads there are chains of joins, several waiters on one thread
and a running thread besides. *Buddy:* three levels, so a block merges twice in one
free and meets stale tags of both. *MemMap:* the map holds up to seven nodes, so a
merge has an allocated node on either side. *OnDemand:* five pages over two tables of
three entries: a region of four pages crosses from one table to the next, regions of one
page share a table, and the pages that are touched are on both sides of the border. A
free that comes to the end of a table, or goes on behind a table that is missing, may
leave the tables, free too much or skip pages (see above), so `TreeSound`,
`MappedOnlyIfHeld` and `ChangesAreLocal` speak of the time before the first such free, which
the history field `mem.ended` marks; `WalkTerminates` has no such limit and counts harm as
an end. The range lies behind one PD, since two make the liveness check too long; the
theorems of section 4 cover the safety properties for ranges over any number of PDs.
*PetMem:* four blocks and two wanted leave room for three overlapping regions after
refusals, and for two regions one after the other or one over the other. A region of six pages becomes a pool
of four and one of two, so a small pool lies in front of a large one and the first can
be full, too small or neither; block 0 has physical page 0. Two callers can meet in a pool or in different ones. *HashTable:* with a limit of one entry, then two, three
entries let the table grow twice, stay too full at the last size, hold one key
three times, and have two keys in one chain; keys 0 and 5 have the same hash and meet at
every size, 3 meets them only at some. Entries are symmetric: the code only compares
their addresses.

`CHECK_DEADLOCK FALSE` is set where the modelled program ends (threads that return, a
file that is closed, a utility that exits) or where all threads may be blocked on each
other's exit, which the library allows. `Buddy` is checked for deadlock.

### Fairness

`driver.c` 201-216 pins every thread to a processor of its own, so a thread that can
take a step takes one: weak fairness per thread in `BarrierTest`, `SpinLock`, `RWLock`
and `LFQueue`. A waiting thread in a spin loop is not helped by this: its step is
enabled only while the condition holds. The spin lock itself is not fair; the runs show
that threads return because the loops of the others are finite. `PetThread` is fair to
thread functions (`ThreadStep`): one kernel thread runs them, the library is cooperative, and a
thread function that never calls it again is not covered. It is not fair to main, which
in the repository calls `pet_thread_run` once and returns. A lone thread that yields hands over to
main (432-433) and may stay ready for ever, so `RoundRobin` promises a ready thread that it runs or
that main does.
`pet_thread_yield_to` passes the queue over, so `RoundRobin` speaks of executions in
which such calls stop.
`OnDemand` is fair to the rounds of a walk, which the kernel runs to the end within a
system call, not to the process. `PetMem` is fair to the utility's steps and to the
ioctl that it is in, not to the failure of `open`, to a new run or to the callers.

## 4. Proofs

TLAPS checks these for every value of the constants that satisfies the named `ASSUME`s.

`BarrierProofs` (any finite non-empty set of threads, any number of rounds, any number
of `int` values of at least 2):

* `BarrierSafe`: `BarrierInv` is inductive. `BarrierContract` alone is not: it does not
  say why a thread may leave. `Position` ties each thread's program point to the number
  of openings so far and to the value of `iterations` it saved; `OthersWait` says that
  while one thread closes a round all others spin in that round; `CountIsInside` says
  that `cur_count` is the number of threads inside. The step that matters is `Arrive`:
  `cur_count = init_count - 1` gives a set of threads inside with one element less than
  all, so everyone but the caller is inside and spins. That two neighbouring values
  differ also when `int` wraps around is the only fact about integers needed.
* `BarrierImplementsContract`: every step is a `Call`, a `Return` or a stutter of
  `AbstractBarrier`.
* `TestSafe`, `TestNoError`, `TestImplementsContract`: the same for the exercise. `Script`
  ties the point in `ex2_fn` to the number of calls; `ValueInv` says what `global_value`
  is after an even and after an odd number of openings.

`SpinLockProofs` (any finite set of threads, any positive number of iterations):
`LockSafe` (`LockInv`: exclusion, the holder's register is current, `global_value` is the
number of increments done), and from it `SpinLockMutualExclusion` and
`SpinLockNoLostUpdate`, which includes the driver's final test. Both follow from `LockInv`, so no run checks
them besides it.

`RWLockProofs` (any writers, and as many readers and iterations as `PointerBound` keeps
inside the heap chunk): `RWLockSafe`, `RWLockExclusion`, `RWLockNoWriterAfterUnlock`. The
invariant `RWInv` has two halves. While the pointer is where `rw_lock_init` has put it, the
spin lock works and the fields agree with who is inside (`SpinLockWorks`, `FieldsRight`).
Once a reader has moved it nothing of this can be relied on, and `ReadersRemain` takes
over: `num_readers` is positive, it never falls again, and no writer is past its test. The
step from one half to the other is the reader's unlock.

`LFQueueProofs` (any finite set of producers, any number of values; `NULL` is not a node):
`QueueSafe`, `QueueTailLag`, `QueueTailMovesForward` and the refinement
`QueueImplementsLog`. `QueueInv` says that the linked nodes form a chain from the tail's
dummy (`IsChain`), that `tail` is the last or the last but one of it, that a node which is
not linked yet has no successor and no predecessor (`ListRight`), and what a producer's
registers are worth at each point (`PositionsRight`): the tail it has read may be stale, but
it is still in the chain, so its compare-and-swap can succeed only at the end. `Walk`, which
`Chain` is defined with, is a recursive function; that it satisfies its equation is proved by
hand (`Iteration`: the functions on initial segments exist and agree).

`PetThreadProofs`, on `PetThread` (any number of threads, any of the calls): `ThreadsSafe`,
`ThreadsOnePlace`, `ThreadsWaitersKept`, `ThreadsJoinValue`, `ThreadsNoFailure`, and the action
property `ThreadsReadyIsFIFO`. All have the hypothesis `MainApart`: main does not join and
nobody joins main. This is so in every client in the repository. It is needed: when main
joins, the assertion of line 192 can fail (section 3), and a join of main appends to a list
head that `pet_thread_init` has not initialised. `ThreadInv` adds to the four invariants
that main is in no list (`MainPlaced`), that an id is used once (`IdsFresh`), and that a
thread inside `pet_thread_join` is in the waiting list of the thread it has joined or
already has that thread's value (`JoinsRight`). Without the last one `JoinValue` is not
inductive: the value is delivered long before the join returns. The lemmas on `Without`,
`Append` and concatenation say which threads a list holds after a step, and in what order.

On `HashTable` (any sizes and load limits, any keys and number of hash values, any entries,
an allocator that may fail at each call): `TableSafe`, `TableWellFormed`, `TableIterComplete` and the
refinement `TableImplementsStacks`. The hypothesis on the client is the module's own: it is in
the guards.

* The table (`Sound`): each step exchanges one chain for another (`Replaced`), so what has to be
  shown is about that chain: it holds no address twice and none of another chain's
  (`ChainReplaced`). Growth is the exception. A new chain is gathered from all the old ones, and
  `Gathered` says after m of them what it holds, and that the entries of one key are in it in
  reverse order once their old chain has been passed.
* The iterator (`IterRight`): `IterComplete` speaks of the end of an iteration and says nothing of the way.
  In the middle an iterator has a place; what it still owes it has seen or is ahead of that
  place, and nothing that is ahead has been seen (`AtPlace`). `AheadInserted`, `AheadStored` and
  `AheadDropped` say what the changes of a chain do to what is ahead of a place. Two more facts are
  needed. As long as nothing has been removed through the iterator, what it has seen is still
  in the table; otherwise `calloc` could give an insertion the address of an entry that was seen. And
  as long as nothing has been inserted, its parent is the entry before it; that is what makes
  `pet_htable_iter_remove` take out one entry and not more (`IterRemoves`). The two guards of the
  model on `wrote` are these two facts.
* The refinement: the stack of a key is its entries in the chain of its hash (`EntriesOf`), with their
  values. The loop of a call by key stops at the first, the top (`OnTop`); an iterator's removal
  takes one from anywhere (`OnlyTakes`); no change touches another key's (`OnlyOthers`).

`Only` and `NewChain` are recursive functions. `OnlyRecursion` and `NewChainIs` show that they satisfy their
equations, and `SeqInduction` (induction over sequences, as a lemma on sets) gives what they hold.

`OnDemandProofs`, on `MemMap` (any range, any sizes, any number of nodes): `MapSafe`, `MapTiles`,
`MapCoalesced`, `MapFailsOnlyWhenFull` and the refinement `MapImplementsVspace`. `MapInv` adds to
`Tiles` and `Coalesced` that nodes are in order also while the file is being closed, when the
list no longer starts at the beginning of the range (`NodesInOrder`). Splitting and merging
are both a replacement of some neighbouring nodes by others, and the proofs follow one pair
of neighbours of the new list back to the old one. That the last node is always free is
what keeps the uninitialised list head out of `MergesNext`; for `MapFailsOnlyWhenFull` the
free nodes between two held ones are at most one.

On `OnDemand` (tables of any size, a range over any number of them, any number of physical
pages): `DemandTreeSound`, `DemandMappedOnlyIfHeld` and the action
property `DemandChangesAreLocal`.

* The tree (`Tree`, in `DemandInv`): `TreeSound` is not inductive. A page that is freed could
  hold entries, whose pages would then be used and not reached, and a walk could take a
  page of the wrong depth for a page table. So every page has a level, one more than that
  of the table that leads to it, and there are four (`IsLevel`): a user page has no
  entries. The program's own PD must be where no walk looks (`OwnRight`). A fault hangs a
  path into the tree (`PathHung`) whose new part consists of different fresh pages
  (`FreshDiffer`, on cardinalities); a round takes a leaf out of it (`VisitTree`).
* What is mapped (`PagesHeld`, in `PagingInv`): between calls a mapped page is held, during a
  walk it is held or in the region that is being freed. At the end of the walk the second
  case must be gone, so a walk's indices are those of the page it has got to, and what
  it has passed of its region is not mapped (`TrackRight`). `SameTable` and `SameDirectory`,
  with division by `R`, say that the pages which a round skips behind a missing table are
  all pages of that table; `SameIndices` that different pages have different entries. From
  these, `PathPages` and `RoundPages` say that a fault and a round change the translation of
  one page; that is `DemandChangesAreLocal`.

`PetMemProofs` (any number of memory blocks of any size, any number of blocks asked for,
any requests and callers, any number of runs, any answers of sysfs): `PetMemSafe`, `PetMemGivenIsOffline`,
`PetMemPoolsTile`, `PetMemPoolsApart`, `PetMemHandedOutOnce`. `SearchInv` says what the utility knows in each
phase. Its last part is
the reason why a `reg_start` of an earlier scan does no harm: a scan keeps it only if it
meets no clear bit up to its end, hence the first `num_blocks` bits are set, hence no
earlier scan went beyond them and `reg_start` is still 0. `MemInv` adds

* that the pools of a call of `ADD_MEMORY` and, for the last call, what is left of its range
  partition the pages of the blocks it was given (`Tiled`);
* that, while `trusted`, different calls were given different blocks, and the driver has no
  block that is online or that the utility may choose (`BlocksApart`);
* that what is held of a pool lies in it and does not overlap (`HeldRight`);
* that what a caller has lies in a block that is held, at an address below `PAGE_OFFSET`, so that
  `petmem_free_pages` finds no pool for it, and, while `trusted`, apart from what other callers have
  (`HandedRight`).

The premise `trusted` is about sysfs alone. The theorems that have it say that the search,
with its refusals, new starts and a stale `reg_start`, adds no overlap of its own; `PetMemPoolsTile` and
`PetMemGivenIsOffline` do without it. The lemmas on arithmetic: `fls` never asks for a pool larger than the range (`PoolFits`),
`get_order` rounds up (`OrderFits`), and the pages of consecutive blocks are consecutive
(`RegionPages`, with division). `PagesAssumption` has `PAGE_OFFSET` beyond the memory.

`BuddyProofs`, on `PetList` (any set of nodes, any links, lists of any length): `Represents` says that
the links from a head are a ring through exactly the elements of a sequence, in order,
each link forward with its link back and no node twice. `AddIsCons`, `AddTailIsAppend`,
`DelIsWithout`, `DelInitIsWithout` and `MoveMoves` say that the stores of each function take
a list that represents a sequence to one that represents the sequence the models use;
`DelIsWithout` and `MoveMoves` also that the other list is right. The two lemmas behind
them, `AddAt` and `DelAt`, follow one place of the ring through the four or two stores; that
no two places of the ring are one node is what makes the stores independent.

On `Buddy` (a pool and a smallest block of any order, any requests and frees): `BuddySafe`,
`BuddyPoolInv`, `BuddyFailsOnlyWhenFull` and the refinement `BuddyImplementsPool`. The inductive
invariant is `PoolInv` with the types. None of its parts can be left out: a merge reads the tag
and the order field at the buddy's address, so `TagsAreRight` needs that the address is that of a
block and not of the inside of one (`Partition`; `AtOtherHalf` says which blocks can be at the
address of a buddy); `Partition` needs the tags, or a merge would take a block in use; and
`BuddyFailsOnlyWhenFull` needs `NoFreeBuddies`, since a free pool in pieces would refuse a request
too. All arithmetic is in one relation, `Same(x, y, o)`: two addresses are in the same aligned
block of order `o`. It is an equivalence, a block of order `o + 1` is two of order `o` (`Halves`), and
`find_buddy` is the other one (`OtherHalfIs`). A split and a merge then exchange a block for pieces
that make it up (`Cover`, `PiecesApart`), read in the two directions (`SplitPartition`,
`MergePartition`, both from `Replace`). For a full pool the argument goes downwards: a region without a held
block lies in free blocks that are smaller than it; a smallest of them has a buddy that is in
the region too, so it is free, of the same size, and the two contradict `NoFreeBuddies`.

The library's induction theorems cannot be used with these provers, so four modules have
induction over the naturals as a lemma on sets (`SetInduction`, from the well-foundedness of
`<`), and the existence of a function defined by iteration follows from it.

Each inductive invariant was checked with TLC on the instances of section 3 before it was
proved.

Every invariant, action property and refinement that a passing run checks is a theorem, with the
hypotheses named above. Only model-checked: all liveness properties, since the prover has no
rule for fairness.

## 5. Not modelled

`ex1_sub_fn` (single atomic instructions), the log of `Threads`, printing and dumping,
`swap.c` (empty), `file_io.c` (pure I/O), registering the device. Of `pet_list.h`:
`list_splice` and the `hlist` part, which nothing calls, and the iteration macros, which
are quantifiers and sequences in the modules that use lists. Of `HashTable`: the keys and
values that a client lets the table free, and the numbers that the hash functions
compute. In `OnDemand`: the TLB (there is nothing about it that the code ensures, see
section 3), accessed bits, which are only printed, and two callers at a time.
In `RWLock`: the values that readers compare. Lines 239-243 of `lf_dequeue` cannot be
reached, as `HeadAlone` in the invariant of `QueueSafe` shows, and have no action.

## 6. Plan

Done: the inventory, the models of section 2, the runs of section 3, the proofs of
section 4. A further model worth having is `OnDemand` with two threads of one process in the driver
at a time, which takes no lock; its state is out of TLC's reach in the form above.
