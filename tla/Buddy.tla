------------------------------- MODULE Buddy -------------------------------
(***************************************************************************)
(* The buddy allocator of VMproject/buddy.c: one pool of 2^pool_order      *)
(* bytes at base_addr, free lists per order, one tag bit per minimum-sized *)
(* block, and the order field at the head of every free block.  Addresses  *)
(* are relative to base_addr, as find_buddy and block_to_id make them.     *)
(*                                                                         *)
(* A merge leaves the tag bit of the merged upper half set, and a client   *)
(* may write anything into a block it holds, the old order fields          *)
(* included.  The properties show that neither is ever looked at.          *)
(***************************************************************************)
EXTENDS Integers, Sequences, SequencesExt, PoolBlocks

CONSTANTS
    pool_order,     \* size of the pool is 2^pool_order
    min_order       \* the smallest block is 2^min_order

ASSUME OrdersAssumption ==
    pool_order \in Nat /\ min_order \in Nat /\ min_order <= pool_order

Orders == min_order .. pool_order
Blocks == {b \in 0 .. Pow2[pool_order] - 1 : b % Pow2[min_order] = 0}
Junk == -1          \* an order field that a client may have overwritten

VARIABLES
    avail,          \* the free lists, first entry first
    tag_bits,       \* tag bit per minimum-sized block: TRUE is available
    block_order,    \* the order field at each block address
    held            \* the blocks clients hold, with the order they asked for

vars == <<avail, tag_bits, block_order, held>>

(* buddy_init: all lists empty, all tags allocated.  Its caller, ADD_MEMORY *)
(* in main.c, holds the whole pool and frees it next.                       *)
Init ==
    /\ avail = [o \in Orders |-> <<>>]
    /\ tag_bits = [b \in Blocks |-> FALSE]
    /\ block_order = [b \in Blocks |-> Junk]
    /\ held = {[addr |-> 0, order |-> pool_order]}

Units(b, o) == {x \in Blocks : b <= x /\ x < b + Pow2[o]}

(* the order a request is rounded up to *)
Fixup(order) == IF order < min_order THEN min_order ELSE order

(* the address of block b's buddy: b with the bit of the order flipped *)
find_buddy(b, o) == IF (b \div Pow2[o]) % 2 = 0 THEN b + Pow2[o] ELSE b - Pow2[o]

----------------------------------------------------------------------------
(* Mutant: clears no bit. *)
MarkNothing(tags, block) == tags

(* mark_allocated and mark_available, on the tag bits given *)
mark_allocated(tags, block) == [tags EXCEPT ![block] = FALSE]
mark_available(tags, bs) == [b \in Blocks |-> b \in bs \/ tags[b]]

(* the upper half that is cut off a block of order k+1 *)
Trimmed(block, k) == block + Pow2[k]

(* buddy_alloc: the first block of the smallest list that has one, trimmed  *)
(* to size; the trimmed halves become free blocks.  The client may then     *)
(* write into all of the block.                                             *)
buddy_alloc(order) ==
    LET o == Fixup(order)
        fits == {j \in o .. pool_order : avail[j] # <<>>}
        j == Min(fits)
        block == Head(avail[j])
        split == o .. j - 1
    IN  /\ fits # {}
        /\ avail' = [k \in Orders |->
                        IF k = j THEN Tail(avail[j])
                        ELSE IF k \in split THEN <<Trimmed(block, k)>> \o avail[k]
                        ELSE avail[k]]
        /\ tag_bits' = mark_available(mark_allocated(tag_bits, block),
                                      {Trimmed(block, k) : k \in split})
        /\ block_order' = [b \in Blocks |->
                              LET ks == {k \in split : b = Trimmed(block, k)}
                              IN  IF ks # {} THEN Min(ks)
                                  ELSE IF b \in Units(block, o) THEN Junk
                                  ELSE block_order[b]]
        /\ held' = held \cup {[addr |-> block, order |-> order]}

(* buddy_alloc returns NULL *)
AllocFails(order) ==
    /\ \A j \in Fixup(order) .. pool_order : avail[j] = <<>>
    /\ UNCHANGED vars

(* The block that block b lies in after it has merged up to order o: the    *)
(* lower of the two addresses at every merge.                               *)
MergedAddr(b, o) == (b \div Pow2[o]) * Pow2[o]

(* Mutant: merges with a free buddy of any size. *)
CanMergeAnySize(b, o) ==
    /\ o < pool_order
    /\ tag_bits[find_buddy(MergedAddr(b, o), o)]

(* the loop's tests: the buddy is available and of the same size *)
CanMerge(b, o) ==
    /\ o < pool_order
    /\ tag_bits[find_buddy(MergedAddr(b, o), o)]
    /\ block_order[find_buddy(MergedAddr(b, o), o)] = o

(* Mutant: frees without merging. *)
MergedOrderNone(b, o) == o

(* the order at which the loop stops *)
MergedOrder(b, o) == Min({k \in o .. pool_order : ~CanMerge(b, k)})

(* buddy_free: merge with free buddies as far as possible, then add the     *)
(* block to its free list.                                                  *)
buddy_free(h) ==
    LET b == h.addr
        o == Fixup(h.order)
        top == MergedOrder(b, o)
        merged == o .. top - 1                  \* orders at which a buddy was taken
        block == MergedAddr(b, top)
        stored == {k \in o .. top : k > o \/ k = top}   \* block->order = k
    IN  /\ h \in held
        /\ avail' = [k \in Orders |->
                        IF k \in merged
                        THEN RemoveFirst(avail[k], find_buddy(MergedAddr(b, k), k))
                        ELSE IF k = top THEN <<block>> \o avail[k]
                        ELSE avail[k]]
        /\ tag_bits' = mark_available(tag_bits, {block})
        /\ block_order' = [x \in Blocks |->
                              LET ks == {k \in stored : MergedAddr(b, k) = x}
                              IN  IF ks = {} THEN block_order[x] ELSE Max(ks)]
        /\ held' = held \ {h}

Next ==
    \/ \E order \in 0 .. pool_order : buddy_alloc(order) \/ AllocFails(order)
    \/ \E h \in held : buddy_free(h)

Spec == Init /\ [][Next]_vars

----------------------------------------------------------------------------
Free == UNION {{[addr |-> b, order |-> o] : b \in ToSet(avail[o])} : o \in Orders}
Held == {[addr |-> h.addr, order |-> Fixup(h.order)] : h \in held}

(* Every byte of the pool belongs to exactly one free or held block, every  *)
(* block is aligned to its size, and no free block is listed twice: nothing *)
(* is handed out twice and nothing leaks through any sequence of splits and *)
(* merges.                                                                  *)
Partition ==
    /\ \A b \in Blocks :
          \E p \in Free \cup Held :
             /\ b \in Units(p.addr, p.order)
             /\ \A q \in Free \cup Held : b \in Units(q.addr, q.order) => q = p
    /\ Free \cap Held = {}
    /\ \A h, g \in held : h.addr = g.addr => h = g
    /\ \A p \in Free \cup Held : p.addr % Pow2[p.order] = 0
    /\ \A o \in Orders : \A m, n \in DOMAIN avail[o] :
          avail[o][m] = avail[o][n] => m = n

(* A pool keeps its promise to whoever holds its blocks: it refines the     *)
(* abstract pool, with every request rounded up to the smallest order.      *)
Pool == INSTANCE AbstractPool WITH held <- Held
PoolContract == Pool!Spec

(* At the address of every free and every held block the tag bit is right,  *)
(* and a free block's order field is its order, whatever stale tags and     *)
(* overwritten fields lie inside the blocks.  So BUG_ON(is_available) never *)
(* fires on a block a client holds, and a merge only ever reads fields that *)
(* the allocator itself has written.                                        *)
TagsAreRight ==
    /\ \A p \in Free : tag_bits[p.addr] /\ block_order[p.addr] = p.order
    /\ \A p \in Held : ~tag_bits[p.addr]

(* No two free blocks could be merged: when the buddy of a free block is    *)
(* free, it is in smaller pieces.                                           *)
NoFreeBuddies ==
    \A o \in min_order .. pool_order - 1 : \A b \in ToSet(avail[o]) :
        find_buddy(b, o) \notin ToSet(avail[o])

(* The three together, which is what each step needs of the one before it.  *)
PoolInv == Partition /\ TagsAreRight /\ NoFreeBuddies

(* Free lists hold addresses, tags are bits and order fields are orders or  *)
(* what a client has written.                                               *)
TypeOK ==
    /\ avail \in [Orders -> Seq(Blocks)]
    /\ tag_bits \in [Blocks -> BOOLEAN]
    /\ block_order \in [Blocks -> Orders \cup {Junk}]
    /\ held \subseteq [addr : Blocks, order : 0 .. pool_order]

(* The inductive invariant.                                                 *)
BuddyInv == TypeOK /\ PoolInv

(* An allocation fails only when no aligned region of its size is free.     *)
FailsOnlyWhenFull ==
    \A o \in Orders :
        (\A j \in o .. pool_order : avail[j] = <<>>) =>
            \A b \in Blocks : b % Pow2[o] = 0 =>
                \E h \in Held : Units(b, o) \cap Units(h.addr, h.order) # {}

============================================================================
