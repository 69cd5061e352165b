---------------------------- MODULE AbstractPool ----------------------------
(***************************************************************************)
(* What the buddy allocator of VMproject/buddy.c promises for one pool: at *)
(* first its creator holds the whole pool, an allocation hands out an      *)
(* aligned block of which nobody holds a part, and a block that was handed *)
(* out can be given back.                                                  *)
(***************************************************************************)
EXTENDS PoolBlocks

CONSTANTS pool_order, min_order

VARIABLE held       \* the blocks that are handed out

Init == held = {[addr |-> 0, order |-> pool_order]}

Alloc(o) == \E b \in Unused(held, pool_order, o) : held' = held \cup {b}

Free == \E b \in held : held' = held \ {b}

Next == Free \/ \E o \in min_order .. pool_order : Alloc(o)

Spec == Init /\ [][Next]_held

=============================================================================
