-------------------------- MODULE AbstractVspace --------------------------
(***************************************************************************)
(* What the virtual address allocator of VMproject/on_demand.c promises a  *)
(* process: the regions it holds lie in the petmem range, never overlap,   *)
(* and each comes and goes whole, one at a time.                           *)
(***************************************************************************)
EXTENDS Integers

CONSTANT RegionPages        \* pages between PETMEM_REGION_START and _END

VARIABLE held               \* the regions the process holds

Pages(r) == r.start .. r.start + r.size - 1

Init == held = {}

Grant(start, size) ==
    LET r == [start |-> start, size |-> size]
    IN  /\ Pages(r) \subseteq 0 .. RegionPages - 1
        /\ \A h \in held : Pages(h) \cap Pages(r) = {}
        /\ held' = held \cup {r}

Release(r) == held' = held \ {r}

Next ==
    \/ \E start \in 0 .. RegionPages - 1 :
          \E size \in 1 .. RegionPages : Grant(start, size)
    \/ \E r \in held : Release(r)

Spec == Init /\ [][Next]_held

============================================================================
