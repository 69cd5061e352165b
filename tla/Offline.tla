------------------------------ MODULE Offline ------------------------------
(***************************************************************************)
(* The control utility VMproject/user/petmem.c: it looks for num_blocks    *)
(* consecutive memory blocks that sysfs calls removable, asks Linux to     *)
(* offline them, checks that it did, and starts again with one block fewer *)
(* to choose from if it did not.  Linux may refuse any request; opening a  *)
(* sysfs file may fail at any time.                                        *)
(***************************************************************************)
EXTENDS Integers, FiniteSets

CONSTANTS
    bitmap_entries,     \* number of memory blocks
    num_blocks          \* number of blocks asked for

ASSUME BlocksAssumption == bitmap_entries \in Nat /\ num_blocks \in Nat

Blocks == 0 .. bitmap_entries - 1

VARIABLES
    online,         \* external: the blocks that are online
    bitmap,         \* the blocks whose bit is set
    reg_start,      \* first block of the region
    phase,          \* "scan", "offline", "check", "online", "given", "failed"
    i, j            \* loop variables: block in the region, block to put back

vars == <<online, bitmap, reg_start, phase, i, j>>

(* The bitmap as the loop over the memory directories has filled it: with   *)
(* one block only the loop does not run.  A block that is offline already   *)
(* may be removable too.  (Where main returns -1 before this, no state      *)
(* follows.)                                                                *)
Init ==
    /\ online \in SUBSET Blocks
    /\ bitmap \in SUBSET Blocks
    /\ bitmap_entries = 1 => bitmap = {}
    /\ reg_start = 0
    /\ phase = "scan"
    /\ i = 0 /\ j = 0

(* the blocks that the scan's loop has counted when it has looked at n *)
RunAt(n) == {b \in 0 .. n : b .. n \subseteq bitmap}

(* the entries at which the loop breaks *)
Breaks == {n \in Blocks : n \in bitmap /\ Cardinality(RunAt(n)) >= num_blocks}

(* Mutant: the region starts at the clear bit. *)
RegStartAtClear(n) ==
    LET clear == (0 .. n) \ bitmap
    IN  IF clear = {} THEN reg_start
        ELSE CHOOSE b \in clear : \A c \in clear : c <= b

(* reg_start after entries 0 .. n: behind the last clear bit, or as an      *)
(* earlier scan has left it                                                 *)
RegStart(n) ==
    LET clear == (0 .. n) \ bitmap
    IN  IF clear = {} THEN reg_start
        ELSE (CHOOSE b \in clear : \A c \in clear : c <= b) + 1

(* the scan of the bitmap, found *)
Scan ==
    /\ phase = "scan" /\ Breaks # {}
    /\ reg_start' = RegStart(CHOOSE n \in Breaks : \A m \in Breaks : n <= m)
    /\ phase' = "offline" /\ i' = 0
    /\ UNCHANGED <<online, bitmap, j>>

(* the scan of the bitmap, with no break.  The run it ends with can only be *)
(* long enough if no block was asked for.                                   *)
ScanFails ==
    /\ phase = "scan" /\ Breaks = {}
    /\ reg_start' = RegStart(bitmap_entries - 1)
    /\ phase' = IF num_blocks > 0 THEN "failed" ELSE "offline"
    /\ i' = 0
    /\ UNCHANGED <<online, bitmap, j>>

(* one request to offline a block, which Linux may refuse *)
OfflineBlock ==
    /\ phase = "offline" /\ i < num_blocks
    /\ online' \in {online, online \ {reg_start + i}}
    /\ i' = i + 1
    /\ UNCHANGED <<bitmap, reg_start, phase, j>>

OfflineDone ==
    /\ phase = "offline" /\ i = num_blocks
    /\ phase' = "check" /\ i' = 0
    /\ UNCHANGED <<online, bitmap, reg_start, j>>

(* Mutant: believes that the block is offline. *)
CheckBelieves ==
    /\ phase = "check" /\ i < num_blocks
    /\ i' = i + 1
    /\ UNCHANGED <<online, bitmap, reg_start, phase, j>>

(* Mutant: leaves the block's bit set. *)
CheckKeepsBit ==
    /\ phase = "check" /\ i < num_blocks
    /\ IF reg_start + i \in online
       THEN /\ phase' = "online" /\ j' = 0
            /\ UNCHANGED <<bitmap, i>>
       ELSE i' = i + 1 /\ UNCHANGED <<bitmap, phase, j>>
    /\ UNCHANGED <<online, reg_start>>

(* the state of one block is read back; a block that is still online is     *)
(* struck from the bitmap                                                   *)
CheckBlock ==
    /\ phase = "check" /\ i < num_blocks
    /\ IF reg_start + i \in online
       THEN /\ bitmap' = bitmap \ {reg_start + i}
            /\ phase' = "online" /\ j' = 0
            /\ UNCHANGED i
       ELSE i' = i + 1 /\ UNCHANGED <<bitmap, phase, j>>
    /\ UNCHANGED <<online, reg_start>>

(* One of the blocks before the one that failed is put back online, which    *)
(* Linux may refuse too.  The blocks after it stay as they are.             *)
OnlineBlock ==
    /\ phase = "online" /\ j < i
    /\ online' \in {online, online \cup {reg_start + j}}
    /\ j' = j + 1
    /\ UNCHANGED <<bitmap, reg_start, phase, i>>

Again ==
    /\ phase = "online" /\ j = i
    /\ phase' = "scan"
    /\ UNCHANGED <<online, bitmap, reg_start, i, j>>

(* every block was offline: ADD_MEMORY gives the region to the driver *)
AddMemory ==
    /\ phase = "check" /\ i = num_blocks
    /\ phase' = "given"
    /\ UNCHANGED <<online, bitmap, reg_start, i, j>>

(* a sysfs file cannot be opened or read, or, when all is checked, the      *)
(* driver's device: main returns -1, and what is offline stays so           *)
OpenFails ==
    /\ \/ phase = "offline" /\ i < num_blocks
       \/ phase = "check"
       \/ phase = "online" /\ j < i
    /\ phase' = "failed"
    /\ UNCHANGED <<online, bitmap, reg_start, i, j>>

(* the steps of one run up to its ioctl *)
Search ==
    \/ Scan \/ ScanFails
    \/ OfflineBlock \/ OfflineDone
    \/ CheckBlock \/ OnlineBlock \/ Again

Next == Search \/ AddMemory \/ OpenFails

(* The utility is a process that keeps running. *)
Spec == Init /\ [][Next]_vars /\ WF_vars(Search \/ AddMemory)

----------------------------------------------------------------------------
Region == reg_start .. reg_start + num_blocks - 1

(* What the search knows in each phase.  The last part is why a reg_start   *)
(* from an earlier scan does no harm: the scan keeps it only when the first *)
(* blocks are all removable, and then it is 0.                              *)
SearchInv ==
    /\ bitmap \subseteq Blocks /\ reg_start \in Nat /\ i \in 0 .. num_blocks /\ j \in Nat
    /\ phase \in {"scan", "offline", "check", "online", "given", "failed"}
    /\ phase \in {"offline", "check", "given"} => Region \subseteq bitmap
    /\ phase = "check" => \A k \in 0 .. i - 1 : reg_start + k \notin online
    /\ phase = "online" => \A k \in 0 .. i - 1 : reg_start + k \in bitmap
    /\ phase = "given" => Region \cap online = {}
    /\ num_blocks > 0 /\ 0 .. num_blocks - 1 \subseteq bitmap => reg_start = 0

(* Every block that is given to the driver is offline and was removable,    *)
(* after any number of refusals and new starts, although reg_start is       *)
(* carried over from scan to scan.                                          *)
GivenIsOffline ==
    phase = "given" => Region \subseteq bitmap /\ Region \cap online = {}

============================================================================
