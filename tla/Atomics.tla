------------------------------ MODULE Atomics ------------------------------
(***************************************************************************)
(* The atomic read-modify-write instructions of SyncProject/locking.c that *)
(* the locks and the queue are built on.                                   *)
(***************************************************************************)

(* lock cmpxchg, of either width: what *ptr holds afterwards.  The          *)
(* instruction returns the old value whether or not it wrote the new one.   *)
CompareAndSwap(old, expected, new) == IF old = expected THEN new ELSE old

============================================================================
