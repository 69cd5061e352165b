---------------------------- MODULE MCHashTable ----------------------------
(* Instance of HashTable: three sizes, the load limits about 0.65 of them   *)
(* as in the source, and lower at the last so that it can be passed there.  *)
EXTENDS HashTable

MCPrimes == <<2, 3, 5>>
MCLoadFactors == <<1, 2, 2>>

(* Addresses are only compared for equality. *)
Symmetry == Permutations(Entries)

============================================================================
