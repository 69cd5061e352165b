----------------------------- MODULE PoolBlocks -----------------------------
(***************************************************************************)
(* The blocks of a pool of 2^size units: a block of order o is 2^o units   *)
(* at an address, relative to the pool, that is a multiple of 2^o.         *)
(***************************************************************************)
EXTENDS Integers

(* 1 << n *)
Pow2[n \in Nat] == IF n = 0 THEN 1 ELSE 2 * Pow2[n - 1]

UnitsOf(block) == block.addr .. block.addr + Pow2[block.order] - 1

(* the blocks of order o that have no unit in common with the blocks of h *)
Unused(h, size, o) ==
    {b \in [addr : {a \in 0 .. Pow2[size] - Pow2[o] : a % Pow2[o] = 0}, order : {o}] :
        \A x \in h : UnitsOf(b) \cap UnitsOf(x) = {}}

=============================================================================
