--------------------------- MODULE MCPoolAllocator ---------------------------
(* Pools of a byte of bits, and of a little more. *)
EXTENDS PoolAllocator
=============================================================================
