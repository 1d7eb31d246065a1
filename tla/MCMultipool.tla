---------------------------- MODULE MCMultipool ----------------------------
(* A small allocator for TLC: pools of two or three small objects (they    *)
(* grow to max_pad), requests of one cell line and of a longer line, and   *)
(* paddings of half a pool and of more than a pool.                        *)
EXTENDS Multipool, TLC

CONSTANTS p1, p2, p3

MCPools == {p1, p2, p3}
MCSymmetry == Permutations(MCPools)
=============================================================================
