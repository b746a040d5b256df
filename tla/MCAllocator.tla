---------------------------- MODULE MCAllocator ----------------------------
(***************************************************************************)
(* The allocator with three data sectors and two writers.                  *)
(***************************************************************************)
EXTENDS Allocator, TLC

Symmetry == Permutations(Writers)
=============================================================================
