---------------------------- MODULE MCFileStore ----------------------------
EXTENDS Inspect, TLC

(* Every name hashes to the first slot, so that they collide.               *)
MCHomeSlot == [n \in Names |-> 1]

MCPlaces == Places

(* Names that hash alike are interchangeable.                               *)
MCSymmetry == Permutations(Names)
=============================================================================
