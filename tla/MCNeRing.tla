------------------------------ MODULE MCNeRing ------------------------------
(* The packet ring on small instances.                                     *)
EXTENDS NeRing, TLC

MCSymmetry == Permutations(Producers) \cup Permutations(Frames)
=============================================================================
