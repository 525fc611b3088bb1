---------------------------- MODULE MCUdpReorder ----------------------------
(* Instances of UdpReorder.  The sequence numbers lie on both sides of the *)
(* wrap at SeqMod and span less than half of it, as those of one flow do   *)
(* within the life of an entry.                                            *)
EXTENDS UdpReorder, TLC

CONSTANTS Below, Above  \* bound: how many seqs before and after the wrap

MCSeqs == (SeqMod - Below)..(SeqMod - 1) \cup 0..(Above - 1)

FrameSymmetry == Permutations(Frames)
=============================================================================
