----------------------------- MODULE FrameQueue -----------------------------
(***************************************************************************)
(* What a packet ring promises to the threads on its two sides: a bounded  *)
(* first-in first-out queue in which the two fragments of a split datagram *)
(* are enqueued at once.                                                   *)
(***************************************************************************)
EXTENDS Naturals, Sequences

CONSTANTS
  Single,   \* descriptors of whole packets
  Pair,     \* the pairs of descriptors of the two fragments of a datagram
  Cap       \* capacity

VARIABLE q

Init == q = <<>>

Put(x) == Len(q) < Cap /\ q' = Append(q, x)

PutPair(xy) == Len(q) + 2 <= Cap /\ q' = q \o xy

Take == q # <<>> /\ q' = Tail(q)

Next == (\E x \in Single : Put(x)) \/ (\E xy \in Pair : PutPair(xy)) \/ Take

Spec == Init /\ [][Next]_q
=============================================================================
