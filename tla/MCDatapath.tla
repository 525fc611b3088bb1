----------------------------- MODULE MCDatapath -----------------------------
(* Instances of Datapath for TLC: connections 1 and 2 are tunnelled, 3 is    *)
(* bypass traffic, one set of the route table with a single way.             *)
EXTENDS Datapath
MCHash == <<0, 1, 1>>
MCPortOf == <<1, 1, 1>>
MCPeerWorker == <<1, 1, 0>>
MCSizes == <<{FALSE}, {TRUE}, {}>>
MCPeerSizes == <<{TRUE}, {TRUE, FALSE}, {}>>
Symm == Permutations(Frame)
=============================================================================
