----------------------------- MODULE MCWanSched -----------------------------
(* Three WANs: all in use with a remainder to share out, two of them taken *)
(* off the dataplane, and the last one ARP-only.  Three budgets: many      *)
(* reloads and kicks with no traffic, and traffic through a reload or      *)
(* through a kick and a restore, with a link that goes down.               *)
EXTENDS WanSched

All == [w \in Wan |-> TRUE]

Weights(a, b, c) == [w \in Wan |-> <<a, b, c>>[w + 1]]

MCCfgs == { [live |-> All, weight |-> Weights(1, 2, 2)],
            [live |-> [w \in Wan |-> w = 2], weight |-> Weights(1, 2, 2)],
            [live |-> All, weight |-> Weights(3, 1, 0)] }

MCBudgets == { [reloads |-> 3, kicks |-> 2, flaps |-> 1, datagrams |-> 0],
               [reloads |-> 1, kicks |-> 0, flaps |-> 1, datagrams |-> 3],
               [reloads |-> 0, kicks |-> 2, flaps |-> 1, datagrams |-> 3] }
=============================================================================
