---------------------------- MODULE MCArpBridge -----------------------------
(* Two ports on one LAN segment, two clients, one remote host.             *)
EXTENDS ArpBridge, TLC

CONSTANTS p1, p2, a, c, r, h, w1, w2

MCPort == {p1, p2}
MCClient == {a, c}
MCHears == (p1 :> {p2}) @@ (p2 :> {p1})
Sym == Permutations({a, c}) \cup Permutations({w1, w2})
=============================================================================
