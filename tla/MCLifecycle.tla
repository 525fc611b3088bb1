----------------------------- MODULE MCLifecycle -----------------------------
(* Instances of Lifecycle.  Three configurations: two that share their     *)
(* interfaces, so that a hot reload is possible, and one that needs a full *)
(* restart.                                                                *)
EXTENDS Lifecycle

CONSTANTS c1, c2, c3

MCCfgs == {c1, c2, c3}

MCTopo == [c \in MCCfgs |-> IF c = c3 THEN 2 ELSE 1]
=============================================================================
