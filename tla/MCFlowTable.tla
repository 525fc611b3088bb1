---------------------------- MODULE MCFlowTable ----------------------------
(* Two WANs whose weights change under a flow, three WANs, and one alone.  *)
EXTENDS FlowTable

CONSTANTS f1, f2, f3

MCHash == [f \in Flows |-> CASE f = f1 -> 0 [] f = f2 -> 5 [] OTHER -> 7]

MCPools == { [wans |-> <<0, 1>>, weights |-> <<1, 1>>],
             [wans |-> <<0, 1>>, weights |-> <<2, 1>>],
             [wans |-> <<0, 1, 2>>, weights |-> <<1, 2, 3>>],
             [wans |-> <<1>>, weights |-> <<3>>] }
=============================================================================
