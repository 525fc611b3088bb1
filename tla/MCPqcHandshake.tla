-------------------------- MODULE MCPqcHandshake --------------------------
(* Instances of PqcHandshake: the resets and rekeys of each run. *)
EXTENDS PqcHandshake

InitiatorResets == {<<"retry", "I">>, <<"restart", "I">>}
ResponderReboot == {<<"restart", "R">>}
=============================================================================
