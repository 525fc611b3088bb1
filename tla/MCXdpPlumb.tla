----------------------------- MODULE MCXdpPlumb -----------------------------
(* One LAN and two WANs, the second with two queues; the dataplane starts  *)
(* with any of them or with none.                                          *)
EXTENDS XdpPlumb, TLC

MCNumQ == (0 :> 1) @@ (1 :> 1) @@ (2 :> 2)

MCCfgs == {{}, {2}, {1, 2}}
=============================================================================
