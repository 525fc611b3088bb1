SPECIFICATION FairSpec
CONSTANTS
  c1 = c1
  c2 = c2
  c3 = c3
  Cfgs <- MCCfgs
  NoCfg = NoCfg
  Topo <- MCTopo
  Profiles = {1, 2}
  TxSlots = 2
  MaxSignals = 2
INVARIANTS SlotAgrees NoOrphanRequest
PROPERTIES LiveCfgStable RunningStops
CHECK_DEADLOCK FALSE
