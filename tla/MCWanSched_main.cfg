SPECIFICATION FairSpec
CONSTANTS
  Wans = 3
  Cfgs <- MCCfgs
  Grace = 2
  Sender = {s1}
  RingCap = 3
  Kickable = {1}
  Unsteady = {2}
  Budgets <- MCBudgets
INVARIANTS Conserved 
PROPERTIES LateOnce Settles DrainEnds
