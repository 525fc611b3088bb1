SPECIFICATION Spec
CONSTANTS
  Lans = 1
  Wans = 2
  NumQ <- MCNumQ
  RxSlots = 2
  NFrames = 2
  Ring = 1
  Cfgs <- MCCfgs
  MaxFaults = 1
INVARIANTS FramesKept ProgramsTracked AllReleased
PROPERTIES UmemLast
