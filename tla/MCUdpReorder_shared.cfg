SPECIFICATION Spec
CONSTANTS
  Keys = {k1, k2}
  NoKey = NoKey
  Epochs = {1}
  Frames = {x1, x2, x3}
  NoFrame = NoFrame
  SeqMod = 16
  Below = 2
  Above = 2
  Seqs <- MCSeqs
  Ways = 2
  Window = 2
  Backtrack = 1
  HeldCap = 2
  GcSlice = 1
  Hold = 1
  Idle = 1
  CryptoToggles = FALSE
SYMMETRY FrameSymmetry
INVARIANTS HeldCounts HeldBounded Ownership
