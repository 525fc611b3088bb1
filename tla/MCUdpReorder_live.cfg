SPECIFICATION FairSpec
CONSTANTS
  Keys = {k1}
  NoKey = NoKey
  Epochs = {1, 2}
  Frames = {x1, x2}
  NoFrame = NoFrame
  SeqMod = 16
  Below = 3
  Above = 3
  Seqs <- MCSeqs
  Ways = 1
  Window = 4
  Backtrack = 2
  HeldCap = 3
  GcSlice = 1
  Hold = 1
  Idle = 1
  CryptoToggles = TRUE
INVARIANTS HeldAhead
PROPERTIES InOrder SubmitReturns HeldLeaves
