SPECIFICATION Spec
CONSTANTS
  Producers = {p1, p2}
  Frames = {f1, f2, f3}
  NoFrame = NoFrame
  Nobody = Nobody
  Cap = 2
  CntMod = 4
  Batch = 2
  PopLocked = TRUE
  Flusher = TRUE
SYMMETRY MCSymmetry
INVARIANTS FrameOnce
PROPERTIES FifoSpec
