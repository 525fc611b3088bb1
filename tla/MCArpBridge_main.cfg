SYMMETRY Sym
CONSTANTS
  p1 = p1  p2 = p2   a = a  c = c  r = r  h = h  w1 = w1  w2 = w2
  Port <- MCPort
  Client <- MCClient
  Remote = {r}
  Own = {h}
  MaxEntries = 4
  Worker = {w1, w2}
  Hears <- MCHears
  StampMax = 2
  MaxAir = 2
SPECIFICATION Spec
INVARIANTS OnlyClients OnePlace Remembered
CHECK_DEADLOCK FALSE
