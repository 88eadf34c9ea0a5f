SPECIFICATION Spec
CONSTANTS
  Path = {p1, p2, p3}
  Handler = {h1, h2}
  Block = {b1, b2, b3, b4}
  Capacity = 2
  Chunks = 2
  Modifiable = {}
  Directory = {}
  MaxVersion = 0
  SecondOf <- DistinctSeconds
  Signals = TRUE
  Main = Main
  None = None
  p1 = p1
  p2 = p2
  p3 = p3
  h1 = h1
  h2 = h2
  b1 = b1
  b2 = b2
  b3 = b3
  b4 = b4
SYMMETRY FullSymmetry
INVARIANT SlotsSound
PROPERTY NoAbort
PROPERTY FifoSpec
CHECK_DEADLOCK FALSE
