SPECIFICATION Spec
CONSTANTS
  Path = {p1, p2}
  Handler = {h1, h2}
  Block = {b1, b2, b3, b4}
  Capacity = 2
  Chunks = 2
  Modifiable = {p1}
  Directory = {}
  MaxVersion = 1
  SecondOf <- DistinctSeconds
  Signals = FALSE
  Main = Main
  None = None
  p1 = p1
  p2 = p2
  h1 = h1
  h2 = h2
  b1 = b1
  b2 = b2
  b3 = b3
  b4 = b4
INVARIANT SlotsSound
CHECK_DEADLOCK FALSE
