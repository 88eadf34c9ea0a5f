SPECIFICATION ServerSpec
CONSTANTS
  Conn = {c1, c2}
  Fd = {3, 4}
  Requests <- FileOnly
  Configs <- PlainOnly
  Chunks = 2
  Main = Main
  Ring = Ring
  None = None
  c1 = c1
  c2 = c2
PROPERTY Responsive
CHECK_DEADLOCK FALSE
