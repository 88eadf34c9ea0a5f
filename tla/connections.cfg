SPECIFICATION FairSpec
CONSTANTS
  Conn = {c1, c2}
  Fd = {3, 4, 5}
  Requests <- EachOutcome
  Configs <- EachMode
  Chunks = 2
  Main = Main
  Ring = Ring
  None = None
  c1 = c1
  c2 = c2
INVARIANT TypeOK
INVARIANT OwnDescriptor
INVARIANT OneAnswer
INVARIANT PlainAnswered
INVARIANT FilesNotInClear
PROPERTY NumbersLost
PROPERTY EveryConnectionEnds
CHECK_DEADLOCK FALSE
