SPECIFICATION FairSpec
CONSTANTS
  Thread = {Main, t1, t2}
  Main = Main
  Worlds <- SharedOrColliding
  None = None
  t1 = t1
  t2 = t2
INVARIANT TypeOK
INVARIANT OneList
INVARIANT Armed
INVARIANT NeverExits
INVARIANT OneOwner
INVARIANT Counted
PROPERTY FifoLockSpec
PROPERTY NeverOvertaken
PROPERTY EveryThreadRuns
