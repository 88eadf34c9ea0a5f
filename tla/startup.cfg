SPECIFICATION FairSpec
CONSTANTS
  Process = {p1, p2}
  Hosts <- MCHosts
  Texts <- MCTexts
  PortSpace = 65536
  None = None
  p1 = p1
  p2 = p2
INVARIANT TypeOK
INVARIANT ServesVerified
INVARIANT WholeUnlessStopped
PROPERTY CrashesUnverified
PROPERTY KeepsUserConfig
PROPERTY EveryStartEnds
