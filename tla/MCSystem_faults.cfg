CONSTANTS
  p = p
  q = q
  old = old
  s1 = s1
  s2 = s2
  None = None
  MinigameKind = {"mg"}
  Server = {p, q, old, s1}
  Preset <- TwoAndOther
  Early = {}
  Mortal = {}
  Closer = {}
  Request = {"r1"}
  Anonymous = {}
  Wants <- MCWants
  MaxAttempts <- OldTwice
  MaxPackets = 10
  DockerMayFail = TRUE
SPECIFICATION SystemSpec
SYMMETRY Proxies
CHECK_DEADLOCK FALSE
INVARIANTS
  DeadServersUnlinked
  ClustersAgree
  RequestsConserved
  DefaultIsBestConnected
  ListenerEndsOnlyAfterLoss
