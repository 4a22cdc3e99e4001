CONSTANTS
  p = p
  q = q
  old = old
  s1 = s1
  s2 = s2
  s3 = s3
  None = None
  MinigameKind = {"mg"}
  Server = {p, old, s1, s2}
  Preset <- WithOther
  Early = {old}
  Mortal = {s2}
  Closer = {}
  Request = {"r1"}
  Anonymous = {}
  Wants <- Minigames
  MaxAttempts <- ProxyTwice
  DockerMayFail = FALSE
SPECIFICATION Spec
CHECK_DEADLOCK FALSE
INVARIANTS
  TypeOK
  LiveServersLinked
  DeadServersUnlinked
  ClustersAgree
  BooksAgree
  BrainEndsAfterProxyLoss
  RequestsConserved
  TransportFollowsLink
