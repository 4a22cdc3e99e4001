CONSTANTS
  p = p
  q = q
  old = old
  s1 = s1
  s2 = s2
  s3 = s3
  None = None
  MinigameKind = {"mg"}
  Server = {p, s1, s2, s3}
  Preset <- OneProxy
  Early = {}
  Mortal = {s1}
  Closer = {s1}
  Request = {"r1", "r2"}
  Anonymous = {"r2"}
  Wants <- Minigames
  MaxAttempts <- Once
  DockerMayFail = FALSE
SPECIFICATION FairSpec
CHECK_DEADLOCK FALSE
INVARIANTS
  UniqueNames
PROPERTIES
  StoppedServersUnlinked
  RequestsServed
