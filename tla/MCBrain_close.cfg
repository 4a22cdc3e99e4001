CONSTANTS
  p = p
  q = q
  old = old
  s1 = s1
  s2 = s2
  s3 = s3
  None = None
  MinigameKind = {"mg"}
  Server = {p, s1}
  Preset <- OneProxy
  Early = {}
  Mortal = {}
  Closer = {s1}
  Request = {}
  Anonymous = {}
  Wants <- Minigames
  MaxAttempts <- Once
  DockerMayFail = FALSE
SPECIFICATION Spec
CHECK_DEADLOCK FALSE
INVARIANTS
  LiveServersLinked
