CONSTANTS
  p = p
  q = q
  old = old
  s1 = s1
  s2 = s2
  s3 = s3
  None = None
  MinigameKind = {"mg"}
  Server = {p, old, s1}
  Preset <- WithOther
  Early = {old}
  Mortal = {old}
  Closer = {}
  Request = {}
  Anonymous = {}
  Wants <- Minigames
  MaxAttempts <- Once
  DockerMayFail = FALSE
SPECIFICATION Spec
CHECK_DEADLOCK FALSE
INVARIANTS
  DeadServersUnlinked
