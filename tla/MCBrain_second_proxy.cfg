CONSTANTS
  p = p
  q = q
  old = old
  s1 = s1
  s2 = s2
  s3 = s3
  None = None
  MinigameKind = {"mg"}
  Server = {p, q, s1}
  Preset <- TwoProxies
  Early = {}
  Mortal = {}
  Closer = {}
  Request = {}
  Anonymous = {}
  Wants <- Minigames
  MaxAttempts <- Once
  DockerMayFail = FALSE
SPECIFICATION Spec
CHECK_DEADLOCK FALSE
INVARIANTS
  BrainEndsWithItsProxy
