CONSTANTS
  p = p
  q = q
  old = old
  s1 = s1
  s2 = s2
  None = None
  MinigameKind = {"mg"}
  Server = {p, s1, s2}
  Preset <- OneProxy
  Early = {}
  Mortal = {s2}
  Closer = {}
  Request = {"r1"}
  Anonymous = {}
  Wants <- MCWants
  MaxAttempts <- Once
  MaxPackets = 10
  DockerMayFail = FALSE
SPECIFICATION SystemSpec
CHECK_DEADLOCK FALSE
INVARIANTS
  BrainEndsWithProxyProcess
