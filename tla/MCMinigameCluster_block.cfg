CONSTANTS
  c1 = c1
  c2 = c2
  c3 = c3
  n1 = n1
  n2 = n2
  r1 = r1
  r2 = r2
  r3 = r3
  Kind = k
  Name = {n1, n2}
  NameOf <- MCNameOf
  MinTimer <- MCMinTimer
  MaxTimer = 1
  None = None
  Conn = {c1, c3}
  Started = {c3}
  Request = {r1, r2}
  SocketBuffer = 1
  MaxUpdates = 0
SPECIFICATION FairSpec
CHECK_DEADLOCK FALSE
PROPERTIES
  LoopNeverBlocks
