CONSTANTS
  c1 = c1
  c2 = c2
  c3 = c3
  n1 = n1
  n2 = n2
  r1 = r1
  r2 = r2
  r3 = r3
  Kind = k
  Name = {n1, n2}
  NameOf <- MCNameOf
  MinTimer <- MCMinTimer
  MaxTimer = 1
  None = None
  Conn = {c1, c2}
  Started = {c2}
  Request = {r1, r2, r3}
  SocketBuffer = 1
  MaxUpdates = 1
SPECIFICATION Spec
SYMMETRY Symmetry
CHECK_DEADLOCK FALSE
INVARIANTS
  TypeOK
  RequestConserved
  NoLostWakeup
  RoundHasTimer
  StaleEventsIgnored
PROPERTIES
  AnsweredByPingedServer
  ImplementsQueueService
