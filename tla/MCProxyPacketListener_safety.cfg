CONSTANTS
  lobby = lobby
  lobby2 = lobby2
  minigame = minigame
  Name = {lobby, lobby2, minigame}
  PriorityOf <- MCPriorityOf
  Player = {p1}
  MaxPackets = 6
  None = None
SPECIFICATION Spec
CHECK_DEADLOCK FALSE
INVARIANTS
  TypeOK
  DefaultIsBest
PROPERTIES
  DefaultSticky
