SPECIFICATION Spec
CONSTANTS
  MaxId = 6
  MaxUsers = 2
  IdLimit = 4
  Indices = {1, 2}
  MaxQueue = 1
  Traffics <- MCTraffics
  Growth = 6
  Added = 150
  Members = 100
  LobbyMax = 30000
  BrokerMax = 4000
INVARIANTS
  IndexOfThisLink
  ClientPacketFits
CHECK_DEADLOCK FALSE
