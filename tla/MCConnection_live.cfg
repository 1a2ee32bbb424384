\* A dialling transport that names its generations, opened either way; fair.
CONSTANTS
  MaxGen = 2
  MaxOpens = 1
  MaxCloses = 1
  QueueCap = 1
  MaxParked = 1
  Active = TRUE
  Named = TRUE
  OpenModes = {"OpenBackground", "OpenWaitSelected"}
SPECIFICATION FairSpec
INVARIANTS
  OneStartInFlight
  CloseLeavesNothing
  SocketsReleased
  OneLiveGeneration
  StateBelongsToCurrent
PROPERTIES
  DropIsDue
  CloseReturns
  ReconnectReached
CHECK_DEADLOCK FALSE
