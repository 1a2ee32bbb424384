CONSTANTS
  MaxGen = 1
  MaxOpens = 1
  MaxCloses = 1
  QueueCap = 1
  MaxParked = 1
  Active = FALSE
  Named = TRUE
  OpenModes = {"OpenBackground"}
SPECIFICATION Spec
INVARIANT ClosedReportsNotConnected
CHECK_DEADLOCK FALSE
