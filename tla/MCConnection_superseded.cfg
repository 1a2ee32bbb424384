CONSTANTS
  MaxGen = 1
  MaxOpens = 1
  MaxCloses = 0
  QueueCap = 2
  MaxParked = 1
  Active = FALSE
  Named = TRUE
  OpenModes = {"OpenBackground"}
SPECIFICATION Spec
INVARIANT SupersededOnlyByReselect
CHECK_DEADLOCK FALSE
