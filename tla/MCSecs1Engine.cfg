\* Two generations of either role, two frames of the application, one bad block.
CONSTANTS
  s1 = s1
  MaxGen = 2
  Sender <- OneSender
  SendCap = 1
  MaxApp = 2
  MaxBad = 1
SPECIFICATION Spec
INVARIANTS
  HandedToOwnEngine
  StopIsClean
  RestsReleased
CHECK_DEADLOCK FALSE
