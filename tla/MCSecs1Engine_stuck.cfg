\* One generation of either role.
CONSTANTS
  s1 = s1
  MaxGen = 1
  Sender <- OneSender
  SendCap = 1
  MaxApp = 2
  MaxBad = 1
SPECIFICATION FairSpec
PROPERTY
  NotifyReturns
CHECK_DEADLOCK FALSE
