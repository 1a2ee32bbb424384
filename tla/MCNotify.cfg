\* A ring of two, two subscriptions that come and go, the notifiers of two cycles.
CONSTANTS
  Cap = 2
  Sub = {s1, s2}
  Early = {s2}
  MaxFired = 3
  MaxCycles = 2
SPECIFICATION FairSpec
INVARIANTS
  OnlyOldLost
  SubscribersServed
PROPERTIES
  LatestHeard
  CloseCompletes
CHECK_DEADLOCK FALSE
