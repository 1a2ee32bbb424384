\* A data and a control transaction, three frames, two generations.
CONSTANTS
  Data = {d1}
  Control = {c1}
  MaxGen = 2
  MaxFrames = 3
SPECIFICATION FairSpec
INVARIANTS
  ReadyReplyKept
  WriteOnOwnSocket
  NothingLeftBehind
PROPERTIES
  GenuineReplyNotLost
  PromiseKept
  SendReturns
CHECK_DEADLOCK FALSE
