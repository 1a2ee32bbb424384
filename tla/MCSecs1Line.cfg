\* One block one way and two the other; a character lost or garbled, or a slow handler.
CONSTANTS
  ToSend <- OneAndTwo
  RetryLimit = 2
  MaxNoise = 1
  MaxEarly = 1
SPECIFICATION FairSpec
INVARIANTS
  BlocksArrive
PROPERTIES
  AllSent
CHECK_DEADLOCK FALSE
