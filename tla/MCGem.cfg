SPECIFICATION Spec
CONSTANTS
  MaxListDepth = 8
  ItemEdits = {"append", "drop", "scalar", "list", "retype", "none", "double", "wide", "huge"}
  WireEdits = {"cut", "pad", "long"}
INVARIANTS
  RoundTrip
  DecodedIsWhatArrived
  AcceptReplyAnswers
