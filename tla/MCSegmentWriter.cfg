SPECIFICATION Spec
CONSTANTS
  c1 = c1
  c2 = c2
  v1 = v1
  v2 = v2
  Capture = {c1, c2}
  Converter = {v1, v2}
  Imported = Imported
  Area = Area
  Casts <- MCCasts
  Drifting <- MCDrifting
  MaxSeq = 2
  MaxFaults = 1
  MaxCrashes = 1
  Periods = {0, 1, 2}
  Skews = {0, 1, 2}
  MaxBytes = 1
CHECK_DEADLOCK FALSE
INVARIANTS
  StoredIsPrefix
  CommittedKept
  FailureTold
  StepsStored
  NothingRefusedLate
