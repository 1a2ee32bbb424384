\* One generation of either role; two failed linktests in a row drop the link.
CONSTANTS
  Closer = {"io", "separate", "select", "linktest", "teardown"}
  ReportCloser = {"io", "separate", "select", "linktest"}
  Reporter = {"recv"}
  Threshold = 2
  MaxTraffic = 3
  WireCap = 1
SPECIFICATION FairSpec
INVARIANTS
  CloseReportedLast
  CauseAgrees
  SelectedBeforeData
PROPERTIES
  OnlyDeclinedDrops
  SilentBeforeDrop
  CloseReported
  UnselectedEnds
CHECK_DEADLOCK FALSE
