SPECIFICATION Spec
CONSTANTS
  Sources <- EdgeSources
  JobKinds = {"hls"}
  ReportTimes = {9}
  PipeSize = 1
  PageSize = 5
  BatchSize = 2
  MaxFaults = 0
  MaxRestarts = 0
CHECK_DEADLOCK FALSE
INVARIANTS
  SameRounding
