SPECIFICATION FairSpec
CONSTANTS
  Sources <- EdgeSources
  JobKinds = {"mp4", "hls"}
  ReportTimes = {5, 9}
  PipeSize = 1
  PageSize = 5
  BatchSize = 2
  MaxFaults = 2
  MaxRestarts = 1
CHECK_DEADLOCK FALSE
INVARIANTS
  TypeOK
  CompletedAsPlanned
  OnlyRefusedLeft
  OneBandLost
  ShapesKept
  SizesTold
  FailsForAReason
PROPERTIES
  NoDeadLinks
  WorkerReturns
