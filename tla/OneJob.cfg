SPECIFICATION Spec
CONSTANTS
  Jobs = {j1}
  NoJob = NoJob
  Requests = {q1, q2}
  Boot = Boot
  Workers = {w1, w2}
  Renditions = {low, high}
  Kinds = {"mp4", "hls"}
  Uploads = {"video", "junk", "missized"}
  Capacity = 2
  MaxDepth = 2
  Strays = {}
  Deadlines = TRUE
  Oldest = 4
  MaxFaults = 2
  MaxRestarts = 2
SYMMETRY Symmetry
INVARIANTS
  TypeOK
  Ownership
  RawSurvives
  CompletedIsWhole
  UploadsAndTreesGone
  Agreement
  
PROPERTIES
  ActiveRecordKept
  NoOtherWriter
  TerminalFinal
  SafeToRetry
