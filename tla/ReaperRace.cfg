SPECIFICATION Spec
CONSTANTS
  Jobs = {j1}
  NoJob = NoJob
  Requests = {q1}
  Boot = Boot
  Workers = {w1}
  Renditions = {low, high}
  Kinds = {"mp4", "hls"}
  Uploads = {"video"}
  Capacity = 1
  MaxDepth = 1
  Strays = {"late"}
  Deadlines = FALSE
  Oldest = 4
  MaxFaults = 0
  MaxRestarts = 0
SYMMETRY Symmetry
PROPERTIES
  ActiveRecordKept
