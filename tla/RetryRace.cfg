SPECIFICATION Spec
CONSTANTS
  Jobs = {j1}
  NoJob = NoJob
  Requests = {q1, q2}
  Boot = Boot
  Workers = {w1}
  Renditions = {low, high}
  Kinds = {"mp4", "hls"}
  Uploads = {"video"}
  Capacity = 1
  MaxDepth = 1
  Strays = {"overlap"}
  Deadlines = FALSE
  Oldest = 1
  MaxFaults = 0
  MaxRestarts = 0
SYMMETRY Symmetry
PROPERTIES
  SafeToRetry
