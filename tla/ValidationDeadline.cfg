SPECIFICATION Spec
CONSTANTS
  Jobs = {j1}
  NoJob = NoJob
  Requests = {q1}
  Boot = Boot
  Workers = {w1}
  Renditions = {low}
  Kinds = {"hls"}
  Uploads = {"video"}
  Capacity = 1
  MaxDepth = 1
  Strays = {}
  Deadlines = TRUE
  Oldest = 1
  MaxFaults = 0
  MaxRestarts = 0
SYMMETRY Symmetry
PROPERTIES
  ValidationSettles
