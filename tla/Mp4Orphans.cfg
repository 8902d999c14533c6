SPECIFICATION Spec
CONSTANTS
  Jobs = {j1}
  NoJob = NoJob
  Requests = {q1}
  Boot = Boot
  Workers = {w1}
  Renditions = {low, high}
  Kinds = {"mp4"}
  Uploads = {"video"}
  Capacity = 1
  MaxDepth = 1
  Strays = {}
  Deadlines = FALSE
  Oldest = 4
  MaxFaults = 1
  MaxRestarts = 0
SYMMETRY Symmetry
INVARIANTS
  NoOrphans
