SPECIFICATION FairSpec
CONSTANTS
  Jobs = {j1, j2}
  NoJob = NoJob
  Requests = {q1}
  Boot = Boot
  Workers = {w1, w2}
  Renditions = {low}
  Kinds = {"mp4"}
  Uploads = {"video"}
  Capacity = 1
  MaxDepth = 1
  Strays = {}
  Deadlines = TRUE
  Oldest = 1
  MaxFaults = 1
  MaxRestarts = 2
INVARIANTS
  SingleOwner
  CopiesAreCurrent
PROPERTIES
  RealVideoKept
  ImplementsLifecycle
  EveryAcceptedJobEnds
