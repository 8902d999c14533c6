SPECIFICATION Spec
CONSTANTS
  Hosts = {h1, h2}
  Uploads = {u1, u2, u3}
  NoBucket = NoBucket
  Burst = 2
  Every = 2
  Window = 5
INVARIANTS
  WithinBudget
  BurstKept
