SPECIFICATION Spec
CONSTANTS
  Jobs = {j1, j2, j3}
  Instants = {200, 250, 255, 300, 455, 500}
  StaleTtl = 100
  OldTtl = 200
  Limit = 1
  Oversample = 2
CHECK_DEADLOCK FALSE
PROPERTIES
  ReapsOnTime
  ShelfFair
