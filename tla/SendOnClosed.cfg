SPECIFICATION Spec
CONSTANTS
  Streams = {s1}
  NoStream = NoStream
  Buffer = 1
  MaxFaults = 0
CHECK_DEADLOCK FALSE
INVARIANTS
  DeliversOrDrops
