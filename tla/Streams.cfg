SPECIFICATION FairSpecAll
CONSTANTS
  Streams = {s1, s2}
  NoStream = NoStream
  Buffer = 2
  MaxFaults = 2
CHECK_DEADLOCK FALSE
INVARIANTS
  TypeOK
  EndsWithTheTruth
  OneListener
  NoEndMissed
  CleanExit
PROPERTIES
  FinishedStreamsEnd
  SignalEndsProcess
