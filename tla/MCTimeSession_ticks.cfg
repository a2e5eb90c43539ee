SPECIFICATION TimeSpec
CONSTANTS
  Period = 8
  Rate = 2
  Slew = 1
  Drifts <- DriftsDef
  Offsets <- OffsetsDef
  StepMs = 2
  RttK = 3
  RttHist = 3
  RelearnAfter = 2
  MaxSegs = 4
  Bells <- BellsDef
  RingdownS = 3
  DayS = 4
  SeqMax = 2
  ClockMs = 2
  Scenes <- LateScene
  Start = 6
  Lag = 1
  RingWindow = 1
  RingQueries = 1
  Interval = 4
  Retry = 2
INVARIANT OneScale
CHECK_DEADLOCK FALSE
