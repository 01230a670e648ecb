SPECIFICATION LifeFairSpec
CONSTANTS
  m1 = m1  m2 = m2  k1 = k1  k2 = k2  c1 = c1  c2 = c2  c3 = c3
  Monitors <- TwoMonitors
  Cycles <- TwoCycles
  Checks <- ThreeChecks
  Interval <- Intervals
  Period = 3
  MaxFetch = 1
  MaxCheck = 1
  MaxTime = 8
  PromptLoop = TRUE
  LostWrites = FALSE
  Timeouts = {0, 3}
  None = None
INVARIANTS WaitGroupExact OneCycleAtATime  
PROPERTIES NoAddDuringWait ShutdownCompletes
\* The process ends, or the clock reaches its bound.
CHECK_DEADLOCK FALSE
