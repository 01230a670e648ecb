SPECIFICATION Spec
CONSTANTS
  m1 = m1  m2 = m2  a = a  b = b  sub = sub
  c1 = c1  c2 = c2  c3 = c3  c4 = c4
  p1 = p1  p2 = p2  p3 = p3  p4 = p4  i1 = i1
  None = None
  Monitors <- TwoMonitors
  Components <- TwoComponents
  SubComponents <- OneSub
  TargetOf <- SubTarget
  ParentOf <- SubOfA
  Checks <- TwoChecks
  Past <- TwoFailuresEach
  Manual <- OneManual
  SSLMonitors <- OneMonitor
  Threshold = 3
  Overlap = TRUE
  Faults <- BothFaults
  AdminOps <- EveryOp
  AdminBudget = 1
  StopBudget = 1
INVARIANTS OutageBacked
PROPERTIES OwnRecovery WarningEndKeepsMajor
\* Every check that was started ends, and then nothing is left to do.
CHECK_DEADLOCK FALSE
