SPECIFICATION FairSpec
CONSTANTS
  m1 = m1  m2 = m2  a = a  b = b  sub = sub
  c1 = c1  c2 = c2  c3 = c3  c4 = c4
  p1 = p1  p2 = p2  p3 = p3  p4 = p4  i1 = i1
  None = None
  Monitors <- TwoMonitors
  Components <- TwoComponents
  SubComponents <- NoSet
  TargetOf <- OwnTargets
  ParentOf <- NoParent
  Checks <- FourChecks
  Past <- TwoFailuresEach
  Manual <- NoSet
  SSLMonitors <- SecondMonitor
  Threshold = 3
  Overlap = FALSE
  Faults <- NoSet
  AdminOps <- NoSet
  AdminBudget = 0
  StopBudget = 0
INVARIANTS SettledAgreement ConsecutiveFailures ActiveOutageVisible
PROPERTIES ImplementsLifecycle
\* Every check that was started ends, and then nothing is left to do.
CHECK_DEADLOCK FALSE
