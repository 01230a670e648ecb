SPECIFICATION FairSpec
CONSTANTS
  t1 = t1  t2 = t2  k1 = k1
  None = None
  Tabs <- TwoTabs
  Roles <- BothRoles
  Codes <- OneCode
  MaxSecrets = 2
  Budget = 3  MaxWaiting = 2
INVARIANTS AdminPagesNeedBothFactors
PROPERTIES SignInArrives SettlesUnlessRestricted
\* The user may stop.
CHECK_DEADLOCK FALSE
