SPECIFICATION FairSpec
CONSTANTS
  d1 = d1  d2 = d2  r1 = r1
  None = None
  Windows <- OneWindow
  Requests <- OneRequest
  MaxFaults = 2
  MaxTime = 2
  Budget = 3
INVARIANTS UpkeepSettles HistoryTellsVisibility
PROPERTIES PassedWindowsComplete
