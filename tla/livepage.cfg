SPECIFICATION FairSpec
CONSTANTS
  None = None
  Hooks <- CoreHooks
  Changes <- CoreChanges
  Presets <- FewPresets  MaxQuarter = 1
  MaxWrites = 1  Budget = 3
INVARIANTS  SelectionShown LoadingIsAwaited
PROPERTIES Settles
\* The visitor may stop.
CHECK_DEADLOCK FALSE
