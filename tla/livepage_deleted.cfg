SPECIFICATION Spec
CONSTANTS
  None = None
  Hooks <- SummaryHooks
  Changes <- SomeChanges
  Presets <- FewPresets  MaxQuarter = 1
  MaxWrites = 1  Budget = 1
INVARIANTS DeletionIsShown
\* The visitor may stop.
CHECK_DEADLOCK FALSE
