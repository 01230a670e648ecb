SPECIFICATION FairSpec
CONSTANTS
  Pages <- AllPages
  MaxItems = 5
  InitialItems <- FewItems
  Limits = {1, 2}
  DefaultLimit = 1
  MaxSubmissions = 2
  MaxTurns = 1
INVARIANTS OwnWritesListed SavingTells
PROPERTIES ButtonsComeBack
CHECK_DEADLOCK FALSE
