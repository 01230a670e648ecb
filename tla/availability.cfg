SPECIFICATION AvailabilitySpec
CONSTANTS
  i1 = i1  i2 = i2  i3 = i3  c1 = c1
  Unset = Unset
  Incidents <- ThreeIncidents
  Components <- OneComponent
  Horizon = 4
  Year = 2  MaxRange = 3
  PresetLengths = {1, 3}
  MaxWrites = 4
SYMMETRY Alike
INVARIANTS AnswersTellHistory ResolvedHideNothing
CONSTRAINT Unanswered
\* One request is followed, until it is answered.
CHECK_DEADLOCK FALSE
