SPECIFICATION Spec
CONSTANTS
  s1 = s1  s2 = s2  a1 = a1  r1 = r1
  None = None
  Subs <- TwoSubs
  Addresses <- OneAddress
  Requests <- OneRequest
  TTL = 1
  Retention = 1
  MaxTime = 3
  MaxTokens = 4
  Prunes = TRUE
INVARIANTS DoubleOptIn 
PROPERTIES DeletedStaysDeleted  ImplementsOptIn
\* The records may all be gone and the tokens be used up.
CHECK_DEADLOCK FALSE
