SPECIFICATION FairSpec
CONSTANTS
  c1 = c1  c2 = c2
  Clients <- TwoClients
  SendCap = 1
  BroadcastCap = 1
  MaxEvents = 2
INVARIANTS StreamComplete
PROPERTIES NoChannelPanic CleanedUp
\* Clients may all have gone and the events be used up.
CHECK_DEADLOCK FALSE
