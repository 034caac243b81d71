SPECIFICATION Spec
CONSTANTS
  p1 = p1
  l1 = l1
  w1 = w1
  NoOne = NoOne
  MaxScans = 2
  MaxProgress = 2
  History = 1
  Preflights <- MCPreflights
  Lives <- MCLives
  Watchers <- MCWatchers
INVARIANTS
  LockFollowsHolder
  ProgressInOrder
  AcceptedStaysRetrievable
PROPERTIES
  FinishedIsFinal
  InterfaceIsExclusive
