SPECIFICATION Spec
CONSTANTS
  p1 = p1
  l1 = l1
  w1 = w1
  NoOne = NoOne
  MaxScans = 2
  MaxProgress = 1
  History = 1
  Preflights <- MCPreflights
  Lives <- MCLives
  Watchers <- MCWatchers
INVARIANT
  StreamIsComplete
