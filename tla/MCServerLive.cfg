SPECIFICATION FairSpec
CONSTANTS
  p1 = p1
  l1 = l1
  w1 = w1
  NoOne = NoOne
  MaxScans = 1
  MaxProgress = 1
  History = 0
  Preflights <- MCPreflights
  Lives <- MCLives
  Watchers <- MCWatchers
PROPERTIES
  EveryScanConcludes
  InterfaceComesFree
  EveryStreamEnds
