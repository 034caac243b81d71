SPECIFICATION FairSpec
CONSTANTS
  engine = engine
  cluster = cluster
  g1 = g1
  g2 = g2
  Modules <- MCModules
  Groups <- MCGroups
  Wanted <- MCWanted
  Asked <- MCAsked
  Holds <- MCHolds
  Locked <- MCLocked
  Tracks <- MCTracks
  Declines <- MCDeclines
  Backlog = 3
CHECK_DEADLOCK FALSE
INVARIANTS
  ListedIsItsOwn
  ListingIsWhole
  ReadIsTrue
PROPERTIES
  CommandEnds
