SPECIFICATION FairSpec
CHECK_DEADLOCK FALSE
CONSTANTS
  GiveUp = 2
  MaxScans = 2
  MaxLives = 2
  MaxDrops = 3
  MaxClaims = 1
  MaxAsked = 1
INVARIANTS
  LiveIsOne
PROPERTIES
  FollowedIsShown
  StartComesBack
