SPECIFICATION Spec
CONSTANTS
  comfort = comfort
  lights = lights
  airbag = airbag
  Targets <- MCTargets
  Critical <- MCCritical
  Values <- MCValues
  Factory <- MCFactory
  MaxLength = 2
  MaxCommands = 3
  MaxTime = 1
CHECK_DEADLOCK FALSE
INVARIANTS
  TypeOK
  WriteIsBacked
  WayBackIsTrue
  CriticalUntouched
  VerifiedMeansTaken
  RefusedMeansUntouched
  WritesStayUndoable
