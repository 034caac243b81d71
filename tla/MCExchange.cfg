SPECIFICATION FairSpec
CONSTANTS
  session = session
  vin = vin
  mileage = mileage
  faults = faults
  Asks <- MCAsks
  Services <- MCServices
  Service <- MCService
  Echoed <- MCEchoed
  Lists <- MCLists
  Retries = 1
  MaxRequests = 3
  MaxOwed = 3
  MaxQueue = 2
CHECK_DEADLOCK FALSE
INVARIANTS
  AnswerIsSinceQuiet
  InStep
PROPERTY
  EveryRequestEnds
