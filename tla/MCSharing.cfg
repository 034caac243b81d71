SPECIFICATION Spec
CHECK_DEADLOCK FALSE
CONSTANTS
  Low = 1
  High = 4
  Functional = 3
  Modules <- MCModules
  Obd = {"engine"}
  Refusing = {"cluster"}
  Request <- MCRequest
  Response <- MCResponse
  Broadcast <- MCBroadcast
  Holds <- MCHolds
  Ranges <- MCRanges
  VinDid = 9000
  MaxErrors = 2
  MaxSilence = 3
  MaxNoise = 1
  MaxFailures = 1
  MaxFaults = 2
  MaxRuns = 2
  Content <- MCContent
  Standard = {9000}
  Named <- MCNamed
  IsoNames = {"vin"}
  Numbers <- MCNumbers
  MaxDocuments = 2
INVARIANTS
  FoundAreTheModules
  ResumeIsSeamless
  GivesUpInTime
  SharedTellsNoCar
