SPECIFICATION Spec
CONSTANTS
  Cars <- MCCars
  Failures <- MCFailures
  Engine <- MCEngine
  Profiles <- MCProfiles
  Discovers = TRUE
CHECK_DEADLOCK FALSE
INVARIANTS
  TypeOK
  NothingInvented
  
  FindingsAreDeserved
  LossIsLocal
