SPECIFICATION Spec
CONSTANTS
  Scenarios <- MCScenarios
  MaxAge = 3
INVARIANTS
  ListWhole
  NoGroupTwice
  
  
  OneServer
  TtlRestored
PROPERTIES
  
  RestartRemembers
  
CHECK_DEADLOCK FALSE
