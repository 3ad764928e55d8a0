SPECIFICATION Spec
CONSTANTS
  Scenarios <- ReadmeScenarios
  MaxAge = 3
INVARIANTS
  DefaultApplies
CHECK_DEADLOCK FALSE
