SPECIFICATION FairSupervisorSpec
CONSTANTS
  MaxRestarts = 2
  Window = 4
  Outcomes <- AnyOutcome
  MaxSpawns = 1
  MaxStops = 2
  MaxWorkers = 5
  MaxNow = 6
INVARIANTS RestartBudget AliveIsTracked
PROPERTIES ExhaustedIsFinal FailedIsExplained
CHECK_DEADLOCK FALSE
