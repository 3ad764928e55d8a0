SPECIFICATION SupervisorSpec
CONSTANTS
  MaxRestarts = 1
  Window = 3
  Outcomes <- OkOutcome
  MaxSpawns = 1
  MaxStops = 1
  MaxWorkers = 2
  MaxNow = 1
INVARIANTS StopHolds
CHECK_DEADLOCK FALSE
