SPECIFICATION Spec
CONSTANTS
    Size = 5
    MaxOpened = 5
    MaxReported = 3
    Times <- MCTimes
INVARIANT PoolConsistent
INVARIANT ReportsIntact
 
INVARIANT TimersSorted
INVARIANT ConnectingWatched
CHECK_DEADLOCK FALSE
