SPECIFICATION MarzulloSpec
CONSTANTS
    TimePoint = {0, 1, 2, 3, 4}
    MaxIntervals = 3
INVARIANTS
    TightestMajority
CHECK_DEADLOCK FALSE
