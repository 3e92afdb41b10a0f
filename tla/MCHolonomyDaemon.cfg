SPECIFICATION DaemonSpec
CONSTANTS
    Node = {1, 2, 3}
    Self = 2
    Offsets = {0, 20, 70}
    Tolerance = 5
    MaxIterations = 30
    MaxLoop = 4
INVARIANT
    SolverEdgesMeanWhatTheySay
CHECK_DEADLOCK FALSE
