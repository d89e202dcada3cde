CONSTANTS
    UI = UI
    None = None
    Pool = {w1}
    Monitors = {m1, m2}
    RestartLimit = 2
    MaxRequests = 2
SPECIFICATION SupervisorSpec
INVARIANTS ClosedLeavesNothing
CHECK_DEADLOCK FALSE
