CONSTANTS
    UI = UI
    None = None
    Pool = {w1}
    Monitors = {m1, m2}
    RestartLimit = 1
    MaxRequests = 2
SPECIFICATION SupervisorSpec
INVARIANTS RestartsBounded NoneForgotten
PROPERTIES CallsEnd
CHECK_DEADLOCK FALSE
