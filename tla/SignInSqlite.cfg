CONSTANTS
    MaxTokens = 3
    MaxCalls = 4
    RowLocks = FALSE
SPECIFICATION Spec
INVARIANT TokenAcceptedOnce
CHECK_DEADLOCK FALSE
