CONSTANTS
    MaxTokens = 4
    MaxCalls = 5
    RowLocks = TRUE
SPECIFICATION Spec
INVARIANT SigningOutRevokes
CHECK_DEADLOCK FALSE
