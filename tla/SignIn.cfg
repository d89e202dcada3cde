CONSTANTS
    MaxTokens = 3
    MaxCalls = 4
    RowLocks = TRUE
SPECIFICATION Spec
INVARIANTS TokenAcceptedOnce StoredIsUsable SignedOutStays
CHECK_DEADLOCK FALSE
