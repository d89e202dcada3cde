SPECIFICATION Spec
CONSTANTS
    tool = tool
    Tools = {tool}
    PendingLimit = 2
    MaxSummaries = 3
    MaxSessions = 2
INVARIANTS
    SummariesKept
    StoredInOrder
PROPERTIES
    SummariesArrive
    FlightsEnd
CHECK_DEADLOCK FALSE
