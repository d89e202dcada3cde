SPECIFICATION Spec
CONSTANTS
    QueueSize = 1
    Reserve = 16
    WireSize = 1
    MaxUtterance = 1
    MaxPresses = 1
    MaxChunks = 1
    MaxResets = 1
    MaxSessions = 1
PROPERTY
    ReleaseIsAuthoritative
CHECK_DEADLOCK FALSE
