SPECIFICATION Spec
CONSTANTS
    QueueSize = 1
    Reserve = 3
    WireSize = 1
    MaxUtterance = 2
    MaxPresses = 2
    MaxChunks = 2
    MaxResets = 1
    MaxSessions = 2
INVARIANTS
    FramesInOrder
    UtterancesWhole
PROPERTIES
    MicrophoneCloses
    TurnsEnd
CHECK_DEADLOCK FALSE
