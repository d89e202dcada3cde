SPECIFICATION Spec
CONSTANTS
    hornet = hornet
    viper = viper
    NoAircraft = NoAircraft
    Controls = {1, 2}
    Switches = {1}
    Aircraft = {hornet, viper}
    Definitions <- MCDefinitions
    Values = {0, 1}
    MaxWrites = 4
    MaxTransitions = 2
    CatalogChunk = 1
    SnapshotChunk = 1
    DeltaSize = 1
    QueueLimit = 1
    WireSize = 1
    MaxSessions = 2
    MaxRefreshes = 1
INVARIANTS
    LatestSurvives
PROPERTIES
    CockpitIsMirrored
    TransitionsSurvive
CHECK_DEADLOCK FALSE
