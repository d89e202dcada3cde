CONSTANTS
    Aircraft = {hornet, other}
    None = none
    Hornet = hornet
    Cockpits <- MCCockpits
    Stages <- MCStages
    DefaultStage = "before-taxi"
    DependsOn <- MCDependsOn
    ItemsOf <- MCItemsOf
    Kind <- MCKind
    Latching <- HornetLatching
    Dwell <- MCDwell
    Hold = 2
    MaxTime = 3
SPECIFICATION Spec
INVARIANTS PhaseFollows ProgressIsOfThisCockpit ReadyIsVerified
PROPERTIES PhaseHeld
CHECK_DEADLOCK FALSE
