SPECIFICATION HistorySpec
CONSTANTS
    caution = caution
    wings = wings
    hornet = hornet
    other = other
    NoAircraft = NoAircraft
    None = None
    Rules = {caution, wings}
    Aircraft = {hornet, other}
    AircraftNames <- MCAircraftNames
    DebounceOn <- MCDebounceOn
    DebounceOff <- MCDebounceOff
    Cooldown <- MCCooldown
    MinimumMode <- MCMinimumMode
    Proactive <- MCProactive
    MaxRuleActivations = 1
    MaxTime = 3
    MaxRaised = 2
INVARIANTS
    AnnouncementsWithdrawn
    ActivationsConserved
    VerdictSettles
PROPERTIES
    ImplementsEventStream
    TransitionsSustained
    AnnouncementsSpaced
CHECK_DEADLOCK FALSE
