SPECIFICATION Spec
CONSTANTS
    warning = warning
    advisory = advisory
    tool = tool
    Rules = {warning, advisory}
    Warnings = {warning}
    Tools = {}
    MaxRaised = 1
    MaxReplies = 2
INVARIANTS
    PttSilences
    ResolvedAreSilent
    SlotsAreSeparate
    ResponsesAreHeld
PROPERTIES
    TurnsAreKept
CHECK_DEADLOCK FALSE
