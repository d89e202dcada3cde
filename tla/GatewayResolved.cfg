SPECIFICATION Spec
CONSTANTS
    warning = warning
    advisory = advisory
    tool = tool
    Rules = {warning, advisory}
    Warnings = {warning}
    Tools = {tool}
    MaxRaised = 1
    MaxReplies = 2
INVARIANT
    ResolvedAreSilent
CHECK_DEADLOCK FALSE
