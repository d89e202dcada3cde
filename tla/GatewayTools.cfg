SPECIFICATION Spec
CONSTANTS
    warning = warning
    advisory = advisory
    tool = tool
    Rules = {warning, advisory}
    Warnings = {warning}
    Tools = {tool}
    MaxRaised = 1
    MaxReplies = 1
PROPERTIES
    GathersReturn
CHECK_DEADLOCK FALSE
