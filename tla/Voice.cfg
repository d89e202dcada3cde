CONSTANTS
    reply = reply
    warning = warning
    welcome = welcome
    Gateway = Gateway
    None = None
    Calls = {reply, warning, welcome}
    Replies = {reply}
SPECIFICATION Spec
INVARIANT TurnsEndInTime
PROPERTIES AnswersAreWhole CallsReturn
CHECK_DEADLOCK FALSE
