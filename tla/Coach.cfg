CONSTANTS
    Exercises = {"LEFT_ECHELON", "CASE1_PATTERN", "CARRIER_APPROACH"}
    Pictures <- MCPictures
    Nothing = Nothing
    GoodHold = 2
    OutsideHold = 1
    ApproachHold = 1
    FormationCooldown = 2
    ApproachCooldown = 1
    StaleAfter = 1
    KeptFeedback = 2
    MaxTime = 3
    MaxStarts = 2
SPECIFICATION CoachSpec
INVARIANTS FeedbackHeldAndSpaced DebriefFacts
