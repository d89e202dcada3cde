CONSTANTS
    Images <- MCImages
    ReportedPhases = {"UNKNOWN", "TAXI", "TAKEOFF", "CLIMB", "APPROACH"}
    GearDwell = 2
    Health = 1
    MaxTime = 4
SPECIFICATION HornetSpec
INVARIANTS ReportsAgreeWithRules DerivedAreHeld
CHECK_DEADLOCK FALSE
