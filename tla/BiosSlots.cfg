SPECIFICATION BiosSpec
CONSTANTS
    hornet = hornet
    viper = viper
    NoAircraft = NoAircraft
    Controls = {1, 2}
    Aircraft = {hornet, viper}
    Definitions <- MCDefinitions
    Values = {0, 1}
    MaxWrites = 3
PROPERTY
    SlotsEndForCause
CHECK_DEADLOCK FALSE
