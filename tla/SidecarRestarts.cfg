SPECIFICATION Spec
CONSTANTS
    Tries = 2
    MaxClicks = 1
    MaxFaults = 0
PROPERTIES
    AttemptsAreCounted
CHECK_DEADLOCK FALSE
