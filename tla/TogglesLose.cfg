SPECIFICATION Spec
CONSTANTS
    Titles = {t1}
    Services = {s1}
    MaxPresses = 2
    MaxFaults = 1
    MaxLoads = 2
CHECK_DEADLOCK FALSE
INVARIANT NothingElseTakenOff
