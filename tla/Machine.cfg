SPECIFICATION MachineSpec
CONSTANTS
    NumUnits = 3
    PluginOf <- TwoAndOne
    MaxItems <- TwoInTheFirst
    Workers = {w1, w2}
    Buffer = 1
    Tries = 1
    MaxClicks = 2
    MaxFaults = 1
    None = None
    Fetchers = {f1}
    There = 2
    Batch = 2
    ByHand = 1
    MaxMishaps = 1
INVARIANTS
    WholeAndInOrder
    UpdateStandsAlone
    NamedFilesAreWhole
PROPERTIES
    ReadingEnds
    EveryPosterComes
    ServerIsPutBackUnlessAsked
CHECK_DEADLOCK FALSE
