SPECIFICATION Spec
CONSTANTS
    Sources = {mako, kan}
    Installed = {mako}
    MaxFaults = 2
    MaxByHand = 1
    None = None
PROPERTIES
    AsksOutliveFailures
    AsksEnd
    StaleRowsClose
CHECK_DEADLOCK FALSE
