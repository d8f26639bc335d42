SPECIFICATION FairSpec
CONSTANTS
    None = None
    MaxInputs = 2
PROPERTIES ExitEnds
CHECK_DEADLOCK FALSE
