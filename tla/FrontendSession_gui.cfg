SPECIFICATION FairSpec
CONSTANTS
    None = None
    MaxInputs = 3
INVARIANTS FullOnExit
PROPERTIES ComesBack
CHECK_DEADLOCK FALSE
