CONSTANTS
    auto = auto
    other = other
    red = red
    AutoTarget = auto
    Targets = {auto, other}
    Offsets = {0, 25}
    Lights = {"rainbow", red}
    None = None
    Users <- EachPart
    MaxUpsets = 1
    MaxStarts = 1
SPECIFICATION FairSpec
INVARIANTS
    OneByteLate
    AnswerIsTrue
    FailureIsUndone
PROPERTIES
    DriftIsRepaired
