CONSTANTS
    NoConfig = NoConfig
    Temps <- CoolOnly
    Configs <- LateOnly
    Target <- CurveTarget
    Requested = {"exit"}
    FailureTakesEffect = TRUE
SPECIFICATION Spec
INVARIANTS
    NoStaleMark
