CONSTANTS
    NoConfig = NoConfig
    Temps <- CoolAndHot
    Configs <- LateOnly
    Target <- CurveTarget
    Requested = {"manual", "boost", "load", "mode", "exit"}
    FailureTakesEffect = TRUE
SPECIFICATION Spec
INVARIANTS
    TypeOK
    NoUnaccountedWrite
    ConfirmedIsTrue
PROPERTIES
    EmergencyKeepsFull
