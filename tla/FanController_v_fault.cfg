CONSTANTS
    NoConfig = NoConfig
    Temps <- CoolAndHot
    Configs <- LateOnly
    Target <- CurveTarget
    Requested = {"manual"}
    FailureTakesEffect = FALSE
SPECIFICATION Spec
PROPERTIES
    FaultNeedsRecovery
