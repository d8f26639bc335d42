CONSTANTS
    NoConfig = NoConfig
    Temps <- CoolAndHot
    Configs <- LateOnly
    Target <- CurveTarget
    Requested = {"load", "mode"}
    FailureTakesEffect = FALSE
SPECIFICATION Spec
PROPERTIES
    SafetyBoostIsNotUsers
