CONSTANTS
    NoConfig = NoConfig
    Temps <- CoolAndHot
    Configs <- LateOnly
    Target <- CurveTarget
    Requested = {"manual", "boost"}
    FailureTakesEffect = FALSE
SPECIFICATION Spec
INVARIANTS
    BoostFlagIsTrue
