CONSTANTS
    NoConfig = NoConfig
    Temps <- CoolOnly
    Configs <- LateOnly
    Target <- CurveTarget
    Requested = {"manual", "exit", "mode"}
    FailureTakesEffect = TRUE
SPECIFICATION WatchdogSpec
PROPERTIES
    StaleLeadsToBoost
