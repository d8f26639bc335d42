CONSTANTS
    NoConfig = NoConfig
    Temps <- CoolOnly
    Configs <- LateOnly
    Target <- CurveTarget
    Requested = {"manual", "boost", "load", "exit"}
    FailureTakesEffect = TRUE
SPECIFICATION WatchdogSpec
PROPERTIES
    StaleLeadsToBoost
