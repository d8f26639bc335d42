CONSTANTS
    NoConfig = NoConfig
    Temps <- HotOnly
    Configs <- LateOnly
    Target <- CurveTarget
    Requested = {"manual", "boost", "mode"}
    FailureTakesEffect = FALSE
SPECIFICATION FairSpec
PROPERTIES
    AutoKeepsRunning
