CONSTANTS
    NoConfig = NoConfig
    Temps <- HotOnly
    Configs <- LateOnly
    Target <- CurveTarget
    Requested = {"boost", "mode"}
    FailureTakesEffect = FALSE
SPECIFICATION AutoSpec
PROPERTIES
    AutoKeepsRunning
