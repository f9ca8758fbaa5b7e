SPECIFICATION Spec
CONSTANTS
    s1 = s1
    u1 = u1
    NoConfig = NoConfig
    Worker = Worker
    Kinds <- StrategyOnly
    Configs <- NoConfigs
    Users <- OneUser
    Limits <- ZeroOrOne
    Targets = 2
    CleanupTake = 1
    MaxBackups = 3
    MaxCrashes = 0
PROPERTIES
    RetentionKeepsNewest
    RetentionCatchesUp
