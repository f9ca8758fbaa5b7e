SPECIFICATION Spec
CONSTANTS
    s1 = s1
    u1 = u1
    NoConfig = NoConfig
    Worker = Worker
    Kinds <- FullOnly
    Configs <- OneConfig
    Users <- OneUser
    Limits <- OneLimit
    Targets = 1
    CleanupTake = 1
    MaxBackups = 1
    MaxCrashes = 0
INVARIANTS
    SuccessIsRestorable
