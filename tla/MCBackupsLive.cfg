SPECIFICATION Spec
CONSTANTS
    s1 = s1
    u1 = u1
    NoConfig = NoConfig
    Worker = Worker
    Kinds <- AllKinds
    Configs <- OneConfig
    Users <- OneUser
    Limits <- OneLimit
    Targets = 1
    CleanupTake = 1
    MaxBackups = 1
    MaxCrashes = 1
INVARIANTS
    SuccessHasArchive
PROPERTIES
    EveryBackupEnds
    LocalFilesExpire
