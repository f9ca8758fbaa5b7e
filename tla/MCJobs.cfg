SPECIFICATION Spec
CONSTANTS
    w1 = w1
    p1 = p1
    NoOwner = NoOwner
    Workspaces <- OneWorkspace
    Playbooks <- OnePlaybook
    Kinds <- SomeKinds
    MaxJobs = 2
INVARIANTS
    ResultIsTrue
    KeyFilesGo
    WorkspaceHasDir
PROPERTIES
    LedgerSpec
    EveryJobEnds
