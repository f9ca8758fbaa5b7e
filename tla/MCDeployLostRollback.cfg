SPECIFICATION Spec
CONSTANTS
    a1 = a1
    u1 = u1
    u2 = u2
    c1 = c1
    NoApp = NoApp
    NoCommit = NoCommit
    Apps <- OneApp
    DefaultApps <- OneApp
    Users <- TwoUsers
    Commits <- MCCommits
    RecordStatuses <- AnyRecord
    MaxVersions = 3
PROPERTY RollbackWhenEverSucceeded
