SPECIFICATION SubSpec
CONSTANTS
    c1 = c1
    c2 = c2
    d1 = d1
    p1 = p1
    All = All
    Clients <- TwoClients
    Containers <- OneContainer
    Processes <- AllAndOne
    MaxSubs = 4
INVARIANTS
    SubTypeOK
    SubscriberIsFed
    StreamHasReader
    SilentAfterUnsubscribe
SYMMETRY ClientSymmetry
CHECK_DEADLOCK FALSE
