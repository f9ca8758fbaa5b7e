SPECIFICATION CronSpec
CONSTANTS
    u1 = u1
    u2 = u2
    i1 = i1
    i2 = i2
    s1 = s1
    e1 = e1
    e2 = e2
    bad = bad
    c1 = c1
    c2 = c2
    Keep = Keep
    None = None
    Many = Many
    Local = Local
    Requesters <- TwoRequesters
    Ids <- OneId
    Servers <- OneServer
    Exprs <- ThreeExprs
    BadExprs <- OneBadExpr
    Cmds <- TwoCmds
    Creates <- SomeCreates
    Edits <- SomeEdits
    MaxRequests = 4
INVARIANT OldJobIsRemoved
