SPECIFICATION Spec
CONSTANTS
    s1 = s1
    s2 = s2
    k1 = k1
    k2 = k2
    e1 = e1
    e2 = e2
    NoKey = NoKey
    NoServer = NoServer
    Servers <- TwoServers
    Keys <- TwoKeys
    Execs <- TwoExecs
    MaxTime = 1
INVARIANT ReachableAlways
