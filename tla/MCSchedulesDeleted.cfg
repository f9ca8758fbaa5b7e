SPECIFICATION Spec
CONSTANTS
    s1 = s1
    t1 = t1
    k1 = k1
    k2 = k2
    bad = bad
    r1 = r1
    r2 = r2
    NoSchedule = NoSchedule
    NoCron = NoCron
    AppSchedules <- OneAppSchedule
    Strategies <- OneStrategy
    Crons <- MCCrons
    BadCrons <- OneBadCron
    Callers <- TwoCallers
INVARIANT DeletedIsUnscheduled
