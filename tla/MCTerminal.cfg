CONSTANTS
    t1 = t1
    t2 = t2
    Tabs = {t1}
    MaxSockets = 3
SPECIFICATION Spec
CHECK_DEADLOCK FALSE
INVARIANTS
    StrayNeedsRace
PROPERTIES
    LeftShellsEnd
    ClientLearnsSession
