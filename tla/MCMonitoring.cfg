CONSTANTS
    a1 = a1
    timer = timer
    r1 = r1
    NoApp = NoApp
    Apps = {a1}
    MaxFaults = 2
    Timer = timer
    Requests = {r1}
    Kind <- OnePm2
SPECIFICATION Spec
INVARIANTS
    OneOpenIncident
    RestartIsNeeded
PROPERTIES
    IncidentNeedsThree
    RecoveryShown
    AlertFires
    SupervisedSettles
