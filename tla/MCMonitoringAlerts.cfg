CONSTANTS
    a1 = a1
    timer = timer
    r1 = r1
    NoApp = NoApp
    Apps = {a1}
    MaxFaults = 2
    Timer = timer
    Requests = {}
    Kind <- OnePm2
SPECIFICATION Spec
PROPERTY EveryOutageAlerts
