SPECIFICATION FairSpec
CONSTANTS
    Conv = {c1}
    NoConv = NoConv
    Rpc = {p1, p2}
    MoodWriter = {m1}
    Task = {1, 2}
    Pool = 2
    MaxRetries = 3
    MaxFaults = 3
    Faults = {"docker", "slow", "crash", "broker"}
INVARIANTS
    SwitchSound
    OneDaemon
    AgreesAtRest
PROPERTIES
    SwitchesEnd
CHECK_DEADLOCK FALSE
