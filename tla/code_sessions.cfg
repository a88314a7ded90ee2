CONSTANTS
    Launcher = {l1, l2}
    Poller = {p1, p2}
    Script <- Feed
    Prepaid = 2
    MaxRequests = 2
    MaxOverlaps = 1
    MaxFaults = 1
    Faults = {"fail", "crash", "kill", "timeout", "orphan", "lapse", "overlap",
              "unsettled", "reconcile", "delete"}
SPECIFICATION SessionsSpec
SYMMETRY WorkerSymmetry
INVARIANTS
    SessionsSound
    OneSessionPerRequest
    SessionsAreWatched
CHECK_DEADLOCK FALSE
