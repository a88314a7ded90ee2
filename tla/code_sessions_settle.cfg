CONSTANTS
    Launcher = {l1}
    Poller = {p1, p2}
    Script <- LongFeed
    Prepaid = 3
    MaxRequests = 1
    MaxOverlaps = 2
    MaxFaults = 1
    Faults = {"fail", "crash", "kill", "timeout", "orphan", "lapse", "overlap",
              "unsettled", "reconcile", "delete"}
SPECIFICATION SessionsFairSpec
INVARIANTS
    RowMatchesFeed
PROPERTIES
    EventuallyCharged
CHECK_DEADLOCK FALSE
