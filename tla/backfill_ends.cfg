SPECIFICATION FairMailboxSpec
CONSTANTS
    Run = {r1, r2}
    NoRun = NoRun
    Mailbox = {inbox, archive}
    Message = {a, b, c, fresh}
    Contents <- TwoBoxes
    BatchSize = 2
    Free = Free
    MaxSyncs = 2
    MaxFaults = 1
    Faults = {"redeliver", "arrive"}
    inbox = inbox
    archive = archive
    a = a
    b = b
    c = c
    fresh = fresh
PROPERTIES
    BackfillEnds
CHECK_DEADLOCK FALSE
