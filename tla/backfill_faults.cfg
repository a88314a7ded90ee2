SPECIFICATION MailboxSpec
CONSTANTS
    Run = {r1, r2}
    NoRun = NoRun
    Mailbox = {inbox, archive}
    Message = {a, b, c}
    Contents <- SharedMail
    BatchSize = 2
    Free = Free
    MaxSyncs = 1
    MaxFaults = 2
    Faults = {"redeliver", "crash", "lapse", "fail", "disconnect"}
    inbox = inbox
    archive = archive
    a = a
    b = b
    c = c
    fresh = fresh
SYMMETRY RunSymmetry
INVARIANTS
    MailboxSound
    LockExclusive
    LockHasLiveHolder
    NothingMissed
PROPERTIES
    KeepsPromise
CHECK_DEADLOCK FALSE
