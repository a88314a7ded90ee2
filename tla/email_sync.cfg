SPECIFICATION FairEmailSpec
CONSTANTS
    old = old
    new = new
    inbox = inbox
    Account = {old, new}
    Legacy = {old}
    Mailbox = {inbox}
    Worlds <- MCWorlds
    MaxSyncs = 2
    MaxPolls = 1
    MaxFaults = 1
    Faults = {"crash", "kill", "fail", "lapse", "disconnect", "login"}
INVARIANTS
    EmailSound
    KeyConsumed
    IndexingNotForgotten
    IndexStopsOnDisconnect
PROPERTIES
    FirstSyncKeepsKey
    SyncsEnd
CHECK_DEADLOCK FALSE
