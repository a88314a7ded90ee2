SPECIFICATION FairSpec
CONSTANTS
    Sender = {s1, s2}
    Unloader = Unloader
    Worker = Worker
    Conv = {a, b}
    NoMsg = NoMsg
    Unload = Unload
    MaxChats = 2
    MaxUnloads = 1
    Faults = {"escape", "empty"}
INVARIANTS
    WorkerSound
    HandledAsSender
PROPERTIES
    ConversationFreed
    UnloadDone
CHECK_DEADLOCK FALSE
