--------------------------- MODULE MCCodeSessions ---------------------------
EXTENDS CodeSessions, TLC

Feed == <<"paused", "end">>
LongFeed == <<"paused", "resumed", "end">>
WorkerSymmetry == Permutations(Launcher) \cup Permutations(Poller)
=============================================================================
