\* Three calls, one of them binary; two token changes, so that two sockets drain;
\* one socket ends.
SPECIFICATION Spec
CONSTANTS
  Rpc = {r1, r2, blob}
  Binary = {blob}
  MaxTokens = 3
  MaxSockets = 4
  MaxEnds = 1
  r1 = r1
  r2 = r2
  blob = blob
INVARIANTS
    ClientSound
    RightAccount
    DrainHasWork
PROPERTIES
    CallsSettle
CHECK_DEADLOCK FALSE
