SPECIFICATION LiveSpec
CONSTANTS
  WindowSize = 4
  MaxSeqno = 7
  MaxSa = 1
  In = in
  Out = out
  Control = {c1, c2}
INVARIANTS TypeOK AcceptedOnce WindowExact LockedSafe NoLostWakeup
PROPERTY RemovalEnds
CHECK_DEADLOCK FALSE
