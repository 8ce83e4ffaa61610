SPECIFICATION LiveSpec
CONSTANTS
  Thread = {w1, w2, w3}
  Sa = {s1, s2, s3}
  Main = main
  None = None
INVARIANTS Exclusive WaitersSafe NoLostWakeup
PROPERTY FlushEnds
CHECK_DEADLOCK FALSE
