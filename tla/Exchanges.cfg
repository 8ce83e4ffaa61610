SPECIFICATION Spec
CONSTANTS
  MaxMid = 2
  PhoneTasks = 1
  GateTasks = 1
  MaxFlips = 0
  MaxFaults = 2
  Tries = 1
  CheckTries = 1
INVARIANT RetransmissionSuffices
PROPERTY ImplementsExchange
CHECK_DEADLOCK FALSE
