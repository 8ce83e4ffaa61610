SPECIFICATION LiveSpec
CONSTANTS
  MaxMid = 3
  PhoneTasks = 1
  GateTasks = 0
  MaxFlips = 1
  MaxFaults = 1
  Tries = 1
  CheckTries = 1
INVARIANTS NothingStuck ResponsesExpected
PROPERTIES ExchangeEnds ImplementsExchange
CHECK_DEADLOCK FALSE
