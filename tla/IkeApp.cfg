SPECIFICATION LiveSpec
CONSTANTS
  MaxPosts = 1
  MaxIntents = 1
  MaxRetryMsg = 1
INVARIANT StateSettles
PROPERTY ConnectEnds
