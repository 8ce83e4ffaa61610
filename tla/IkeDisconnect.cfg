SPECIFICATION Spec
CONSTANTS
  MaxPosts = 1
  MaxIntents = 1
  MaxRetryMsg = 1
PROPERTY DisconnectIsFinal
