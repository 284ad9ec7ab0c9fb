SPECIFICATION FairSpec
CONSTANTS
  UserMethods <- OneMethod
  Confs <- WpaServer
  MaxEvents <- WpaServerBounds
  MaxRetrans = 1
  RTOInit = 1
  RTOMax = 1
  EAP_MAX_AUTH_ROUNDS = 2
  MaxEapSteps = 12
  quietPeriod = 1
  reAuthMax = 1
  serverTimeout = 1
  max_steps = 15
PROPERTY ReauthenticationStarts
CHECK_DEADLOCK FALSE
