SPECIFICATION FairSpec
CONSTANTS
  UserMethods <- OneMethod
  Confs <- AllConfs
  MaxEvents <- Bounds
  MaxRetrans = 1
  RTOInit = 1
  RTOMax = 1
  EAP_MAX_AUTH_ROUNDS = 2
  MaxEapSteps = 12
  quietPeriod = 1
  reAuthMax = 1
  serverTimeout = 1
  max_steps = 65
INVARIANTS TypeOK FreshResponse  FailureClosesPort
PROPERTIES AuthenticatedBySuccess OutOfStepByRace ConnectingResolves AuthenticatingResolves
CHECK_DEADLOCK FALSE
