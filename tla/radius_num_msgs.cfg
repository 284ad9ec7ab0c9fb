SPECIFICATION Spec
CONSTANTS
  STA = {"a"}
  NoSTA = "none"
  NumIds = 3
  RADIUS_CLIENT_MAX_RETRIES = 3
  RADIUS_CLIENT_MAX_ENTRIES = 2
  RADIUS_CLIENT_NUM_FAILOVER = 1
  Confs <- OneServer
  MaxSends = 4
INVARIANT NumMsgsExact
CHECK_DEADLOCK FALSE
