SPECIFICATION FairSpec
CONSTANTS
  STA = {"a", "b"}
  NoSTA = "none"
  NumIds = 3
  RADIUS_CLIENT_MAX_RETRIES = 3
  RADIUS_CLIENT_MAX_ENTRIES = 2
  RADIUS_CLIENT_NUM_FAILOVER = 1
  Confs <- AllConfs
  MaxSends = 4
INVARIANTS TypeOK PendingCounted UniqueIds RetransmitScheduled MadeForServer
PROPERTIES RequestsEnd
CHECK_DEADLOCK FALSE
