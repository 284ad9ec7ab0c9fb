SPECIFICATION HSpec
CONSTANTS
  STA = {a}
  NoSTA = NoSTA
  GroupSeq <- OneGroup
  Version <- AllWPA2
  KeyMgmt <- AllPSK
  RequestKinds = {}
  GroupRekey = TRUE
  StrictRekey = FALSE
  PtkRekey = FALSE
  dot11RSNAConfigPairwiseUpdateCount = 1
  dot11RSNAConfigGroupUpdateCount = 1
  MaxTimers = 1
  RandomPoolReady = {TRUE}
  StaleFrames = {"1/4", "2/4", "3/4", "4/4", "1/2", "2/2"}
  MaxCounter = 5
  MaxANonce = 5
  MaxReplayCounter = 3
INVARIANT HoldsCurrentGTK
