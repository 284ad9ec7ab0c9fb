SPECIFICATION HSpec
CONSTANTS
  STA = {a}
  NoSTA = NoSTA
  GroupSeq <- OneGroup
  Version <- AllWPA2
  KeyMgmt <- AllPSK
  RequestKinds = {}
  GroupRekey = TRUE
  StrictRekey = FALSE
  PtkRekey = TRUE
  dot11RSNAConfigPairwiseUpdateCount = 2
  dot11RSNAConfigGroupUpdateCount = 2
  MaxTimers = 1
  RandomPoolReady = {TRUE, FALSE}
  StaleFrames = {"1/4", "3/4", "1/2", "2/2"}
  MaxCounter = 5
  MaxANonce = 5
  MaxReplayCounter = 3
INVARIANT HandshakeTypeOK Agreement
PROPERTY NoGTKRollback ImplementsKeyAgreement
