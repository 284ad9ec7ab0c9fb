SPECIFICATION Spec
CONSTANTS
  STA = {a}
  NoSTA = NoSTA
  GroupSeq <- OneGroup
  Version <- AllWPA2
  KeyMgmt <- AllPSK
  RequestKinds = {}
  GroupRekey = FALSE
  StrictRekey = FALSE
  PtkRekey = TRUE
  dot11RSNAConfigPairwiseUpdateCount = 2
  dot11RSNAConfigGroupUpdateCount = 1
  MaxTimers = 2
INVARIANT NewHandshakeHasRetries
