SPECIFICATION Spec
CONSTANTS
  STA = {a}
  NoSTA = NoSTA
  GroupSeq <- TwoGroups
  Version <- AllWPA2
  KeyMgmt <- AllEAP
  RequestKinds = {}
  GroupRekey = TRUE
  StrictRekey = FALSE
  PtkRekey = FALSE
  dot11RSNAConfigPairwiseUpdateCount = 1
  dot11RSNAConfigGroupUpdateCount = 1
  MaxTimers = 1
INVARIANT MarksCounted
