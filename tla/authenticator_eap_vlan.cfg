SPECIFICATION Spec
CONSTANTS
  STA = {a}
  NoSTA = NoSTA
  GroupSeq <- TwoGroups
  Version <- AllWPA
  KeyMgmt <- AllEAP
  RequestKinds = {"REQ_ERROR","REQ_GROUP","REQ_MAC"}
  GroupRekey = TRUE
  StrictRekey = TRUE
  PtkRekey = FALSE
  dot11RSNAConfigPairwiseUpdateCount = 1
  dot11RSNAConfigGroupUpdateCount = 1
  MaxTimers = 1
INVARIANTS RetriesBounded NoStaleKeyFrame NoOldPTKInNewHandshake InitializedHoldsNothing
