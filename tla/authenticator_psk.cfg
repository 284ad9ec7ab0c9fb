SPECIFICATION Spec
CONSTANTS
  STA = {a,b}
  NoSTA = NoSTA
  GroupSeq <- OneGroup
  Version <- AllWPA2
  KeyMgmt <- AllPSK
  RequestKinds = {"REQ_PAIRWISE"}
  GroupRekey = TRUE
  StrictRekey = TRUE
  PtkRekey = FALSE
  dot11RSNAConfigPairwiseUpdateCount = 1
  dot11RSNAConfigGroupUpdateCount = 1
  MaxTimers = 1
INVARIANTS TypeOK RetriesBounded MarksCounted KeysDoneMeansAllTold NoStaleKeyFrame InitializedHoldsNothing
SYMMETRY Symmetry
