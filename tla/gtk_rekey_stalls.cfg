SPECIFICATION FairSpec
CONSTANTS
  STA = {a}
  NoSTA = NoSTA
  GroupSeq <- OneGroup
  Version <- AllWPA2
  KeyMgmt <- AllPSK
  RequestKinds = {}
  GroupRekey = TRUE
  StrictRekey = FALSE
  PtkRekey = FALSE
  dot11RSNAConfigPairwiseUpdateCount = 1
  dot11RSNAConfigGroupUpdateCount = 1
  MaxTimers = 2
PROPERTIES GTKRekeyCompletes
