SPECIFICATION FairSpec
CONSTANTS
  STA = {"a","b"}
  NoSTA = NoSTA
  GroupSeq <- OneGroup
  Version <- AllWPA2
  KeyMgmt <- MixedPSK
  RequestKinds = {}
  GroupRekey = TRUE
  StrictRekey = FALSE
  PtkRekey = TRUE
  dot11RSNAConfigPairwiseUpdateCount = 2
  dot11RSNAConfigGroupUpdateCount = 2
  MaxTimers = 2
PROPERTIES HandshakeResolves GTKRekeyCompletesUnlessTimerLost HandlersTerminate
INVARIANT NoOldPTKInNewHandshake
