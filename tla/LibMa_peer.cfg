SPECIFICATION FairSpec
CONSTANTS
  TimeoutCounter <- MCTimeoutCounter
  NullCounter = 1
  P2PCounter = 0
  MaxRubbish = 1
  U16 = 5
  Calls = {"INITLIBRARY","TEL","RECEIVE","OFFLINE","SDATA","GDATA"}
  Misuse = FALSE
  Footers = {"ok","absent"}
  Refusable = {"DATA"}
  NegaReasons = {"0","1"}
  Noise = {"silence"}
  LineAnswers = {"busy","hungup"}
  EEPROMAnswers = {"good"}
  PeerData = {"none","part","whole"}
  RemoteEnds = TRUE
INVARIANTS
  SessionOwned
  NoLostWakeup
PROPERTIES
  ApiSpec
  CallEnds
