SPECIFICATION Spec
CONSTANTS
  TimeoutCounter <- MCTimeoutCounter
  NullCounter = 1
  P2PCounter = 0
  MaxRubbish = 1
  U16 = 5
  Calls = {"INITLIBRARY","TELSERVER"}
  Misuse = FALSE
  Footers = {"ok"}
  Refusable = {"CHECK_STATUS"}
  NegaReasons = {"1"}
  Noise = {}
  LineAnswers = {"busy"}
  EEPROMAnswers = {"good"}
  PeerData = {}
  RemoteEnds = FALSE
PROPERTIES
  KeepAliveFailureDisconnects
