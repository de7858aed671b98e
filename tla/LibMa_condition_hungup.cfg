SPECIFICATION Spec
CONSTANTS
  TimeoutCounter <- MCTimeoutCounter
  NullCounter = 1
  P2PCounter = 0
  MaxRubbish = 1
  U16 = 5
  Calls = {"INITLIBRARY","TEL","CONDITION"}
  Misuse = FALSE
  Footers = {"ok"}
  Refusable = {}
  NegaReasons = {"1"}
  Noise = {}
  LineAnswers = {"busy","hungup"}
  EEPROMAnswers = {"good"}
  PeerData = {"none"}
  RemoteEnds = FALSE
INVARIANTS
  NoLostWakeup
