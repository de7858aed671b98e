SPECIFICATION Spec
CONSTANTS
  TimeoutCounter <- MCTimeoutCounter
  NullCounter = 1
  P2PCounter = 0
  MaxRubbish = 1
  U16 = 5
  Calls = {"TEL","RECEIVE","SDATA","GDATA","STOP","END","INITLIBRARY"}
  Misuse = TRUE
  Footers = {"ok"}
  Refusable = {"WAIT_CALL"}
  NegaReasons = {"0"}
  Noise = {"idle"}
  LineAnswers = {"busy"}
  EEPROMAnswers = {"good"}
  PeerData = {"whole"}
  RemoteEnds = FALSE
INVARIANTS
  TypeOK
  ErrorEndsCall
