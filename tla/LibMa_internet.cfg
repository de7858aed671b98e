SPECIFICATION FairSpec
CONSTANTS
  TimeoutCounter <- MCTimeoutCounter
  NullCounter = 1
  P2PCounter = 0
  MaxRubbish = 1
  U16 = 5
  Calls = {"INITLIBRARY","TELSERVER","OFFLINE","STOP","CONDITION","EEPROM_READ"}
  Misuse = FALSE
  Footers = {"ok","unsupported"}
  Refusable = {"TEL","PPP_CONNECT","EEPROM_READ","CHANGE_CLOCK"}
  NegaReasons = {"1"}
  Noise = {"silence","badsum"}
  LineAnswers = {"busy"}
  EEPROMAnswers = {"good","badsum","unregistered"}
  PeerData = {}
  RemoteEnds = FALSE
INVARIANTS
  KeepAliveEnds
  RetryBounded
  NoByteDropped
  TaskOwned
  FreshStart
PROPERTIES
  ErrorKept
  ApiSpec
  CallEnds
