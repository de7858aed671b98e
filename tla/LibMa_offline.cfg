SPECIFICATION FairSpec
CONSTANTS
  TimeoutCounter <- MCTimeoutCounter
  NullCounter = 1
  P2PCounter = 0
  MaxRubbish = 1
  U16 = 5
  Calls = {"INITLIBRARY","INITLIBRARY2","CONDITION","CONDITION2","STOP","END"}
  Misuse = FALSE
  Footers = {"ok","absent","unsupported","internal","wrong"}
  Refusable = {"START","END","CHECK_STATUS"}
  NegaReasons = {"1","2"}
  Noise = {"idle","rubbish","badmagic","badsum"}
  LineAnswers = {"lost","hungup","busy"}
  EEPROMAnswers = {"good"}
  PeerData = {}
  RemoteEnds = FALSE
INVARIANTS
  NoLostWakeup
  BusyOwned
  ReplyMatches
  ErrorNamed
PROPERTIES
  OneCommandAtATime
  CallEnds
