SPECIFICATION FairSpec
CONSTANTS
  Ids = {0, 1}
  ChunkSizes = {0, 1, 3}
  MailLen = 5
  PageLen = 3
  MaxHeld = 1
  Risks = {}
  Rooms = {0, 2}
  Versions = {1}
  Pieces = {2}
  Calls = {"TCP", "SMTP", "HTTP", "EEPROM", "CUT", "REFUSED"}
INVARIANTS
  OpenIsListed
  ListedIsOpen
  HeldIsListed
  HttpBodyInOrder
  CacheWhole
PROPERTY
  TransferEnds
