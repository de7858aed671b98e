SPECIFICATION Spec
CONSTANTS
  Ids = {0, 1}
  ChunkSizes = {0, 2, 5, 7}
  MailLen = 7
  PageLen = 5
  MaxHeld = 1
  Risks = {}
  Rooms = {0, 2, 7}
  Versions = {1}
  Pieces = {2}
  Calls = {"TCP", "SMTP", "POP3", "CUT", "REFUSED"}
INVARIANTS
  TypeOK
  OpenIsListed
  SessionMatches
  Sequenced
  MailInOrder
  BufferKept
