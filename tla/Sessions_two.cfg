SPECIFICATION Spec
CONSTANTS
  Ids = {0, 1, 2}
  ChunkSizes = {0, 2, 5}
  MailLen = 7
  PageLen = 5
  MaxHeld = 2
  Risks = {}
  Rooms = {0, 2, 7}
  Versions = {1}
  Pieces = {2}
  Calls = {"TCP"}
INVARIANT
  SocketsCounted
