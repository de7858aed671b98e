SPECIFICATION Spec
CONSTANTS
  MaxP2P = 3
  MaxRecv = 4
  Capacity = 11
INVARIANTS
  TypeOK
  NoOverrun
  WholeMessage
  Room
