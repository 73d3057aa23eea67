SPECIFICATION FairSpec
CONSTANTS
  Ports = {p1, p2}
  NoOverride = NoOverride
  Modes = {m1}
  MaxChanges = 3
  MaxPending = 3
INVARIANTS
  TypeOK
  NothingForgotten
PROPERTIES
  NeverBackwards
  EverSaved
CHECK_DEADLOCK FALSE
