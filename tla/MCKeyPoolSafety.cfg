SPECIFICATION Spec
CONSTANTS
  Groups = {g1, g2}
  NoGroup = NoGroup
  Clients = {c1, c2}
  Daemon = Daemon
  Limit = 1
  PageSize = 1
  MaxKeys = 2
INVARIANTS
  TypeOK
  DeletesNoKeyInUse
  SingleFlight
PROPERTIES
  DeletesNoKeyWanted
  
SYMMETRY PoolSymmetry
CHECK_DEADLOCK FALSE
