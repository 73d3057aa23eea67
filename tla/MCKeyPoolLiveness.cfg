SPECIFICATION PlainFairSpec
CONSTANTS
  Groups = {g1, g2}
  NoGroup = NoGroup
  Clients = {c1, c2}
  Daemon = Daemon
  Limit = 0
  PageSize = 1
  MaxKeys = 1
PROPERTIES
  CallsReturn
CHECK_DEADLOCK FALSE
