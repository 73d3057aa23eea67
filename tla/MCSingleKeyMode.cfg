SPECIFICATION PlainFairSpec
CONSTANTS
  Groups = {g1, g2}
  NoGroup = NoGroup
  Requests = {r1, r2}
  Unrepeatable = {r2}
  MaxRetries = 1
  Round = Round
INVARIANTS
  TypeOK
  ServedAsRouted
  SlotWithLease
PROPERTIES
  NoRegroupInFlight
  LeaseComesRound
CHECK_DEADLOCK FALSE
