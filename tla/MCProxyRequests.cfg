SPECIFICATION PlainFairPathSpec
CONSTANTS
  Groups = {g1, g2}
  NoGroup = NoGroup
  Requests = {r1, r2}
  Unrepeatable = {r2}
  MaxRetries = 1
  Threshold = 1
  WindowMs = 0
  MinSamples = 9
  RateNum = 1
  RateDen = 2
  BaseCooldown = 1
  MaxCooldown = 1
  MaxNow = 1
  MaxLag = 0
  MaxPerInstant = 1
INVARIANTS
  PathTypeOK
  ProbeSlotHeld
  TrafficExact
PROPERTIES
  ProbeComesBack
  RequestEnds
CHECK_DEADLOCK FALSE
