SPECIFICATION PathSpec
CONSTANTS
  Groups = {g1}
  NoGroup = NoGroup
  Requests = {r1, r2}
  Unrepeatable = {r2}
  MaxRetries = 1
  Threshold = 1
  WindowMs = 0
  MinSamples = 9
  RateNum = 1
  RateDen = 2
  BaseCooldown = 1
  MaxCooldown = 1
  MaxNow = 2
  MaxLag = 0
  MaxPerInstant = 1
INVARIANTS
  SingleProbe
CHECK_DEADLOCK FALSE
