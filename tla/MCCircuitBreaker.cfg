SPECIFICATION Spec
CONSTANTS
  Groups = {g1}
  Threshold = 2
  WindowMs = 2
  MinSamples = 3
  RateNum = 1
  RateDen = 2
  BaseCooldown = 1
  MaxCooldown = 3
  MaxNow = 5
  MaxLag = 1
  MaxPerInstant = 2
INVARIANTS
  TypeOK
  ClosedIsClean
  OutageIsTimed
PROPERTIES
  CooldownUndisturbed
  BackoffEscalates
  OnlyFailureTrips
  RefinesAbstractBreaker
CHECK_DEADLOCK FALSE
