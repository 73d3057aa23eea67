SPECIFICATION PlainFairSpec
CONSTANTS
  Groups <- MCGroups
  Situations <- MCSituations
  Imagined <- MCImagined
  Configs <- MCConfigs
  NoGroup = NoGroup
  Unmeasured = Unmeasured
  Never = Never
  MaxRate = 3
  SlowLatency = 5
  Stickiness = 3
  PenaltyMax = 4
  CacheIdle = 1
  MinDwell = 1
  MaxNow = 1
  MaxRevision = 2
  MaxCalls = 2
INVARIANTS
  TypeOK
  EvaluationSound
  ConsoleOffersOnlyLockable
PROPERTIES
  AnsweredLockIsSaved
  RefinesAbstractLock
  LockObeyed
  DwellKept
  OperationsReturn
CHECK_DEADLOCK FALSE
