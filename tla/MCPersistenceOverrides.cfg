SPECIFICATION Spec
CONSTANTS
  Ports = {p1, p2}
  NoOverride = NoOverride
  Modes = {m1, m2}
  MaxChanges = 1
  MaxPending = 1
INVARIANTS
  OverridesNotPersisted
CHECK_DEADLOCK FALSE
