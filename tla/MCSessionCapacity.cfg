SPECIFICATION Spec
CONSTANTS
  Sessions = {s1, s2}
  Groups = {g1}
  Responses = {p1, p2, p3}
  NoGroup = NoGroup
  Attempts = {a1}
  TtlMs = 0
  PruneInterval = 1
  MaxEntries = 1
  MaxNow = 1
  MaxLag = 1
  MaxRevision = 2
INVARIANTS
  CapacityBound
SYMMETRY ResponseSymmetry
CHECK_DEADLOCK FALSE
