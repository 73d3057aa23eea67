SPECIFICATION Spec
CONSTANTS
  Sessions = {s1}
  Groups = {g1, g2}
  Responses = {}
  NoGroup = NoGroup
  Attempts = {a1, a2}
  TtlMs = 0
  PruneInterval = 1
  MaxEntries = 1
  MaxNow = 1
  MaxLag = 1
  MaxRevision = 3
INVARIANTS
  ForgottenStaysForgotten
CHECK_DEADLOCK FALSE
