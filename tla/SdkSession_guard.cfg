SPECIFICATION Spec
CONSTANTS
  Calls = {n1, n2}
  Ops = {"heartbeat"}
  Sessions = {s1}
  Workers = {w1, w2}
  Offsets <- InTimeOnly
  Skew = 1
  NonceTTL = 4
  SessionTTL = 4
  Rotation = 2
  Stall = 1
  MaxCopies = 2
  MaxTime = 4
  Lossy = FALSE
  None = None
INVARIANTS AcceptedOnce ReadableAnswers
PROPERTIES RotationSpaced
SYMMETRY Symmetry
CHECK_DEADLOCK FALSE
