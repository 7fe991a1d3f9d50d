SPECIFICATION Spec
CONSTANTS
  Calls = {n1, n2}
  Ops = {"heartbeat", "other"}
  Sessions = {s1}
  Workers = {w1}
  Offsets <- OffByOne
  Skew = 1
  NonceTTL = 4
  SessionTTL = 3
  Rotation = 2
  Stall = 1
  MaxCopies = 1
  MaxTime = 4
  Lossy = TRUE
  None = None
INVARIANT KeysAgree
SYMMETRY Symmetry
CHECK_DEADLOCK FALSE
