SPECIFICATION FairSpec
CONSTANTS
  Tasks = {t1}
  Earlier = {e1, e2}
  Cancellers = {w1, w2}
  MaxListed = 2
  MaxFaults = 1
  MaxRestarts = 1
  None = None
INVARIANTS TasksAreSound
PROPERTIES TaskEnds
CHECK_DEADLOCK FALSE
