SPECIFICATION Spec
CONSTANTS
  r1 = r1
  r2 = r2
  r3 = r3
  t1 = t1
  t2 = t2
  Requests = {r1, r3}
  Logins = {l1}
  Tabs = {t1, t2}
  Tab <- TwoTabs
  Coded = {r1}
  MaxLapses = 1
  MaxFaults = 1
  NoPair = NoPair
INVARIANTS PairsAreUsable
PROPERTIES RequestAdvances
CHECK_DEADLOCK FALSE
