SPECIFICATION RedeemSpec
CONSTANTS
  c1 = c1
  c2 = c2
  Codes = {c1, c2}
  Developers = {d1, d2}
  Workers = {w1, w2}
  Admins = {a1}
  Days <- Terms
  MaxTime = 2
  None = None
SYMMETRY Symmetry
INVARIANTS OneRedeemer TermIsPaid
PROPERTIES TermIsAdded
CHECK_DEADLOCK FALSE
