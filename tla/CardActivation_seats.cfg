SPECIFICATION Spec
CONSTANTS
  Cards = {"day", "multi", "trial", "free"}
  Devices = {d1, d2, d3}
  Workers = {w1, w2}
  MaxSeats = 1
  MaxTime = 1
  None = None
  Type <- MCType
  Strategy <- MCStrategy
  MaxDevices <- MCMaxDevices
INVARIANTS SeatBound RowsAgree NoDeadlock
PROPERTIES FirstActivationKept ImplementsSeats
SYMMETRY Symmetry
VIEW Tables
CONSTRAINT OneCard
CHECK_DEADLOCK FALSE
