SPECIFICATION Spec
CONSTANTS
  Tests <- AllTests
  Jobs <- AllJobs
  Cells <- AllCells
  T3_SEG_POOL <- Pool
  T3_DESCRIPTORS <- Descriptors
  T3_MAX_STR_LEN = 4
  DATA <- Strings
INVARIANTS StaysWithin ProgramsCompute PatchedRunsNothing
PROPERTIES Ends
CHECK_DEADLOCK FALSE
