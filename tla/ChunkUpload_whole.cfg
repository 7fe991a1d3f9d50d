SPECIFICATION FairSpec
CONSTANTS
  Uploads = {u1}
  TotalChunks = 3
  MaxConcurrent = 2
  MaxRetries = 2
  MaxComplete = 2
  Workers = {w1, w2}
  MaxFaults = 1
  MaxRestarts = 1
  None = None
INVARIANTS PartsAreWhole
PROPERTIES UploadSettles
CHECK_DEADLOCK FALSE
