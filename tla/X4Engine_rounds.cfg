SPECIFICATION Spec
CONSTANTS
  Enabled = {TRUE, FALSE}
  OnViolation = {"kill", "warn", "none"}
  Strong = {"sig_hash", "creator", "port", "frida", "tracer", "fd", "vm"}
  Configs <- AllConfigs
  Procs <- AllProcs
  OneRead = 2
  Overlap = 2
  MaxInits = 1
  Letters = {"a", "b"}
  MaxText = 5
INVARIANTS ScoreForgets ScoreKillIsEarned DryRunIsSilent SearchIsComplete
CHECK_DEADLOCK FALSE
