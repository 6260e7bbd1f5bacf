SPECIFICATION Spec
CONSTANTS
  COUNT = 4
  THREADS = {0, 2, 3}
  FAIL_FAST = {TRUE, FALSE}
  HANGS = {{}, {2}}
  SIGNALS = TRUE
INVARIANTS TypeOK Accounted EvidenceKept NoneSkipped
PROPERTIES FailFastEnds Terminates
CHECK_DEADLOCK FALSE
