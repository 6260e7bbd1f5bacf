SPECIFICATION Spec
CONSTANTS
  COUNT = 3
  THREADS = {2}
  FAIL_FAST = {TRUE}
  HANGS = {{}}
  SIGNALS = FALSE
PROPERTIES StopsImmediately
CHECK_DEADLOCK FALSE
