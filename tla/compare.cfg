SPECIFICATION Spec
CONSTANTS
  Lines <- MCLines
  MAX_LINES = 4
  Logs <- MCLogs
INVARIANT Exact BlamesFirst
CHECK_DEADLOCK FALSE
