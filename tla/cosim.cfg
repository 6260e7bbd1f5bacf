SPECIFICATION CoSpec
CONSTANTS
  BITS = 16
  RA = 4
  REGION_BITS = 0
  MULT_CYCLES = 2
  DIV_CYCLES = 3
  RAM_WORDS = 6
  Timers = {}
  DEV_BASE = 1024
  Lines = {2}
  IM_LOW = 10
  PRID = 48815
  NREG = 5
  TEXT_MIN = 64
  TEXT_MAX = 204
  HANDLER = 96
  Programs <- NoProgram
  External = {2}
  INSTR_COUNT = 4
  Shapes <- TrapsAndJumps
  PULSE = 10
  FINAL = 256
INVARIANT NoFalseAlarm
PROPERTY Ends
CHECK_DEADLOCK FALSE
