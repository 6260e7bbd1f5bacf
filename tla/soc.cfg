SPECIFICATION Spec
CONSTANTS
  BITS = 8
  RA = 3
  REGION_BITS = 0
  MULT_CYCLES = 2
  DIV_CYCLES = 3
  RAM_WORDS = 2
  Timers = {0}
  DEV_BASE = 16
  Lines = {0, 2}
  IM_LOW = 4
  PRID = 171
  NREG = 4
  TEXT_MIN = 64
  TEXT_MAX = 112
  HANDLER = 96
  Programs <- TimerPrograms
  External = {}
INVARIANT IrqMeansExpired
PROPERTIES Implements TimerExpires
