SPECIFICATION Spec
CONSTANTS
  BITS = 8
  RA = 3
  REGION_BITS = 0
  MULT_CYCLES = 2
  DIV_CYCLES = 3
  RAM_WORDS = 2
  Timers = {}
  DEV_BASE = 128
  Lines = {2}
  IM_LOW = 4
  PRID = 171
  NREG = 4
  TEXT_MIN = 64
  TEXT_MAX = 100
  HANDLER = 80
  Programs <- HazardsAndExceptions
  External = {}
INVARIANTS TypeOK MduIdle BdExact
PROPERTIES Implements Progress
