SPECIFICATION RunSpec
CONSTANTS
  BITS = 8
  RA = 3
  REGION_BITS = 0
  NREG = 4
  TEXT_MIN = 64
  HANDLER = 0
  PRID = 0
  MEM_SIZE = 2
  DELAYED = TRUE
  EXCEPTIONS = FALSE
  INSTR_COUNT = 5
  InstrSet <- AllTypes
  Shapes <- RunShapes
INVARIANT NeverPanics StaysInside SameEffect
PROPERTY Halts
CHECK_DEADLOCK FALSE
