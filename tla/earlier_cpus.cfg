SPECIFICATION Spec
CONSTANTS
  BITS = 8
  RA = 3
  REGION_BITS = 0
  MULT_CYCLES = 2
  DIV_CYCLES = 3
  RAM_WORDS = 2
  NREG = 4
  TEXT_MIN = 64
  TEXT_MAX5 = 80
  TEXT_MAX6 = 96
  Programs5 <- ThreeOrFour
  Programs6 <- Four
PROPERTIES Implements Progress
