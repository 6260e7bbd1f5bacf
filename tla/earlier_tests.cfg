SPECIFICATION Spec
CONSTANTS
  BITS = 8
  RA = 3
  REGION_BITS = 0
  MULT_CYCLES = 2
  DIV_CYCLES = 3
  RAM_WORDS = 2
  NREG = 4
  TEXT_MIN = 64
  TEXT_WORDS4 = 8
  TEXT_MAX5 = 88
  TEXT_MAX6 = 96
  COUNT4 = 5
  COUNT5 = 5
  COUNT6 = 4
  Shapes4 <- Shapes4_
  Shapes5 <- Shapes5_
  Shapes6 <- Shapes6_
  CYCLES5 = 13
  CYCLES6 = 32
INVARIANT NoFalseAlarm
PROPERTY AlarmOnlyKnown
CHECK_DEADLOCK FALSE
