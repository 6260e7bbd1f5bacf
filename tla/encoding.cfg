SPECIFICATION Spec
CONSTANTS
  BITS = 16
  RA = 31
  REGION_BITS = 0
  Made <- Edges
  Words32 <- AllWords
INVARIANT Understood OneRow
CHECK_DEADLOCK FALSE
