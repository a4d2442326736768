CONSTANTS
  P = 43
  N = 31
  BITS = 5
  WINDOW_A = 3
  WINDOW_G = 4
  Gx = 2
  Gy = 12
  GEN_BITS = 2
  GEN_DIGITS = 3
  NUMS_X = 20
  SCALAR_BYTES = 1
  ECMULT_PIPPENGER_THRESHOLD = 2
  ECMULT_MAX_POINTS_PER_BATCH = 2
  Call <- Library
  MaxRounds = 0
SPECIFICATION Spec
INVARIANT LoginValidates
CHECK_DEADLOCK FALSE
