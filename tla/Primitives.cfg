CONSTANTS
  L = 4
  W = 3
  J = 2
  ByteBits = 1
  NC <- MCNC
  Values = {0, 1, 7, 2005, 2006, 4010, 4011, 4095}
  Shifts = {12, 14, 17, 23}
SPECIFICATION MCSpec
INVARIANT ScalarsExact
PROPERTIES ImplementsScalars CutsDoNotMatter AnswersKnown SealOpens
CHECK_DEADLOCK FALSE
