CONSTANTS
  N = 4
  B = 6
  T = 5
  C0 = 5
  S = 0
  WordBits = 10
  AccBits = 18
  ByteBits = 1
  StoreBits = 8
  MaxMagnitude = 8
  MaxFactor = 2
  Values = {0, 1, 4194269, 8388475, 8388538}
  Factors = {2, 3, 8}
  Arguments <- Argument
  Squared <- Twice
  Product <- Plus16
SPECIFICATION MCSpec
INVARIANTS LimbsFaithful ChainsExact
PROPERTY ImplementsField
CHECK_DEADLOCK FALSE
