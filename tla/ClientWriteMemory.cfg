SPECIFICATION Spec
CONSTANTS
  FrameSizes = {1}
  SockBuf = 1
  MaxBytes = 6
INVARIANT StreamIntact
CHECK_DEADLOCK FALSE
