SPECIFICATION FairSpec
CONSTANTS
  FrameSizes = {1, 3}
  SockBuf = 2
  MaxBytes = 6
INVARIANTS TypeOK OneWrite Pumped InOrder Accounted
PROPERTIES SilentAfterError Drains ImplementsStream
CHECK_DEADLOCK FALSE
