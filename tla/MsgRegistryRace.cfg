SPECIFICATION Spec
CONSTANTS
  Threads = {t1, t2}
  MaxCalls = 1
INVARIANT FramesRecognised
CHECK_DEADLOCK FALSE
