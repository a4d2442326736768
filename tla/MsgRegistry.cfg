SPECIFICATION FairSpec
CONSTANTS
  Threads = {t1, t2, t3}
  MaxCalls = 2
INVARIANT MissOnlyByRace
PROPERTIES StaysSettled Settles
CHECK_DEADLOCK FALSE
