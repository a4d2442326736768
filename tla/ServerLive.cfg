SPECIFICATION FairSpec
CONSTANTS
  MaxItems = 2
  MaxReplies = 1
  MaxBroadcasts = 1
PROPERTIES BroadcastReturns AcceptGoesOn Released
CHECK_DEADLOCK FALSE
