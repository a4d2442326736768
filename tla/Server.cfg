SPECIFICATION Spec
CONSTANTS
  MaxItems = 3
  MaxReplies = 1
  MaxBroadcasts = 2
INVARIANTS NoGhosts NoOrphans BroadcastExact
CHECK_DEADLOCK FALSE
