SPECIFICATION FairSpec
CONSTANTS
  Parses <- MCParses
  Scripts <- MCScripts
  MaxFrames = 3
  ReadMax = 24
INVARIANTS InSync OnlyGood AllGood HeldBackByBad
PROPERTIES NextReadFrees GoodPeerServed
CHECK_DEADLOCK FALSE
