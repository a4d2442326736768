SPECIFICATION FairSpec
CONSTANTS
  PortsAsked <- MCPortsAsked
  MaxCores = 2
  MaxClients = 2
INVARIANTS ListensWhereAsked LogSetUpOnce WorkersStay ServerOutlivesWorkers
PROPERTIES Serves
CHECK_DEADLOCK FALSE
