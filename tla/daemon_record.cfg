SPECIFICATION Spec
CONSTANTS
  c1 = c1
  c2 = c2
  Clients = {c1, c2}
  Pids = {1, 2}
  OldPid = 9
  DefaultPort = 1
  MaxPort = 2
  MaxPolls = 1
  Sites <- OverlapSites
  None = None
CHECK_DEADLOCK FALSE
INVARIANTS
  ServersAreRecorded
