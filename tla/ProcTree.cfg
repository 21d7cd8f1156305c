SPECIFICATION FairSpec
CONSTANTS
  NPROC = 4
  MaxPid = 4
  KillPids = {0, 3}
INVARIANTS ParentAlive WaiterHasReason FreedOffStack KilledByPid
PROPERTIES OrphansReaped
