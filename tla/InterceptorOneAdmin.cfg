\* One administrator, root, makes up to three calls about itself, another
\* process and all pids, while the other process makes system calls and exits
\* and the module is removed.
CONSTANTS
  p1 = p1
  p2 = p2
  p3 = p3
  Loader = Loader
  NoOne = NoOne
  AllPids = AllPids
  alice = alice
  root = root
  Users = {alice}
  uid <- MCuid
  NR = 2
  Procs = {p1, p2}
  Admins = {p1}
  Cmds = {"INTERCEPT", "RELEASE", "START", "STOP"}
  Targets = {p1, p2, AllPids}
  MaxCalls = 3
  Unloads = TRUE
SPECIFICATION FairSpec
PROPERTIES AllPidsMonitoringKept EveryCallReturns UnloadCompletes
\* processes may all have exited
CHECK_DEADLOCK FALSE
