\* Two processes start monitoring at the same time.
CONSTANTS
  p1 = p1
  p2 = p2
  p3 = p3
  Loader = Loader
  NoOne = NoOne
  AllPids = AllPids
  alice = alice
  root = root
  Users = {alice}
  uid <- MCuid
  NR = 1
  Procs = {p1, p2}
  Admins = {p1, p2}
  Cmds = {"START"}
  Targets = {p1, p2}
  MaxCalls = 1
  Unloads = FALSE
SPECIFICATION FairSpec
PROPERTY EveryCallReturns
\* processes may all have exited, and the locking may block for good
CHECK_DEADLOCK FALSE
