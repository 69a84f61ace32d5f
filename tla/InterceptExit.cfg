\* A process exits during insertion, or after START was called for it (run with -continue).
CONSTANTS
  p1 = p1
  p2 = p2
  p3 = p3
  Loader = Loader
  NoOne = NoOne
  AllPids = AllPids
  alice = alice
  root = root
  Users = {alice}
  uid <- MCuid
  NR = 2
  Procs = {p1, p2}
  Admins = {p1}
  Cmds = {"START"}
  Targets = {p2}
  MaxCalls = 1
  Unloads = FALSE
SPECIFICATION Spec
INVARIANTS DeadNotMonitored TableReady
\* processes may all have exited, and the locking may block for good
CHECK_DEADLOCK FALSE
