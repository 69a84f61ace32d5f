\* One administrator starts monitoring of two processes and stops one.
CONSTANTS
  p1 = p1
  p2 = p2
  p3 = p3
  Loader = Loader
  NoOne = NoOne
  AllPids = AllPids
  alice = alice
  root = root
  Users = {alice}
  uid <- MCuid
  NR = 1
  Procs = {p1, p2}
  Admins = {p1}
  Cmds = {"INTERCEPT", "START", "STOP"}
  Targets = {p1, p2}
  MaxCalls = 4
  Unloads = FALSE
SPECIFICATION Spec
INVARIANT NotMonitoredIsEmpty
\* processes may all have exited, and the locking may block for good
CHECK_DEADLOCK FALSE
