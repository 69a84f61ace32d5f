\* The module is removed while a system call is intercepted, and while a
\* command waits for the lock.  With -continue TLC shows both.
CONSTANTS
  p1 = p1
  p2 = p2
  p3 = p3
  Loader = Loader
  NoOne = NoOne
  AllPids = AllPids
  alice = alice
  root = root
  Users = {alice}
  uid <- MCuid
  NR = 2
  Procs = {p1, p2}
  Admins = {p1}
  Cmds = {"INTERCEPT"}
  Targets = {p1}
  MaxCalls = 1
  Unloads = TRUE
SPECIFICATION FairSpec
INVARIANT UnloadedIsGone
PROPERTY UnloadRestores
\* processes may all have exited, and the locking may block for good
CHECK_DEADLOCK FALSE
