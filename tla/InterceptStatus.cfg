\* One administrator intercepts and releases while p2 makes the call.
CONSTANTS
  p1 = p1
  p2 = p2
  p3 = p3
  Loader = Loader
  NoOne = NoOne
  AllPids = AllPids
  alice = alice
  root = root
  Users = {alice}
  uid <- MCuid
  NR = 1
  Procs = {p1, p2}
  Admins = {p1}
  Cmds = {"INTERCEPT", "RELEASE"}
  Targets = {p1}
  MaxCalls = 2
  Unloads = FALSE
SPECIFICATION Spec
INVARIANT StatusExact
\* processes may all have exited, and the locking may block for good
CHECK_DEADLOCK FALSE
