\* Two root processes intercept.
CONSTANTS
  p1 = p1
  p2 = p2
  p3 = p3
  Loader = Loader
  NoOne = NoOne
  AllPids = AllPids
  alice = alice
  root = root
  Users = {alice}
  uid <- MCrootuid
  NR = 1
  Procs = {p1, p2}
  Admins = {p1, p2}
  Cmds = {"INTERCEPT"}
  Targets = {p1}
  MaxCalls = 1
  Unloads = FALSE
SPECIFICATION Spec
INVARIANT SavedOriginal
\* processes may all have exited, and the locking may block for good
CHECK_DEADLOCK FALSE
