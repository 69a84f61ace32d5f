\* Two administrators, one of them root, with up to two calls each: root
\* intercepts and releases, both monitor themselves and each other; the module
\* may be removed at any time.
CONSTANTS
  p1 = p1
  p2 = p2
  p3 = p3
  Loader = Loader
  NoOne = NoOne
  AllPids = AllPids
  alice = alice
  root = root
  Users = {alice}
  uid <- MCuid
  NR = 2
  Procs = {p1, p2}
  Admins = {p1, p2}
  Cmds = {"INTERCEPT", "RELEASE", "START", "STOP"}
  Targets = {p1, p2}
  MaxCalls = 2
  Unloads = TRUE
SPECIFICATION Spec
INVARIANTS TypeOK ReturnsUnlocked NoDuplicatePid CountMatchesList ExitCleansLists
           ListsGuarded FillLosesNothing SavedOriginal HijackedIsMarked
\* processes may all have exited, and the locking may block for good
CHECK_DEADLOCK FALSE
