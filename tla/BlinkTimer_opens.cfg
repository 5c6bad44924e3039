\* Two processes open the node for the first time.
SPECIFICATION Spec
CONSTANTS
  Users = {u1, u2}
  Written = {2}
  Params = {}
  FirstRate = 2
  MsPerSec = 10
  IntRange = 256
  Failures = {}
  MayUnbind = FALSE
INVARIANT OneCreation
CHECK_DEADLOCK FALSE
