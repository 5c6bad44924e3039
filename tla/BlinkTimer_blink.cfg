\* Ordinary rates, one refused, one too large.  The module stops when it is gone.
SPECIFICATION FairSpec
CONSTANTS
  Users = {u1, u2}
  Written <- SomeRates
  Params <- SomeParams
  FirstRate = 2
  MsPerSec = 10
  IntRange = 256
  Failures = {"chrdev", "cdev", "driver", "device", "class", "node"}
  MayUnbind = TRUE
INVARIANTS TypeOK TimerKept
PROPERTIES BlinksOn RateTakesEffect BlinkIsEven OopsHasCause
CHECK_DEADLOCK FALSE
