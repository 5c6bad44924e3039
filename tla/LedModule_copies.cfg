\* Copies of userSpace.c while root loads the module twice; LEDCTL as
\* hw3Script shows it at first.  All may end, and an oops ends everything.
SPECIFICATION LifeSpec
CONSTANTS
  Program = {p1, p2}
  Default = 117867266
  Loads = 2
  Failures = {"driver", "device"}
SYMMETRY ProgramSymmetry
INVARIANTS TypeOK LifeTypeOK ReadsBack LedsOff CallsTransfer OopsHasCause
CHECK_DEADLOCK FALSE
