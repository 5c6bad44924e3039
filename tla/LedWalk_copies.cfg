\* Two copies of hw4.c, run and killed any number of times; after two rounds LEDCTL
\* shows what it shows after five.
SPECIFICATION WalkSpec
CONSTANTS
  Program = {p1, p2}
  Rounds = 2
  Default <- ResetValue
SYMMETRY ProgramSymmetry
INVARIANTS WalkTypeOK StartingValueRestored OneLedAtATime
