\* No port is named: there is no speed to read.
SPECIFICATION MonSpec
CONSTANTS
  Program = {p1}
  Rounds = 1
  Default <- INITIAL_VALUE
  Unreadable = Unreadable
  Links = {0}
INVARIANT DefaultShownOff
