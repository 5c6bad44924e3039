\* ledmon and one copy of hw4.c.
SPECIFICATION MonSpec
CONSTANTS
  Program = {p1}
  Rounds = 1
  Default <- INITIAL_VALUE
  Unreadable = Unreadable
  Links <- SomeLinks
INVARIANTS MonTypeOK EachLedOfSomeMoment WalkIsSeen
