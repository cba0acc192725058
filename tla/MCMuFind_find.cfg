SPECIFICATION FairSpec
CONSTANTS
  a = a
  b = b
  c = c
  d = d
  x = x
  y = y
  p1 = p1
  p2 = p2
  p3 = p3
  p4 = p4
  Null = Null
  Base = 2
  Keys = {a, b, c, d, x, y, p1, p2, p3, p4}
  DocIds = {1, 2, 3, 4}
  Files = {p1, p2, p3, p4}
  Messages <- Every
  Volatile <- Changing
  Starts <- AllStarts
  OldFiles = {p2}
  MaxVanished = 1
CHECK_DEADLOCK FALSE
INVARIANTS
  WellFormed
  EveryMatchHasAPlace
  SortedThreadsAreTogether
  OutputIsTheAnswer
PROPERTIES
  FindEnds
