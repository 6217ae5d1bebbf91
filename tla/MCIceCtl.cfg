SPECIFICATION Spec
CONSTANTS
  c = c
  d1 = d1
  d2 = d2
  s = s
  p0 = p0
  NoPair = NoPair
  Remote = {c, d1, d2}
  DataPort <- MCDataPort
  EvenPort = {d1}
  Reachable = {c, d1, d2}
  Srflx = {s}
  Media = {p0}
  MaxRemotes = 2
CHECK_DEADLOCK FALSE
INVARIANTS TypeOK MediaToDataPort PairsFit NothingLeft
PROPERTIES ChoiceKept Connects RemoveReturns
