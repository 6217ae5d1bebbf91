CONSTANTS
  o1 = o1
  o2 = o2
  o3 = o3
  o4 = o4
  NULL = NULL
  Objects = {o1, o2, o3}
  Name <- MCName3
  EQN <- MCEQN
  MaxHeld = 2
  Callers = {"session"}
SYMMETRY Sym3
SPECIFICATION CallerSpec
INVARIANT NoDanglingAccess
CHECK_DEADLOCK FALSE
