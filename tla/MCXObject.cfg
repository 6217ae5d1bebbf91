CONSTANTS
  o1 = o1
  o2 = o2
  o3 = o3
  o4 = o4
  NULL = NULL
  Objects = {o1, o2, o3, o4}
  Name <- MCName4
  EQN <- MCEQN
  MaxHeld = 2
  Callers = {"any", "session", "stanza"}
SYMMETRY Sym4
SPECIFICATION CallerSpec
INVARIANTS TypeOK RefBalance CountExact
INVARIANTS SessionKeepsUsed StanzaListExact StanzaNextComplete StanzaNoDangling
CHECK_DEADLOCK FALSE
