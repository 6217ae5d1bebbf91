SPECIFICATION Spec
CONSTANTS
  Cand <- MCCand
  Host <- MCHost
  Reflexive <- MCReflexive
  HangsUp = {"caller"}
  SpawnMayFail = {}
CHECK_DEADLOCK FALSE
INVARIANT ClosedIsReleased
