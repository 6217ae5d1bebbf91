SPECIFICATION Spec
CONSTANTS
  Cand <- MCCand
  Host <- MCHost
  Reflexive <- MCReflexiveCallee
  HangsUp = {"caller", "callee"}
  SpawnMayFail = {"caller", "callee"}
CHECK_DEADLOCK FALSE
INVARIANTS TypeOK RunningAgreement NoCandidateLost TerminateIsOurs NoOrphanThread
PROPERTIES CallIsAnswered HangUpReaches MakesACall
