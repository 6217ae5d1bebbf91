SPECIFICATION Spec
CONSTANTS
  MTU = 4
  PidRange = 3
  Sizes = {2, 3, 5, 8}
  MaxFrames = 3
  MaxNet = 3
  MaxBuffer = 4
  MaxFailures = 0
CHECK_DEADLOCK FALSE
INVARIANTS PacketsFit CopyInBounds CompleteIsExact
