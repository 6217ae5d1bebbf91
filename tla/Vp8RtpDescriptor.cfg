SPECIFICATION Spec
CONSTANTS
  MTU = 4
  PidRange = 3
  Sizes = {2, 3, 5, 8}
  MaxFrames = 2
  MaxNet = 2
  MaxBuffer = 4
  MaxFailures = 0
CHECK_DEADLOCK FALSE
INVARIANT DescriptorIsRead
