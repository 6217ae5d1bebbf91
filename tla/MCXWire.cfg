SPECIFICATION WireSpec
CONSTANTS
    Alpha <- MCAlpha
    Digit = {"1"}
    Garbage = "garbage"
    Trees <- MCTrees
    Starts <- MCStarts
    MaxNoise = 4
INVARIANTS TypeOK Disciplined StructureKept AttributesKept
PROPERTIES DeliveredAll
CHECK_DEADLOCK FALSE
