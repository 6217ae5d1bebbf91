SPECIFICATION WireSpec
CONSTANTS
    Alpha <- MCAlpha
    Digit = {"1"}
    Garbage = "garbage"
    Trees <- MCPlainTrees
    Starts = {}
    MaxNoise = 0
INVARIANTS AttributesExact
CHECK_DEADLOCK FALSE
