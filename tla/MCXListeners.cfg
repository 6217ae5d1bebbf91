SPECIFICATION Spec
CONSTANTS
    Listening = {a, b, c}
    Following = {c, d, e}
    Handler = {e}
    Limit = 1
    Penalty = 1
    MaxLife = 0
    MinLife = 2
    MaxFollows = 3
    Owners = 3
    a = a
    b = b
    c = c
    d = d
    e = e
INVARIANTS TypeOK CellsExact WriteExact
PROPERTIES MulticastExact
SYMMETRY Symmetry
CHECK_DEADLOCK FALSE
