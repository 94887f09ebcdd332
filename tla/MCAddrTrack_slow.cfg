CONSTANTS
    Addrs = {a1, a2}
    Hosts = {h1, h2}
    None = None
    Slots = 2
    Confirm = 3
    Expire = 5
    MaxAge = 2
    Period = 4
    Walk = 2
    MaxSweeps = 6
    MaxMoves = 2
SPECIFICATION Spec
SYMMETRY Symmetry
INVARIANT
    SharedIsFound
CHECK_DEADLOCK FALSE
