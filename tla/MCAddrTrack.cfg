CONSTANTS
    Addrs = {a1, a2, a3}
    Hosts = {h1, h2}
    None = None
    Slots = 3
    Confirm = 2
    Expire = 3
    MaxAge = 1
    Period = 2
    Walk = 1
    MaxSweeps = 7
    MaxMoves = 3
SPECIFICATION Spec
SYMMETRY Symmetry
INVARIANTS
    OnlyShared
    EntryFollows
    SharedIsFound
    MovesAreTold
CHECK_DEADLOCK FALSE
