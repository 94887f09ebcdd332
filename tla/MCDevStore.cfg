CONSTANTS
    a = a
    b = b
    c = c
    Key = {a, b, c}
    KeyHash <- MCKeyHash
    n1 = n1
    Nick = {n1}
    NoNick = NoNick
    MaxSeen = 1
    MaxSlots = 2
    MaxFaults = 2
    Free = Free
    Absent = Absent
    NoRec = NoRec
SPECIFICATION Spec
INVARIANTS
    UsedIsCount
    OneRecordPerKey
PROPERTIES
    NamedStays
    ImplementsRegister
