CONSTANTS
    m1 = m1
    m2 = m2
    m3 = m3
    i1 = i1
    i2 = i2
    n1 = n1
    Mac = {m1,m2,m3}
    Addr = {i1}
    NoAddr = NoAddr
    Nick = {}
    NoNick = NoNick
    MaxSrc = 2
    MaxActive = 2
    BootActive = 1
    RegisterMax = 6
    OfflineAfter = 2
    MaxMiss = 3
    UserOps = {}
    Imports = {}
    NoRec = NoRec
SPECIFICATION Spec
INVARIANTS
    OneEntryPerDevice
    NothingLost
    EveryDeviceRecorded
    NewIsNew
PROPERTIES
    OnlineStays
SYMMETRY MCSymmetry
