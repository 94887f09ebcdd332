CONSTANTS
    m1 = m1
    m2 = m2
    m3 = m3
    i1 = i1
    i2 = i2
    n1 = n1
    Mac = {m1}
    Addr = {i1,i2}
    NoAddr = NoAddr
    Nick = {}
    NoNick = NoNick
    MaxSrc = 0
    MaxActive = 2
    BootActive = 1
    RegisterMax = 1
    OfflineAfter = 1
    MaxMiss = 2
    UserOps = {"rename", "forget", "import"}
    Imports <- MCImports
    NoRec = NoRec
SPECIFICATION FairSpec
INVARIANTS
    SplitAtHome
PROPERTIES
    SilentGoesOffline
    DirtyIsWritten
