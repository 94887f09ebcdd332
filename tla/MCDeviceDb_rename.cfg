CONSTANTS
    m1 = m1
    m2 = m2
    m3 = m3
    i1 = i1
    i2 = i2
    n1 = n1
    Mac = {m1}
    Addr = {i1}
    NoAddr = NoAddr
    Nick = {n1}
    NoNick = NoNick
    MaxSrc = 0
    MaxActive = 1
    BootActive = 1
    RegisterMax = 6
    OfflineAfter = 1
    MaxMiss = 2
    UserOps = {"rename"}
    Imports = {}
    NoRec = NoRec
SPECIFICATION Spec
INVARIANT NicknameSticks
