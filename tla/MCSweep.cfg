CONSTANTS
    Hosts = 3
    Ring = 2
    Lag = 2
    Harvest = 2
    Table = 4
    Life = 2
    MaxErrors = 2
    OfflineAfter = 2
    MaxHere = 2
    MaxMishaps = 2
    MaxMoves = 1
SPECIFICATION Spec
PROPERTIES
    HereStaysOnline
    GoneGoesOffline
