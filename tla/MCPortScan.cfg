CONSTANTS
    Devices = 2
    TierPorts <- MCTierPorts
    MaxTier = 2
    RescanTier = 2
    RescanOn = TRUE
    MaxOpen = 1
    MaxEvents = 2
SPECIFICATION Spec
INVARIANTS
    TiersInOrder
PROPERTIES
    KeepsOpen
    EveryoneScanned
