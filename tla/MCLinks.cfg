CONSTANTS
    MaxLinks = 2
    MaxGroups = 2
    LastGroup = 3
    MaxBorn = 3
    MaxKeys = 2
    MaxEdits = 5
    MaxFaults = 1
SPECIFICATION Spec
INVARIANTS
    LinksTypeOK
    NothingLeftBehind
    SecretsOpen
PROPERTIES
    StartsClean
    EveryLinkChecked
