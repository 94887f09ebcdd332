CONSTANTS
    MaxVersion = 1
    DevBuilds <- MCDevBuilds
    HeadLen = 2
    Size = 3
    Attempts = 2
    Nets = {"offline", "online"}
    MaxCuts = 1
    Loaders = {"web", "usb"}
    Files = {"a"}
    Own = "own"
    Records = 2
SPECIFICATION Spec
INVARIANTS
    UpdateTypeOK
    SomethingStarts
    AcceptedStays
    SetupWhole
    ResumesInOrder
PROPERTIES
    NeverAutoAgain
    ProbationEnds
    AcceptedApplied
