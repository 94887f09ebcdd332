CONSTANTS
    Ring = 2
    Streak = 2
    Nets = {"up", "nodns", "down"}
    MaxId = 2
    MaxFaults = 1
SPECIFICATION Spec
INVARIANT FeedTypeOK
PROPERTIES
    FeedKept
    VerdictSettles
