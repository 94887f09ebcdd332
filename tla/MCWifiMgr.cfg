CONSTANTS
    Creds <- MCCreds
    Right = "right"
    Airs = {"ok", "gone", "nodhcp"}
    QueueLen = 2
    MaxEvents = 1
    MaxEdits = 2
SPECIFICATION Spec
INVARIANTS
    SettledIsTrue
    SomeWayIn
PROPERTIES
    Reconnects
