\* Two nodes, enough connections for one to replace another, and a crash.
CONSTANTS
    Nodes = {1, 2}
    CloseWaits = TRUE
    Patient = TRUE
    MaxConns = 3
    MaxMessages = 1
    MaxCrashes = 1
SPECIFICATION FairSpec
CHECK_DEADLOCK FALSE
INVARIANT EntryWatched
PROPERTIES Agreement SentIsHandled StopsTogether
