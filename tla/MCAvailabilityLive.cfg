SPECIFICATION FairSpec
CONSTANTS
    e1 = e1
    x1 = x1
    x2 = x2
    r1 = r1
    Entries = {e1}
    Exits = {x1}
    Relays = {r1}
    Links <- FullMesh
    Channels <- FullMesh
    Faults = {"noAnswer", "errorBody", "dbError", "deleteRefused", "latePong"}
    MaxChurn = 2
PROPERTY ImplementsRouteTables
PROPERTY MonitorKeepsRunning
PROPERTY SilentExitsAreUnpublished
