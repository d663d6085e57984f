SPECIFICATION FairSpec
CONSTANTS
    e1 = e1
    x1 = x1
    x2 = x2
    r1 = r1
    Entries = {e1}
    Exits = {x1}
    Relays = {r1}
    Links <- FullMesh
    Channels <- FullMesh
    Faults = {"deleteLost"}
    MaxChurn = 1
PROPERTY MonitorKeepsRunning

