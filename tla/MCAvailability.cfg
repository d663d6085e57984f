SPECIFICATION Spec
CONSTANTS
    e1 = e1
    x1 = x1
    x2 = x2
    r1 = r1
    Entries = {e1}
    Exits = {x1, x2}
    Relays = {}
    Links <- Line
    Channels <- Ends
    Faults = {"noAnswer", "errorBody", "dbError", "deleteLost"}
    MaxChurn = 1
INVARIANT TypeOK
INVARIANT OnlineMeansAnsweredNow
PROPERTY RoutesObserved
