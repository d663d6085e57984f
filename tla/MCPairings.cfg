SPECIFICATION FairSpec
CONSTANTS
    x1 = x1
    x2 = x2
    u1 = u1
    hex = hex
    own = own
    Entries = {e1, e2}
    Exits = {x1, x2}
    Rank <- MCRank
    Users = {u1}
    Clients = {hex, own}
    Owner <- MCOwner
    UuidTokens = {own}
    IdTokens = {own}
    Amounts = {0, 1, 3}
    Requests = {q1}
    MaxWrites = 2
    MaxChurn = 2
    DbFails = TRUE
CHECK_DEADLOCK FALSE
INVARIANT TypeOK
INVARIANT AnswersDescribeTheirRoutes
PROPERTY SelectionIsMaximal
PROPERTY RequestsAnswered
