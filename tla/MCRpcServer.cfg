SPECIFICATION FairSpec
CONSTANTS
    Exchanges = {x1, x2}
    Statuses = {200, 204, 304, 429}
CHECK_DEADLOCK FALSE
INVARIANT ResponsesWellFormed
PROPERTY RequestsAnswered
