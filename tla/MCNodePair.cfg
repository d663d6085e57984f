SPECIFICATION FairSpec
CONSTANTS
    Exits = {x1, x2}
    Requests = {r1, r2}
    MaxAnswers = 2
    MaxRounds = 2
    MaxLoops = 2
CHECK_DEADLOCK FALSE
INVARIANT TypeOK
INVARIANT PollsWhileAwaiting
INVARIANT CountersAgree
PROPERTY FailedDidNotAnswer
PROPERTY PollingStops
