SPECIFICATION ExchangeFairSpec
CONSTANTS
    long = long
    short = short
    e1 = e1
    e2 = e2
    RequestIds <- MCRequestIds
    Size <- MCSize
    MaxBytes = 400
    MaxCopies = 2
    Requests = {long, short}
    Entry <- MCEntry
    ExitId = x1
    Versions = {33, 34}
    ExitVersion = 33
    Keys = {current, old}
    ExitKey = current
    ClientClock = {5}
    ExitClock = {7}
    RespTypes = {"Resp"}
CHECK_DEADLOCK FALSE
INVARIANT SlicesCoverMessage
INVARIANT CountIsCardinality
INVARIANT CopiesUsedOnce
INVARIANT ExchangeTypeOK
INVARIANT AnswersAgree
INVARIANT OnlyUnderstoodAnswered
PROPERTY UnderstoodGetAnswers
