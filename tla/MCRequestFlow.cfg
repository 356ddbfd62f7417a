\* Two concurrent requests through a chain of three candidates; a candidate may answer, refuse the token, limit its rate or be unreachable.
SPECIFICATION FairSpec
CONSTANTS
    p1 = p1
    p2 = p2
    p3 = p3
    off = off
    r1 = r1
    r2 = r2
    Requests = {r1, r2}
    Profiles = {p1, p2, p3, off}
    Enabled = {p1, p2, p3}
    OAuth = {p1}
    Kind <- MCKind
    Backups <- ChainBackups
    Unsupported = {r2}
    Answers = {"ok", "rate_limited", "unauthorized", "unreachable"}
    MaxRetries = 1
    Threshold = 1
INVARIANTS FailoverInOrder AnswersAndCounters SendsBounded BreakersCoherent
PROPERTIES EveryRequestSettles OpenShedsLoad
CHECK_DEADLOCK FALSE
