SPECIFICATION Spec
CONSTANTS
    NumSources = 1
    Targets = {t1, t2}
    TopK = 2
    Retries = 2
    Profiles = {p1, p2}
    DefaultProfile = p1
    MaxRequests = 1
    NoTarget = NoTarget
INVARIANT
    UnusableReplyKeepsRanking
CHECK_DEADLOCK FALSE
