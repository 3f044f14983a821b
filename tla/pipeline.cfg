SPECIFICATION FairRunSpec
CONSTANTS
    MaxSize = 2
    Weights = {10, 11, 20, 21, 30, 31}
    NoScore = NoScore
    NumSources = 2
    Targets = {t1, t2}
    TopK = 2
    Retries = 2
    Profiles = {p1, p2}
    DefaultProfile = p1
    MaxRequests = 1
    NoTarget = NoTarget
INVARIANTS
    AcceptedAreOneToOne
    PreferredTargetTaken
    RunsUndisturbed
PROPERTY
    PipelineEnds
    AssignsAsSpecified
CHECK_DEADLOCK FALSE
