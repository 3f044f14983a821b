\* Three sets of an integration under one name or two, one handler cut short.
CONSTANTS
    Names = {a, b}
    Integrations = {i}
    Clients = {c}
    MaxSets = 3
    MaxFaults = 1
SYMMETRY NameSymmetry
SPECIFICATION Spec
INVARIANTS
    VersionsFollowIds
    LatestApprovedIsNewest
    AuditTellsStatus
    ReuseAccountedFor
