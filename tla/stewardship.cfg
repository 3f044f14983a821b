\* Two consoles, two versions, two distinguishable entries, one handler cut
\* short.
CONSTANTS
    Aliases = {a, b}
    MaxOverlays = 2
    MaxFaults = 1
    Consoles = {c1, c2}
    GapAlias = a
    Tracked = 1
SPECIFICATION StewardshipSpec
SYMMETRY Symmetry
INVARIANTS
    AtMostOneActive
    HalfCreatedByFaults
    QueueIsEarned
PROPERTIES
    ApprovalKeepsEntries
    ArchivedForGood
    NoApprovalPastReject
    OverlaysAsSpecified
CHECK_DEADLOCK FALSE
