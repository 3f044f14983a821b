\* Two edits by anyone at any step, one overlay, one matching thread, one request
\* or start that raises, one crash.
CONSTANTS
    Overlays = {o1}
    NoOverlay = NoOverlay
    Threads = {t1}
    MaxEdits = 2
    MaxFaults = 1
    MaxRestarts = 1
SPECIFICATION Spec
INVARIANTS
    RefreshStampHonest
    ServesSnapshot
    ActiveOverlayApplied
    OnlyOverlappedMatchesStale
