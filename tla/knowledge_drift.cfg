\* An operator changes the registry; someone then authors the glossary.
CONSTANTS
    Overlays = {o1}
    NoOverlay = NoOverlay
    Threads = {}
    MaxEdits = 2
    MaxFaults = 0
    MaxRestarts = 0
SPECIFICATION Spec
INVARIANT
    DriftNoticed
