\* Storage that does not fail; no symmetry, since liveness is checked.
CONSTANTS
    JobIds = {j1, j2}
    MAX_ACTIVE_JOBS = 2
    MAX_FINISHED_JOBS = 1
    MaxCheckpoints = 1
    MaxRestarts = 1
    MaxFaults = 0
SPECIFICATION FairSpec
PROPERTIES
    EveryJobSettles
    ImplementsLifecycle
