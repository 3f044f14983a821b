\* The cancel request a starting thread overwrites.
CONSTANTS
    JobIds = {j1}
    MAX_ACTIVE_JOBS = 2
    MAX_FINISHED_JOBS = 1
    MaxCheckpoints = 1
    MaxRestarts = 0
    MaxFaults = 0
SPECIFICATION Spec
INVARIANT
    EveryAcceptedCancelPreventsCompletion
