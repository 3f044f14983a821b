\* One job more than both limits hold, storage that raises once at any step and
\* one restart at any step.  The workers emit no progress (jobs_liveness has the
\* checkpoints).
CONSTANTS
    JobIds = {j1, j2, j3, j4}
    MAX_ACTIVE_JOBS = 2
    MAX_FINISHED_JOBS = 1
    MaxCheckpoints = 0
    MaxRestarts = 1
    MaxFaults = 1
SYMMETRY JobSymmetry
SPECIFICATION Spec
INVARIANTS
    OutcomeMatchesArtifacts
    LeaseFollowsClaim
    AcceptedCancelPreventsCompletion
    StrandedByFaults
    CapacityRespected
    StoreBounded
PROPERTY
    OwnResultSurvives
