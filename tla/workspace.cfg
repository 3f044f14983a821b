SPECIFICATION Spec
CONSTANTS
    Schema <- MCSchema
    MaxRevised <- MCMaxRevised
    MaxJobs = 1
    MaxDrafts = 2
INVARIANTS
    WorkspaceTypeOK
    OutputsAreOfUpload
    AppliedOnce
PROPERTIES
    DraftsKeepTheirUpload
CHECK_DEADLOCK FALSE
