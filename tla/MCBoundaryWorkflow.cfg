CONSTANTS
    Job = job
    Procs <- OneProcess
    Builds <- SomeBuilds
    Registered <- RegisteredCase
    Partial = Partial
    None = None
SPECIFICATION JobSpec
INVARIANTS UploadVetted GreenMeansRegistered
PROPERTIES EveryJobGated
CHECK_DEADLOCK FALSE
