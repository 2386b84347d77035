CONSTANTS
    Commands <- AllCommands
    Inputs <- ShortInputs
    MaxCaseBytes = 3
    MaxBatchBytes = 4
    MaxLineBytes = 2
    MaxBatchCases = 1
    MaxRuns = 2
    Partial = Partial
    None = None
SPECIFICATION Spec
INVARIANTS ExitTellsVerdict OnlyWholeCasesAudited
PROPERTIES OutputOnlyFromReport EndsDespiteProducer
CHECK_DEADLOCK FALSE
