CONSTANTS
    Commands <- AllCommands
    Inputs <- GrowingInputs
    MaxCaseBytes = 1
    MaxBatchBytes = 2
    MaxLineBytes = 2
    MaxBatchCases = 2
    MaxRuns = 1
    Partial = Partial
    None = None
SPECIFICATION Spec
INVARIANT InputBounded
CHECK_DEADLOCK FALSE
