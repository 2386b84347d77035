CONSTANTS
    MaxU64 = 2
    BadNames = {"bad 1", "bad 2"}
    None = None
    Cases <- AllCases
    Domains <- TwoDomains
    WriteCount <- OneWrite
    ItemCount <- ItemsOf
    Environments <- SomeEnvironments
    Needed = {"brand", "bundle"}
    MaxCalls = 5
    MaxTurns = 2
SPECIFICATION ProbeSpec
INVARIANTS SaturatingCounters PassMeansBoundary CountsHaveFindings
    DeclaredIsObserved NoUnseenCall StudyVerifies
PROPERTIES HonestStudyVerifies
