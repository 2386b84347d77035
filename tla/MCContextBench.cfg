CONSTANTS
    MaxU64 = 2
    None = None
    Batches <- AllBatches
    MaxExamples = {0, 1, 2}
    Datasets <- SomeDatasets
    Registered <- ThreeCases
    TOLERANCE <- OneThousandth
    Partial = Partial
SPECIFICATION StudySpec
INVARIANTS PassMeansContract MetricsExact FailuresAccountedFor CountsAgree VerifiedIsWhole
