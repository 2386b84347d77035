CONSTANTS
    Blank = Blank
    BadDigest = BadDigest
    None = None
    Cases <- StudyCases
    SyntheticId = 1
    First = "aa"
    Second = "bb"
SPECIFICATION Spec
INVARIANTS WitnessesAreOrderDependence CountsMatchFindings
           PassMeansContract CountsOrderFree PublishedVerifies AcceptedIsControl
