CONSTANTS
    MaxU64 = 2
    BadNames = {"bad 1", "bad 2"}
    None = None
    Cases <- InputCases
SPECIFICATION Spec
INVARIANT UnapprovedInputNamed
