CONSTANTS
    MaxU64 = 5
    Files = {"a.py", "b.py"}
    NoFile = NoFile
    Overflow = Overflow
    Sets <- TwoFileSets
SPECIFICATION Spec
INVARIANTS CountExact CardinalitiesExact
PROPERTIES Terminates
