CONSTANTS
    MaxU64 = 5
    Files = {"a.py", "b.py"}
    Inputs <- AllInputs
    NoFile = NoFile
SPECIFICATION Spec
INVARIANTS EvidencePreserved CanonicalForm
PROPERTIES ImplementsEvidence
