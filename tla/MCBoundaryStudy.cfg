CONSTANTS
    Procs = {p1, p2}
    Builds <- SomeBuilds
    Registered <- RegisteredCase
    Partial = Partial
    None = None
SPECIFICATION Spec
SYMMETRY Symmetry
INVARIANTS TypeOK VerifiedIsRegistered
