CONSTANTS
    Adapters = {p1, p2}
    Binaries <- SomeBinaries
    None = None
SPECIFICATION Spec
SYMMETRY Symmetry
INVARIANTS AllOrNothing WinnerOwnsOutput LosesToAPublication NothingLeftBehind
CHECK_DEADLOCK FALSE
