CONSTANTS
    ExpectedFiles = {r1, r2}
    BinaryFiles = {r2}
    Others = {o1}
SPECIFICATION CheckoutSpec
INVARIANTS ParsedIsRegistered ImportedIsRegistered
PROPERTIES LeavesNoTrace
