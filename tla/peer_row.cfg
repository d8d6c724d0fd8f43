CONSTANTS
    Calls = {c1, c2}
    Discoveries = {d1, d2}
    NoRow = NoRow

SPECIFICATION Spec
INVARIANT VerifiedOnlyIfTrusted
PROPERTY VerificationLostByStaleWrite
CHECK_DEADLOCK FALSE
