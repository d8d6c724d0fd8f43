SPECIFICATION Spec
CONSTANTS
    Callers = {c1, c2}
    Fps = {f1, f2}
    MaxIds = 3
    MaxMsgs = 1
INVARIANTS
    TrustLasts
    RecipientsHaveMessage
PROPERTIES
    ReadableStays
SYMMETRY Symmetry
CHECK_DEADLOCK FALSE
