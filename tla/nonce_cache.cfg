CONSTANTS
    Payloads = {n1, n2}
    Calls = {c1, c2, c3}
    Stamps = {1, 2}
    TicksPerSec = 2
    SKEW = 1
    TTL = 2
    MAX_ENTRIES = 1
    MaxTime = 7
    None = None

SPECIFICATION NCSpec
SYMMETRY Symmetry
INVARIANT AcceptedOnce
INVARIANT RefusedOnlyIfRecent
CHECK_DEADLOCK FALSE
