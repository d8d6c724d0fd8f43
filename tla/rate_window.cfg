CONSTANTS
    Attempts = {c1, c2, c3, c4, c5}
    WINDOW = 2
    MAX_ATTEMPTS = 2
    MaxTime = 3

SPECIFICATION RLSpec
SYMMETRY Symmetry
INVARIANT RateWindow
INVARIANT RefusedOnlyWhenFull
CHECK_DEADLOCK FALSE
