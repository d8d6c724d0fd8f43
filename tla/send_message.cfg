CONSTANTS
    Calls = {c1, c2}
    MAX_RETRIES = 3
    None = None

SPECIFICATION Spec
INVARIANT WriteThrough
INVARIANT ResponseMatchesStore
INVARIANT StoredOutcomeEarned
PROPERTY StoredNeverRollsBack
PROPERTY CallEnds
CHECK_DEADLOCK FALSE
