SPECIFICATION Spec
CONSTANTS
    Resets = {r1, r2}
    MaxIdentities = 3
    MaxMessages = 2
    MaxCrashes = 2
INVARIANTS
    IdentityDurable
PROPERTIES
    MessagesTaken
CHECK_DEADLOCK FALSE
