CONSTANTS
    Sessions = {s1, s2}
    PERMITS = 1

SPECIFICATION Spec
INVARIANT SessionIsMutual
INVARIANT HalfOpenHasCause
PROPERTY PermitGranted
PROPERTY ConnectEnds
PROPERTY ServerDrains
