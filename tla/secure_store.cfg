SPECIFICATION Spec
CONSTANTS
    Procs = {p1, p2}
    Passphrases = {right, wrong}
    SavePhrases = {right}
    Parts = 2
    MaxSaves = 3
    MaxCrashes = 1
INVARIANTS
    LastSaveStored
    OkSaveInstalled
    LoadedKeysStored
SYMMETRY Symmetry
CHECK_DEADLOCK FALSE
