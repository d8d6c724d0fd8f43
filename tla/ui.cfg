SPECIFICATION UiSpec
CONSTANTS
    Peers = {p1, p2}
    Verified = {p1}
    None = none
    Timeouts = {5, 10}
    MaxCommands = 3
    MaxDrains = 2
INVARIANT SettingsKept
PROPERTIES
    SendsGoToChosen
    CommandsAnswered
CHECK_DEADLOCK FALSE
