SPECIFICATION DiscSpec
CONSTANTS
    s1 = s1
    s2 = s2
    s3 = s3
    s4 = s4
    f1 = f1
    f2 = f2
    f3 = f3
    Services = {s1, s2, s3, s4}
    Fingerprints = {f1, f2, f3}
    NameOf <- Names
    TxtOf <- Txts
    NoFp = NoFp
    Cap = 2
    MaxAge = 1
    Top = 9
    OverflowChecks = TRUE
    Skews <- BehindAndAhead
    Start = 1
    MaxClock = 5
    MaxBeacons = 2
    MaxCopies = 2
    MaxChanges = 4
CHECK_DEADLOCK FALSE
INVARIANTS
    ReplaysEnd
    ListenerOutlivesDatagrams
    ViewSettles
PROPERTIES
    ProducerEnds
