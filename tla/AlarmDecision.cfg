SPECIFICATION RequestSpec
CONSTANTS
    c1 = c1
    c2 = c2
    Clients = {c1, c2}
    NoClient = NoClient
    Main = Main
    Accept = Accept
    OperatorQuits = FALSE
    MAX_SIZE_SENSORS = 2
    NoMeasure = 0
    Measures <- Times
    MaxRemoteID = 1
    MaxFileLength = 0
    StrangersAllowed = FALSE
    InitialFiles <- NoFile
    WORD = 10
    RECENT = 2
    BASE = 2
    MaxTime = 5
CHECK_DEADLOCK FALSE
INVARIANT AlertHasEvidence
INVARIANT CrashNeedsDeparture
PROPERTY SilenceIsJustified
