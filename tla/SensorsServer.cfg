SPECIFICATION SensorsSpec
CONSTANTS
    c1 = c1
    c2 = c2
    c3 = c3
    m = m
    Clients = {c1, c2, c3}
    NoClient = NoClient
    Main = Main
    Accept = Accept
    OperatorQuits = FALSE
    MAX_SIZE_SENSORS = 2
    NoMeasure = NoMeasure
    Measures = {m}
    MaxRemoteID = 2
    MaxFileLength = 2
    StrangersAllowed = TRUE
    InitialFiles <- SharedFile
SYMMETRY Symmetry
INVARIANT SensorsInv
INVARIANT SlotsInBounds
INVARIANT ScanCoversMeasures
INVARIANT NewDeviceTakesNoRegister
INVARIANT ReloadKeepsIDs
INVARIANT OnlyLatestServes
INVARIANT PositionsSharedAfterDeparture
PROPERTY TakeOverComplete
