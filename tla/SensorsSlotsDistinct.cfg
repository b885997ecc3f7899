SPECIFICATION SensorsSpec
CONSTANTS
    c1 = c1
    c2 = c2
    c3 = c3
    m = m
    Clients = {c1, c2, c3}
    NoClient = NoClient
    Main = Main
    Accept = Accept
    OperatorQuits = FALSE
    MAX_SIZE_SENSORS = 3
    NoMeasure = NoMeasure
    Measures = {m}
    MaxRemoteID = 0
    MaxFileLength = 0
    StrangersAllowed = FALSE
    InitialFiles <- NoFile
SYMMETRY Symmetry
INVARIANT SlotsDistinct
