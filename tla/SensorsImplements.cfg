SPECIFICATION SensorsFairSpec
CONSTANTS
    c1 = c1
    c2 = c2
    m = m
    Clients = {c1, c2}
    NoClient = NoClient
    Main = Main
    Accept = Accept
    OperatorQuits = TRUE
    MAX_SIZE_SENSORS = 2
    NoMeasure = NoMeasure
    Measures = {m}
    MaxRemoteID = 1
    MaxFileLength = 1
    StrangersAllowed = TRUE
    InitialFiles <- EitherFile
PROPERTY TCPFairSpec
CHECK_DEADLOCK FALSE
