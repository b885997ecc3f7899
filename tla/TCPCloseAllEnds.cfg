SPECIFICATION TCPFairSpec
CONSTANTS
    c1 = c1
    Clients = {c1}
    NoClient = NoClient
    Main = Main
    OperatorQuits = TRUE
PROPERTY CloseAllEnds
CHECK_DEADLOCK FALSE
