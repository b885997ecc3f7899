SPECIFICATION TCPFairSpec
CONSTANTS
    c1 = c1
    c2 = c2
    c3 = c3
    Clients = {c1, c2, c3}
    NoClient = NoClient
    Main = Main
    OperatorQuits = TRUE
INVARIANT TCPInv
INVARIANT NoWaitBeforeQuit
INVARIANT LiveClientsReachable
INVARIANT ServerExitsLast
CHECK_DEADLOCK FALSE
PROPERTY StoppedClientEnds
