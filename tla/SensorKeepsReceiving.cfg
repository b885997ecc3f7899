SPECIFICATION ClientFairSpec
CONSTANTS
    conn = conn
    Conns = {conn}
    Alarms = {}
    Main = Main
    Acceptor = Acceptor
    Alerter = Alerter
    Others = {Main, Acceptor, Alerter}
    Free = Free
    Elsewhere = Elsewhere
    Handles = {1, 2}
    SendBuffer = 1
    MAX_ERROR_COMM = 2
CHECK_DEADLOCK FALSE
PROPERTY KeepsReceiving
