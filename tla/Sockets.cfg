SPECIFICATION ClientFairSpec
CONSTANTS
    conn = conn
    Conns = {conn}
    Alarms = {conn}
    Main = Main
    Acceptor = Acceptor
    Alerter = Alerter
    Others = {Main, Acceptor, Alerter}
    Free = Free
    Elsewhere = Elsewhere
    Handles = {1, 2}
    SendBuffer = 1
    MAX_ERROR_COMM = 2
CONSTRAINT Unraced
CONSTRAINT TwoAtWork
CHECK_DEADLOCK FALSE
INVARIANT StraysOnlyIfRaced
INVARIANT LeaksOnlyIfRaced
PROPERTY StoppedEnds
PROPERTY LeftEnds
