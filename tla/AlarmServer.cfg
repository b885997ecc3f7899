SPECIFICATION AlarmSpec
CONSTANTS
    c1 = c1
    c2 = c2
    c3 = c3
    Clients = {c1, c2, c3}
    NoClient = NoClient
    Main = Main
    OperatorQuits = TRUE
SYMMETRY Symmetry
CHECK_DEADLOCK FALSE
INVARIANT AlarmInv
INVARIANT AlertAtMostOnce
INVARIANT MissedAtMostDepartures
INVARIANT UndefinedNeedsChurn
INVARIANT NeverWaits
INVARIANT NobodyLeftAtExit
