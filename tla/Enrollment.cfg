SPECIFICATION FairSpec
CONSTANTS
    d1 = d1
    d2 = d2
    Devices = {d1, d2}
    NoDevice = NoDevice
    Servers <- BothServers
    MaxFileLength = 3
    MaxOtherID = 2
INVARIANT TypeOK
INVARIANT RegisteredIDsStored
INVARIANT EnrolledOnce
INVARIANT SharedOnlyIfUnregistered
PROPERTY ImplementsRegistry
PROPERTY AcceptThreadReturns
