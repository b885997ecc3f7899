SPECIFICATION Spec
CONSTANTS
    d1 = d1
    d2 = d2
    Devices = {d1, d2}
    NoDevice = NoDevice
    Servers <- SensorsOnly
    MaxFileLength = 1
    MaxOtherID = 2
INVARIANT UniqueDeviceIDs
