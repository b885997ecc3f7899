SPECIFICATION DeviceFairSpec
CONSTANTS
    ms = 2
    AxisValues <- AxisSamples
    RawValues <- RawSamples
    DivisionByZero <- Zeros
    IdSpace = 4
    MaxAlives = 1
INVARIANT DeviceInv
PROPERTY AlivesSpaced
PROPERTY IDRepeatsOnlyIfInterrupted
PROPERTY DetectedIsSent
