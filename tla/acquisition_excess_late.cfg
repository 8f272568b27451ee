\* The same chip when it is slow: the byte too many may come in a later transfer.
CONSTANTS
    ReadRetries = 2
    DrainLimit = 3
    InitRetries = 2
    UsbFaults <- NoFaults
    ModeSwitchDiscards = TRUE
    Prompt = FALSE
    NoisyAt <- Never
    MaxPipe = 2
    MaxPacket = 4
    ProbeBuffer = 8
    PurgeBuffer = 4
    MaxBytes = 2
    MaxRead = 1
    Segments <- One
    MaxExcess = 1
    BadStatus = FALSE
SPECIFICATION Spec
INVARIANT
    HealthyIsClean
