\* A slow, lossy and failing chip that also sends bytes nobody asked for.
CONSTANTS
    ReadRetries = 2
    DrainLimit = 3
    InitRetries = 2
    UsbFaults <- OneFault
    ModeSwitchDiscards = TRUE
    Prompt = FALSE
    NoisyAt <- Anywhere
    MaxPipe = 1
    MaxPacket = 4
    ProbeBuffer = 8
    PurgeBuffer = 4
    MaxBytes = 1
    MaxRead = 1
    Segments <- One
    MaxExcess = 0
    BadStatus = FALSE
SPECIFICATION FairSpec
PROPERTIES
    CallsReturn
    InitBounded
