\* A chip that drops undelivered answers on a mode switch, speaks unasked until
\* then, and is slow, lossy and failing otherwise.
CONSTANTS
    ReadRetries = 2
    DrainLimit = 3
    InitRetries = 2
    UsbFaults <- SomeFaults
    ModeSwitchDiscards = TRUE
    Prompt = FALSE
    NoisyAt = {"closed", "reset", "purge1", "configure"}
    MaxPipe = 2
    MaxPacket = 4
    ProbeBuffer = 8
    PurgeBuffer = 4
SPECIFICATION MpsseSpec
INVARIANTS
    MpsseTypeOK
    EchoOrder
    SyncedMeansEmpty
CHECK_DEADLOCK FALSE
