\* A slow, lossy and failing chip that drops undelivered answers on a mode
\* switch and from then on sends no more than it is asked for.
CONSTANTS
    ReadRetries = 2
    DrainLimit = 3
    InitRetries = 2
    UsbFaults <- SomeFaults
    ModeSwitchDiscards = TRUE
    Prompt = FALSE
    NoisyAt = {"closed", "reset", "purge1", "configure"}
    MaxPipe = 2
    MaxPacket = 4
    ProbeBuffer = 8
    PurgeBuffer = 4
    MaxBytes = 3
    MaxRead = 2
    Segments <- OneOrTwo
    MaxExcess = 0
    BadStatus = TRUE
SPECIFICATION Spec
INVARIANTS
    TypeOK
    ExactlyFresh
    HealthyIsClean
    CommandOnClean
    OwnReply
    Accounting
PROPERTIES
    FailedIsFinal
    Provides
    CallBounded
