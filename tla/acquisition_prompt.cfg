\* A chip that answers in full and in time, keeps its answers over a mode switch, never fails,
\* and may send a byte too many behind the last one asked for. Packets carry two bytes of
\* payload: commands of 2, 4 and 6 bytes fill theirs, and one of 6 takes two transfers.
CONSTANTS
    ReadRetries = 2
    DrainLimit = 5
    InitRetries = 2
    UsbFaults <- NoFaults
    ModeSwitchDiscards = FALSE
    Prompt = TRUE
    NoisyAt <- Never
    MaxPipe = 2
    MaxPacket = 4
    ProbeBuffer = 8
    PurgeBuffer = 8
    MaxBytes = 7
    MaxRead = 6
    Segments <- OneOrTwo
    MaxExcess = 1
    BadStatus = FALSE
SPECIFICATION Spec
INVARIANTS
    ExcessNoticed
    PromptSucceeds
    PromptServes
