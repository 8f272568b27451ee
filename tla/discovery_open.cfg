\* Two clients, and devices that come and go, not all of them supported or even readable; any may
\* get the address of another.
CONSTANTS
    white = white
    black = black
    clone = clone
    mute = mute
    small = small
    one = one
    two = two
    left = left
    right = right
    None = None
    Clients <- BothClients
    Devices <- AllDevices
    Addresses <- BothAddresses
    Serials <- OneSerial
    Strings <- SomeStrings
    Trim <- SomeTrim
    ProductOf <- SomeProducts
    SerialOf <- SomeSerials
    ConfigOf <- SomeConfigs
    Faults <- SomeFaults
SPECIFICATION Spec
INVARIANTS
    ClaimsMatchHandles
    ReadyWhenOpen
    SelectedFromAll
    OpenedAsAsked
SYMMETRY Symmetry
VIEW ButResults
