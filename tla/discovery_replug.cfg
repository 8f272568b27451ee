\* One client, while a device may get the address of another with like endpoints.
CONSTANTS
    white = white
    black = black
    clone = clone
    mute = mute
    small = small
    one = one
    two = two
    left = left
    right = right
    None = None
    Clients <- OneClient
    Devices <- AllDevices
    Addresses <- BothAddresses
    Serials <- OneSerial
    Strings <- SomeStrings
    Trim <- SomeTrim
    ProductOf <- SomeProducts
    SerialOf <- SomeSerials
    ConfigOf <- LikeConfigs
    Faults <- SomeFaults
SPECIFICATION Spec
INVARIANT
    ReopenedIsEnumerated
