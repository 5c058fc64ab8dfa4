CONSTANTS
    None = None
    Addresses <- MCFullAddresses
    Readings <- MCReadings
    InitMayFail = TRUE
    EventCap = 1
    SsidChars = 32
    VersionChars = 6
SPECIFICATION PanelSpec
INVARIANT AddressIsWhole
