CONSTANTS
    None = None
    Addresses <- MCAddresses
    Readings <- MCReadings
    InitMayFail = TRUE
    EventCap = 1
    SsidChars = 32
    VersionChars = 6
SPECIFICATION PanelSpec
INVARIANTS
    ScreenIsCurrent
    UpdateOwnsPanel
    AddressIsTrue
    ScreenIsLegible
