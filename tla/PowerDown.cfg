CONSTANTS
    None = None
    Addresses = {}
    Readings = {}
    InitMayFail = TRUE
    EventCap = 2
    RequestCap = 1
SPECIFICATION Spec
INVARIANT AnnouncedOnce
PROPERTIES HoldPowersOff LowBatteryPowersOff GoodbyeIsShown
