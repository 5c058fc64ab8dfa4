CONSTANTS
    Devices = {"me", "other"}
    DeviceId = "me"
    Forms = {"expected", "invalid", "binary", "large"}
    MessageCap = 4
    ReceiveCap = 2
    CommandCap = 1
    ConfigCap = 1
SPECIFICATION FairSpec
INVARIANTS NothingAcceptedIsLost OnlyMine ConfigurationApplies
PROPERTY QueueDrains
