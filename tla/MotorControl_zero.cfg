SPECIFICATION FairSpec
CONSTANTS
    Unit = 4
    NoFilter = NoFilter
    Watchdog = 2
    LoopDelay = 1
    MaxLag = 1
    CommandCap = 1
    ConfigCap = 1
    TelemetryCap = 1
    DefaultConfig <- MCDefault
    Moves <- MCMoves
    Configs = {}
PROPERTY ZeroStops
