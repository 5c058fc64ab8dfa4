CONSTANTS
    Circle <- FineCircle
    Field = 5525
    SectorsRequired = 8
    MinRadius = 1105
    Microtesla = 221
    TurnsBack <- Stretch
SPECIFICATION IronSpec
INVARIANTS StillHasNoVote HalfTurnIsNotUsable OneWayIsClose
