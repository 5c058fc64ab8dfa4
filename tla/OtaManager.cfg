CONSTANTS
    Versions = {v1, v2}
    Sizes = {2, 3, 4}
    Chunks = {1, 2}
    PartitionSize = 3
    Rollback = TRUE
SPECIFICATION FairSpec
INVARIANTS RunningIntact SelectedBoots ActiveIffInFlight
PROPERTIES ConfirmedStays ImplementsProgress UpdateEnds RequestIsServed
