SPECIFICATION FairSpec
CONSTANTS
    Chunks = 3
    Boards <- MCBoards
    Pull <- MCPull
    None = None
INVARIANTS SamplesAreMeasured FilterIsFresh
PROPERTY KeepsSampling
