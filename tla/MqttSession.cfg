CONSTANTS
    StreamCap = 2
    BundleCap = 1
    PublishCap = 5
SPECIFICATION SessionFairSpec
INVARIANTS ConnectedIffServing QueuedInSession
PROPERTIES Reconnects StatusFollows
