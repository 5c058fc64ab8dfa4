CONSTANT Millivolts = {3499, 3501}
SPECIFICATION FairSpec
PROPERTIES ShutdownIsDue LowIsNoticed KeepsPolling
