SPECIFICATION ReceiverSpec
CONSTANTS
    Shapes <- MCShapes
    MaxFrames = 3
    Batch = 2
    BufSize = 6
    FrameLimit = 2
    Threshold = 2
    EdgeCap = 2
    ParseAt = 3
    Hats <- MCHats
    Keys <- MCKeys
    StartRams <- MCStartRams
    OldPorts = {"expected", "port1", "port2"}
    Expected = "expected"
    Tries = 2
    Products = {"L1", "TIME", "RTK"}
    Generations = {1, 2}
INVARIANTS
    PassesFrameTheStream
    NeverSleepsOnBacklog
    StartedMeansConfigured
    WrittenIsSaved
    FaultFreeStartSucceeds
    NothingGoneIsUsed
    LinesRequestedOnce
PROPERTIES
    OneWakeupPerEpoch
    BacklogIsServed
    EveryStartReturns
    CallsEnd
