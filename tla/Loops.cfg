CONSTANTS
    MaxMessages = 3
    MaximumFailures = 2
    MaximumDuration = 3
    InitialDelay = 4
    MaximumDelay = 6
    ScalingNum = 3
    ScalingDen = 2
    MicrosPerMilli = 2
    Horizon = 5
    MaxPages = 4
    MaxItems = 2
SPECIFICATION MCSpec
CHECK_DEADLOCK FALSE
INVARIANTS ReaderNotNull FinishAfterDrained DeliveredInOrder StatusIsHonest AttemptsBounded FinalIsHonest SeenInOrder PagesLoadedOnce
PROPERTIES NoReadAfterStop FinishIsLast FinishesEventually RetriesAreJustified LoopEnds ReachesEnd
