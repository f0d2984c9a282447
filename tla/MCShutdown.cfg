CONSTANT IOFails = TRUE
SPECIFICATION FairSpec
INVARIANTS NoLostWakeup DeviceOutlivesLoops CauseReported  StrayWriteNeedsFailure
PROPERTIES EveryEndReturns
