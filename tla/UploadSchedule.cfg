CONSTANTS
    Feature = {f1, f2, f3}
    MinDelay = 3
    StartFactor = 2
    MaxFactor = 2
    Divisor = 2
    MaxCycle = 2
    Outcome = {"nothing", "success", "failure"}
SPECIFICATION FairSpec
INVARIANTS Punctual
PROPERTIES NoCycleEarly EveryFeatureServed StopEndsUploads
