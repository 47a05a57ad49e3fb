CONSTANTS
    big = big
    Bytes <- MCBytes
    Event = {big, e1}
    WriteAge = 0
    ReadAge = 2
    ExpireAge = 3
    MaxWrites = 2
    MaxEventSize = 3
    MaxFileSize = 3
    MaxDirSize = 0
    MaxProbes = 2
    MaxBatches = 1
    FlushBatches = 1
    MaxStall = 1
    MaxTime = 3
    MaxBackSteps = 1
    MaxFaults = 1
    Faulty = {"list","delete","open","write","rename","torn"}
    MaxOutages = 1
    MaxRestarts = 1
    MaxTrouble = 1
SPECIFICATION Spec
INVARIANTS NoSilentLoss FilesInOrder ConsentKept PendingQuota ConfirmedOnce
PROPERTIES DeletesOnlyRead
