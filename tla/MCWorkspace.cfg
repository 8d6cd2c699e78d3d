SPECIFICATION WorkspaceSpec
CONSTANTS
    None = None
    Order <- MCOrder
    Size <- MCSize
    Origin <- MCOrigin
    Path <- MCPath
    Unstable = {"big"}
    Destinations <- MCDestinations
    MaxBatches = 2
    MaxPacks = 2
    MaxCalls = 1
    Concurrency = 2
    ProgressEvery = 1
    MaxBreaks = 1
    Capsules = {"c1"}
    MaxBatchBytes = 5
    TargetPackBytes = 3
INVARIANTS WTypeOK VerifiedIsPacked ReadyBundleIsWhole TransferringIsWhole PlanFits
PROPERTIES ReadyPackKeeps DownloadSettles
CHECK_DEADLOCK FALSE
