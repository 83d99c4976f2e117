CONSTANTS
    cloud = cloud  listedHost = listedHost  otherHost = otherHost
    None = None
    MaxStarts = 2
    Providers = {cloud}
    Configs <- MCConfigs
    Hosts = {listedHost, otherHost}
    RemoteAllowed = TRUE
    Allowlist = {listedHost}
    MaxBatch = 2
    TotalUnmarked = 1
    MaxErrors = 2
    MaxEdits = 1
SPECIFICATION FairSpec
INVARIANTS TypeOK DialogReplaysStream ResultIsComplete OneReader
PROPERTIES GateHolds DialogEnds
