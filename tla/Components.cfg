SPECIFICATION Spec
\* RecvBuffer
CONSTANT Size = 8
CONSTANT Slack = 2
CONSTANT MaxBytes = 11
\* JobData
CONSTANT Base = 4
CONSTANT Bytes = 1
CONSTANT MinSize = 3
CONSTANT MaxSize = 4
CONSTANT Capacity = 6
CONSTANT Ids = {i1, long}
CONSTANT LongId = long
CONSTANT NotHex = NotHex
CONSTANT Blobs <- MCBlobs
CONSTANT Targets <- MCTargets
CONSTANT Garbage <- MCGarbage
CONSTANT UrlNicehash = FALSE
CONSTANT Missing = Missing
\* Options
CONSTANT UrlArgs <- MCUrlArgs
CONSTANT Numbers <- MCNumbers
CONSTANT Configs <- MCConfigs
CONSTANT Devices <- MCDevices
CONSTANT Platform = 0
CONSTANT Reserve = 10
CONSTANT PerThread = 3
CONSTANT MaxVega = 70
CONSTANT MaxOther = 30
CONSTANT MaxArgs = 3
CONSTANT None = None
CONSTANT NoUrl = NoUrl
CONSTANT BuiltInUrl = BuiltInUrl
\* Adl
CONSTANT Busses = {b1, b2, b3}
CONSTANT Known = {b1, b2}
CONSTANT Levels = 2
CONSTANT Tables <- MCTables
CONSTANT Profiles <- MCProfiles
CONSTANT Settings <- MCSettings
CONSTANT High = 10
\* Hashrate
CONSTANT ThreadCount = 2
CONSTANT BucketSize = 4
CONSTANT Window = 2
CONSTANT Stuck = {0}
CONSTANT Leftovers = {0, 1}
CONSTANT MaxNow = 5
CONSTANT MaxCount = 3
CONSTANT MaxTicks = 5
\* Nonces
CONSTANT Count = 2
CONSTANT Space = 16
CONSTANT Block = 8
CONSTANT Prefix = 1
CONSTANT Intensity = 3
CONSTANT Jobs = {plain, nice}
CONSTANT Nicehash = {nice}
CONSTANT NoJob = NoJob
CONSTANT MaxPublished = 4
CONSTANT MaxRuns = 3
INVARIANT RecvInvariant
INVARIANT FittingPoolIsNotDropped
INVARIANT JobInvariant
INVARIANT OptionsInvariant
INVARIANT AdlInvariant
INVARIANT HashrateInvariant
INVARIANT NoncesInvariant
CHECK_DEADLOCK FALSE
