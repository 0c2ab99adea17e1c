SPECIFICATION JobSpec
CONSTANT Base = 4
CONSTANT Bytes = 1
CONSTANT MinSize = 3
CONSTANT MaxSize = 4
CONSTANT Capacity = 6
CONSTANT Ids = {i1, long}
CONSTANT LongId = long
CONSTANT NotHex = NotHex
CONSTANT Blobs <- MCBlobs
CONSTANT Targets <- MCTargets
CONSTANT Garbage <- MCGarbage
CONSTANT UrlNicehash = FALSE
CONSTANT Missing = Missing
INVARIANT MaxBlobSizeIsKept
CHECK_DEADLOCK FALSE
