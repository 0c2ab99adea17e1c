SPECIFICATION Spec
CONSTANT Threads = {w1, w2}
CONSTANT Jobs = {j1, j2}
CONSTANT NoJob = NoJob
CONSTANT MaxSequence = 3
CONSTANT MaxShares = 0
INVARIANT PausedIffNothingToMine
INVARIANT MinesPublishedJob
INVARIANT PausedThreadsDoNotMine
INVARIANT OnlyTornThreadsSurviveStop
PROPERTY EveryThreadCatchesUp
PROPERTY StopEndsUntornThreads
