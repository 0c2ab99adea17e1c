SPECIFICATION Spec
CONSTANT Threads = {w1}
CONSTANT Jobs = {j1}
CONSTANT NoJob = NoJob
CONSTANT MaxSequence = 2
CONSTANT MaxShares = 0
PROPERTY StopEndsEveryThread
