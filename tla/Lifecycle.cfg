SPECIFICATION FairSpec
CONSTANT Gpus = {"g1", "g2"}
CONSTANT Threads <- MCThreads
CONSTANT Signals = {TERM, INT}
CONSTANT None = None
CONSTANT MaxTicks = 1
CONSTANT MaxAsked = 3
INVARIANT LifecycleInvariant
PROPERTY RequestsAreSafeInTheLoop
PROPERTY CloseEndsTheProcess
CHECK_DEADLOCK FALSE
