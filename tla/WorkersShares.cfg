SPECIFICATION Spec
CONSTANT Threads = {w1, w2}
CONSTANT Jobs = {j1}
CONSTANT NoJob = NoJob
CONSTANT MaxSequence = 2
CONSTANT MaxShares = 2
SYMMETRY ThreadSymmetry
INVARIANT TypeOK
INVARIANT QueuedShareIsSignalled
INVARIANT EachShareInOnePlace
INVARIANT DeliveredSharesAreReal
PROPERTY ImplementsShareChannel
