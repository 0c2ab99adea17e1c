SPECIFICATION Spec
CONSTANT JobIds = {j1, j2}
CONSTANT NoJob = NoJob
CONSTANT Retries = 2
CONSTANT Count = 3
CONSTANT Unresolvable = {}
CONSTANT Unroutable = {1}
CONSTANT Reliable = {}
CONSTANT Chatty = {0}
CONSTANT LongLogins = {2}
SYMMETRY JobSymmetry
INVARIANT TypeOK
INVARIANT MinerFollowsActivePool
INVARIANT ActivePoolIsConnected
INVARIANT NeverStranded
INVARIANT UndefinedOnlyWithStrays
INVARIANT LaterBackupsRest
PROPERTY ImplementsPoolSelector
