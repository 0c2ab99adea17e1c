SPECIFICATION Spec
CONSTANT JobIds = {j1, j2}
CONSTANT NoJob = NoJob
CONSTANT Retries = 1
CONSTANT Refusable = {"donor"}
CONSTANT Chatty = {"donor"}
CONSTANT LongLogins = {"pool"}
INVARIANT MinerFollowsPool
INVARIANT PoolNeverStranded
INVARIANT DonationCycleGoesOn
INVARIANT NetworkInvariant
PROPERTY PoolIsMinedAgain
