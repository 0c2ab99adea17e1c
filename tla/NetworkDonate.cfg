SPECIFICATION Spec
CONSTANT JobIds = {j1, j2}
CONSTANT NoJob = NoJob
CONSTANT Retries = 1
CONSTANT Refusable = {}
CONSTANT Chatty = {}
CONSTANT LongLogins = {}
INVARIANT NeverLooseHashes
