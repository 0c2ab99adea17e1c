SPECIFICATION Spec
CONSTANT JobIds = {j1, j2}
CONSTANT NoJob = NoJob
CONSTANT Retries = 2
CONSTANT Count = 2
CONSTANT Unresolvable = {}
CONSTANT Unroutable = {}
CONSTANT Reliable = {1}
CONSTANT Chatty = {}
CONSTANT LongLogins = {}
PROPERTY SomePoolBecomesActive
