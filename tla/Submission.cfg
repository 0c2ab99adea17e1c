SPECIFICATION Spec
CONSTANT Count = 2
CONSTANT Diffs = {1, 2}
CONSTANT TopSize = 2
CONSTANT MaxSequence = 3
CONSTANT MaxShares = 2
CONSTANT LongLogins = {}
INVARIANT CountedOnce
INVARIANT ResultsInvariant
INVARIANT MisroutedOnlyAfterSwitch
INVARIANT StatisticsInvariant
PROPERTY SilentPoolIsGivenUp
