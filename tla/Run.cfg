SPECIFICATION FairSpec
CONSTANTS
    MockTries = 2
    WorkerTries = 2
INVARIANTS TypeOK CleansUpItsOwn GreenMeansTested
PROPERTIES RunEnds
