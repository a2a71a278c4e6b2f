SPECIFICATION Spec
CONSTANTS
    MockTries = 2
    WorkerTries = 2
INVARIANT AllStartedAreStopped
