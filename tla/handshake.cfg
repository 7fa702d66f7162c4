SPECIFICATION FairSpec
CONSTANTS
    Modes <- BothModes
    Concurrency = 3
    Repetitions = 2
    Packets = 2
INVARIANTS
    TypeOK
    BatchStartsTogether
PROPERTIES
    WrittenWhileMeasured
    EveryoneEnds
CHECK_DEADLOCK FALSE
