SPECIFICATION FairSpec
CONSTANTS
    CHANNEL = 2
    QUEUE_BYTES = 5
    Payloads = {0, 3, 5}
    MIN_SIZE = 1
    MaxSends = 4
INVARIANTS InputAccounting InOrder
PROPERTIES LossIsNoticed ReaderEnds
