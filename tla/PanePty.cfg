SPECIFICATION FairSpec
CONSTANTS
    CHANNEL = 2
    MAX_DRAIN = 2
    TTY_BUFFER = 2
INVARIANTS ExitAfterOutput
PROPERTIES ExitNoticed DropEnds
