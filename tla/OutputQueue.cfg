SPECIFICATION FairSpec
CONSTANTS
    HEADER = 1
    MAX_PAYLOAD = 3
    OUTPUT_BLOCK_BYTES = 3
    Payloads = {0, 1, 3}
    MaxAccepted = 9
INVARIANTS ByteAccounting NothingStranded CleanExitDeliversAll
PROPERTIES QueueDrains RefinesFrameStream
