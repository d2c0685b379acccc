SPECIFICATION SetupSpec
CONSTANTS
    Tabs = {1, 2}
    Ids = {0, 1}
    Snapshot = {1, 2}
    Policies <- Restarts
    MAX_RESTART_RETRIES = 2
    STABLE = 2
    None = None
INVARIANTS EveryPaneConfigured
