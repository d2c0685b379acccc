SPECIFICATION FairSpec
CONSTANTS
    Tabs = {1, 2}
    Ids = {0, 1}
    Snapshot = {1}
    Policies <- Restarts
    MAX_RESTART_RETRIES = 5
    STABLE = 3
    None = None
INVARIANTS RestartBudget
PROPERTIES DeadTabEnds
