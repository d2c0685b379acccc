SPECIFICATION LoopSpec
CONSTANTS
    MAX_CLIENTS = 2
    BATCH = 2
    MAX_COLS = 3
    MAX_ROWS = 3
    RawSizes <- Terminals
    MaxConns = 3
    Titles = {9}
    MaxTabs = 4
    MaxOpened = 4
INVARIANTS SharedSize RedrawBaseline AutoSaveCoversInput BarFreshUnlessAutoClosed
PROPERTIES RefinesTabList
