SPECIFICATION TabSpec
CONSTANTS
    Titles = {9}
    MaxTabs = 3
    MaxOpened = 4
PROPERTIES RevertRestores
