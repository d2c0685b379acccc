SPECIFICATION Spec
CONSTANTS
  Fields = {"fg"}
  Wide = {"W"}
  Marks = {"m"}
  Undrawable = {"ctl"}
  CellCapacity = 2
  Rows = 2
  Cols = 3
  Limit = 2
  Sizes <- MCSizes
  Texts = {"a", "W"}
  Labels <- MCLabels
  Counts = {0, 1, 2}
  MaxSteps = 3
  MaxDraws = 3

  PaneRows = 2
  PaneCols = 3
  History = 2
  Scripts <- MCScripts
  WordChars = {"a", "W"}
  Sought = {"a"}
  MaxQuery = 1
  Names = {"", "x", "y"}
  MaxBuffers = 2
  MaxSeq = 3
  MaxSets = 4

  Bytes = {7, 10, 24, 27, 32, 60, 61, 62, 63, 74, 80, 91, 92, 93, 99, 104, 108, 117, 127, 156, 200}
  Numbers = {1047, 2004}
  BODY_MAX = 3
  PAYLOAD_MAX = 2
  TITLE_MAX = 1
  MAX_DEPTH = 1

  Slots <- MCSlots
  QUEUE_MAX = 2
  MaxRequests = 3
INVARIANTS WideHalvesPaired ReplayShowsScreen ClientShowsFrame YankIsTyped BuffersAreLatest
  ParsersAgree ClipboardConsent
