SPECIFICATION Spec
CONSTANT None = None
CONSTANTS
  Dims <- MCDims
  FirstDim <- MCFirstDim
  Shapes <- MCShapes
  MaxLeaves = 4
  MaxEdits = 4
  Terms <- MCTerms
  Looks <- MCLooks
  Specs <- MCSpecs
  Ratios <- MCRatios
  MaxTabs = 3
  MaxPanes = 2
  MaxId = 3
  MaxClients = 1
  MaxName = 1
  MaxActs = 3
CHECK_DEADLOCK FALSE
INVARIANTS PanesTile DragFollows ViewsAgree PanesFit AnswerIsForAsked
