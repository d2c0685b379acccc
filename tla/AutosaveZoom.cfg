SPECIFICATION Spec
CONSTANT None = None
CONSTANTS
  Dims <- MCDims
  FirstDim <- MCFirstDim
  Shapes <- MCShapes
  MaxLeaves = 4
  MaxEdits = 4
  Terms <- MCTerms
  Looks <- MCLooks
  Specs <- MCSpecs
  Ratios <- MCRatios
  MaxTabs = 2
  MaxPanes = 2
  MaxId = 3
  MaxClients = 1
  MaxName = 1
  MaxActs = 4
CHECK_DEADLOCK FALSE
INVARIANT SavesSucceed
