SPECIFICATION LogSpec
CONSTANTS
  Capacity = 3
  MaxLength = 2
  Budget = 2
  TxDepth = 1
  Numbers = 5
PROPERTIES
  WholeMessages
  AsyncReturns
  FinishEnds
