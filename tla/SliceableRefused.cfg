SPECIFICATION Spec
CONSTANTS
  None = None
  Shapes <- MCShapes
  ElementSizes = {1}
  BlockSizes = {4}
  MaxStep = 1
  Columns = {}
  ConfigBlockSize = 4
INVARIANT SliceableSupportsSlices
