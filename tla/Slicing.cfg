SPECIFICATION Spec
CONSTANTS
  None = None
  Shapes <- MCShapes
  ElementSizes = {1, 2}
  BlockSizes = {1, 2, 3, 4, 6, 9}
  MaxStep = 3
  Columns <- MCColumns
  ConfigBlockSize = 4
INVARIANTS TypeOK GetReturnsWhatWasPut SliceIsReference
