SPECIFICATION Spec
CONSTANTS
  short = short
  long = long
  layer1 = layer1
  Keys = {short, long}
  Layers = {layer1}
  Base = Base
  NameLength <- MCNameLength
  Cut <- MCCut
  Shapes <- MCShapes
  BlockSizes = {1, 2}
  MaxLength = 20
  MaxCount = 2
  MaxDims = 2
  MaxBlocks = 3
  WordBits = 2
  MaxArrays = 3
  Absent = Absent
  Garbage = Garbage
INVARIANTS WhatIsWrittenCanBeRead
