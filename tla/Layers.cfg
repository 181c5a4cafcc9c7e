SPECIFICATION Spec
CONSTANTS
  k1 = k1
  k2 = k2
  va = va
  vb = vb
  mv = mv
  red = red
  redk2 = redk2
  Base = Base
  Missing = Missing
  Absent = Absent
  ReadOnly = ReadOnly
  ReadWrite = ReadWrite
  Keys = {k1, k2}
  MetaKeys = {k1, k2}
  Vals = {va, vb}
  MetaVals = {mv}
  NewLayers = {red}
  StorageKey <- MCStorageKey
  WordBits = 1
  RegistryLimit = 2
SYMMETRY MCSymmetry
CONSTRAINT MCTwoArrays
INVARIANTS TypeOK BitmapsFillHeader MetaMatchesHeader FlushSucceeds FlushedIsSaved ContainsMeansReadable
PROPERTIES OnlyOwnCallsChangeALayer
