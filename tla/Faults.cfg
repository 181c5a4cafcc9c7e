SPECIFICATION Spec
CONSTANTS
  k1 = k1
  k2 = k2
  va = va
  vb = vb
  ve = ve
  lz4 = lz4
  gzip = gzip
  main = main
  copy = copy
  Memory = Memory
  Junk = Junk
  Unloaded = Unloaded
  Missing = Missing
  Absent = Absent
  ReadOnly = ReadOnly
  ReadWrite = ReadWrite
  Keys = {k1, k2}
  Vals = {va, ve}
  Codecs = {lz4}
  Empty = ve
  DefaultCodec = lz4
  Weight <- MCWeight
  HeaderBytes = 2
  EntryBytes = 1
  FixedBytes = 1
  Misreads <- MCMisreads
  MaxCount = 2
  Paths = {main, copy, Memory}
  Remote = {copy}
  Perils = {"crash", "refused", "locked", "outage", "partial", "torn"}
CONSTRAINT MCOneFile
CONSTRAINT MCTwoEntries
SYMMETRY MCSymmetry
PROPERTIES CleanOnlyAfterStored TornFlushNeverLies
