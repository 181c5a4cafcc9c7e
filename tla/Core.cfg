SPECIFICATION Spec
CONSTANTS
  k1 = k1
  k2 = k2
  va = va
  vb = vb
  ve = ve
  lz4 = lz4
  gzip = gzip
  main = main
  copy = copy
  Memory = Memory
  Junk = Junk
  Unloaded = Unloaded
  Missing = Missing
  Absent = Absent
  ReadOnly = ReadOnly
  ReadWrite = ReadWrite
  Keys = {k1, k2}
  Vals = {va, vb, ve}
  Codecs = {lz4, gzip}
  Empty = ve
  DefaultCodec = lz4
  Weight <- MCWeight
  HeaderBytes = 2
  EntryBytes = 1
  FixedBytes = 1
  Misreads <- MCMisreads
  MaxCount = 2
  Paths = {main, Memory}
  Remote = {}
  Perils = {}
INVARIANTS TypeOK DirtyIsLoaded WellLaidOut SliceReadsWhatGetReturns FlushSavesView FlushedIsSaved
PROPERTIES RefinesCatalog
