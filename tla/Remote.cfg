SPECIFICATION FairSpec
CONSTANTS
  short = short
  even = even
  long = long
  Versions = {short, even, long}
  Size <- MCSize
  HeaderSize <- MCHeaderSize
  Page = Page
  PageSize = 2
  Absent = Absent
  Nothing = Nothing
  east = east
  west = west
  Regions = {east, west}
  PathRegion = east
  Kinds = {"local", "fetch", "http", "s3"}
  Threshold = 4
  InitialRead = 3
  MinHeader = 1
  Sources <- MCSources
  Faults = {"lost", "busy", "moved", "replaced", "whole"}
CHECK_DEADLOCK FALSE
INVARIANTS TypeOK CacheIsTheObject
PROPERTIES RangesAreOfTheObject SavedMeansStored CallsEnd
