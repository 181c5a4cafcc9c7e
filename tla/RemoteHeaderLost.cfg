SPECIFICATION Spec
CONSTANTS
  short = short
  even = even
  long = long
  Versions = {short, even, long}
  Size <- MCSize
  HeaderSize <- MCHeaderSize
  Page = Page
  PageSize = 2
  Absent = Absent
  Nothing = Nothing
  east = east
  west = west
  Regions = {east, west}
  PathRegion = east
  Kinds = {"s3"}
  Threshold = 4
  InitialRead = 3
  MinHeader = 1
  Sources <- MCSources
  Faults = {"lost"}
CHECK_DEADLOCK FALSE
INVARIANTS OpensWithAnIndex
