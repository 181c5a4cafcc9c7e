SPECIFICATION Spec
CONSTANTS
  Threads = {t1, t2}
  Keys = {k}
  Layers = {l}
  Base = Base
  int = int
  float = float
  five = five
  half = half
  Vals = {five, half}
  Types = {int, float}
  TypeOf <- MCTypeOf
  Unloaded = Unloaded
  Missing = Missing
  Absent = Absent
  ReadOnly = ReadOnly
  ReadWrite = ReadWrite
  Path = Path
  Inheritance = TRUE
  ReadsMayFail = FALSE
  WriterFirst = FALSE
  MaxCalls = 2
INVARIANTS DestructorSavesAll
CHECK_DEADLOCK FALSE
