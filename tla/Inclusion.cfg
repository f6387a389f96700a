\* Programs of three classes with short lists, of two classes with longer ones.
SPECIFICATION InclusionSpec
CONSTANTS
  ca = ca  cb = cb  cc = cc  nx = nx
  Main = Main  None = None  Absent = Absent
  Native = {}
  Instance = {}
  Type = {}
  TypeOf <- NoTypes
  RelTarget = {}
  FormUsed = {"regular"}
  CallKind = {}
  Manifest <- Programs
  Class = {ca, cb, cc}
  ClassName = {ca, cb, cc, nx}
  MaxDepth = 5
INVARIANTS IncludesReached ParentFirst ContainedWhereIncluded
PROPERTIES Terminates
CHECK_DEADLOCK FALSE
