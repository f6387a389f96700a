\* An iterator that lets a break through.
SPECIFICATION Spec
CONSTANTS
  ca = ca  cb = cb  nx = nx  d = d  define = define  class = class
  Main = Main  None = None  Absent = Absent
  Class = {ca}
  ClassName = {ca}
  Native = {}
  Instance = {d}
  Type = {define}
  TypeOf <- JumpTypeOf
  RelTarget = {}
  FormUsed = {"regular"}
  CallKind = {"each", "slice"}
  MaxDepth = 4
PROPERTIES BreakStopsIterator
