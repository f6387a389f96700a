\* Two classes, one iterator: a jump out of a parent class.
SPECIFICATION Spec
CONSTANTS
  ca = ca  cb = cb  nx = nx  d = d  define = define  class = class
  Main = Main  None = None  Absent = Absent
  Class = {ca, cb}
  ClassName = {ca, cb}
  Native = {}
  Instance = {d}
  Type = {define}
  TypeOf <- JumpTypeOf
  RelTarget = {}
  FormUsed = {"regular"}
  CallKind = {"each"}
  MaxDepth = 4
PROPERTIES JumpKeepsClasses
