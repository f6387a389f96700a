\* A class, a missing one and an instance, in every form, with calls, jumps, templates,
\* collectors, overrides and relationships.
SPECIFICATION Spec
CONSTANTS
  ca = ca  cb = cb  nx = nx  d = d  define = define  class = class
  Main = Main  None = None  Absent = Absent
  Class = {ca}
  ClassName = {ca, nx}
  Native = {ca}
  Instance = {d}
  Type = {class, define}
  TypeOf <- MixedTypeOf
  RelTarget = {ca}
  FormUsed = {"regular", "exported"}
  CallKind = {"func", "each", "epp"}
  MaxDepth = 4
INVARIANTS TypeOK ContainerInForce BuffersInForce NoReentry CatalogSound
PROPERTIES CatalogRefinement
