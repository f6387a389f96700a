\* Plans that declare classes around an apply block that does the same, class cb also by
\* ensure_resource; the block's `with` may catch a jump that leaves a class half way.
SPECIFICATION ApplySpec
CONSTANTS
  ca = ca  cb = cb  class = class
  Main = Main  None = None  Absent = Absent
  Class = {ca, cb}
  ClassName = {ca, cb}
  Native = {cb}
  Instance = {}
  Type = {class}
  TypeOf <- EnsuredClass
  RelTarget = {}
  FormUsed = {"regular"}
  CallKind = {"with"}
  MaxDepth = 2
  BlockDepth = 5
  MaxApply = 1
INVARIANTS AppliedWhole
PROPERTIES PlanEvaluator
