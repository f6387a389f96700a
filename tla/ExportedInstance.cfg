\* One compilation of each node: an exported instance of a defined type.
SPECIFICATION Spec
CONSTANTS
  a1 = a1  a2 = a2  b1 = b1  na = na  nb = nb  t1 = t1  t2 = t2  v1 = v1  v2 = v2
  Absent = Absent
  Node = {na, nb}
  Compilation = {a1, b1}
  NodeOf <- OneEach
  Title = {t1, t2}
  Value = {v1, v2}
  Query <- NoQuery
INVARIANTS EveryExportStored
CHECK_DEADLOCK FALSE
