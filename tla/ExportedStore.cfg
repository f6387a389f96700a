\* Two compilations of a node and one of another; collectors with and without query.
SPECIFICATION Spec
CONSTANTS
  a1 = a1  a2 = a2  b1 = b1  na = na  nb = nb  t1 = t1  t2 = t2  v1 = v1  v2 = v2
  Absent = Absent
  Node = {na, nb}
  Compilation = {a1, a2, b1}
  NodeOf <- TwoNodes
  Title = {t1}
  Value = {v1, v2}
  Query <- AnyQuery
INVARIANTS ImportsAreExports
PROPERTIES OriginStable ImportComplete FirstExportWins
CHECK_DEADLOCK FALSE
