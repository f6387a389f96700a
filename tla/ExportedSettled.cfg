\* One compilation of each node: an override of an imported resource.
SPECIFICATION Spec
CONSTANTS
  a1 = a1  a2 = a2  b1 = b1  na = na  nb = nb  t1 = t1  t2 = t2  v1 = v1  v2 = v2
  Absent = Absent
  Node = {na, nb}
  Compilation = {a1, b1}
  NodeOf <- OneEach
  Title = {t1}
  Value = {v1, v2}
  Query <- NoQuery
PROPERTIES CatalogSettled
CHECK_DEADLOCK FALSE
