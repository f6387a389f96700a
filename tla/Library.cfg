\* Two variables through three scopes and two defaults through four; integers of 5 bits,
\* floats with 2 bits of mantissa, strings of one of 8 bytes; a generator of five words.
SPECIFICATION LibrarySpec
CONSTANTS
  x = x  y = y  v1 = v1  v2 = v2  Unset = Unset
  Var = {x, y}
  Val = {v1, v2}
  Attr = {}
  Facts <- FactX
  Groups <- OneGroup
  ParamList <- Params
  MaxDepth = 3
  Calls <- LibraryCalls
  Half = 16
  Mantissa = 4
  Byte = 8
  MaxOut = 33
  N = 5
  M = 3
  Base = 4
  MaxDrawn = 16
  Asks <- LibraryAsks
  Fn <- AllFunctions
  Collection <- SomeCollections
  Tree <- SomeTrees
  Returned <- BlockValues
  Chunk = {0, 1, 2}
  MaxCap = 2
  Nil = Nil  False = False  Seed = Seed  Yes = Yes
INVARIANTS NamesResolved DefaultsResolved NumbersExact IterationAsDefined ExpressionsFollow FunctionsAgree SecretsOpaque RandomExact ChancesEqual
PROPERTIES BoundOnce NothingLeaks RangeEnds
CHECK_DEADLOCK FALSE
