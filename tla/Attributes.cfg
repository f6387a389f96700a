\* Declarations, functions and overrides, and collectors with queries some of which fail, on
\* two files and an instance.
SPECIFICATION PartSpec
CONSTANTS
  f = f  g = g  d = d  Unset = Unset
  Native = {f, g}
  Instance = {d}
  Name = {"ensure", "mode", "before", "tag"}
  Lists <- SomeLists
  OpLists <- SomeOps
  Defaults <- SomeDefaults
  Hashes <- SomeHashes
  Queries <- SomeQueries
  Form = {"regular", "virtual", "exported"}
  MaxLog = 3
INVARIANTS AttributesAsWritten MetaparamsWired
PROPERTIES EnsureKeeps CollectsMatching
CHECK_DEADLOCK FALSE
