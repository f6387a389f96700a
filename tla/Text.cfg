\* Texts of a few characters or tokens of each kind.
CONSTANTS
  Lower <- MCLower
  Upper <- MCUpper
  Digit <- MCDigit
  Keywords <- MCKeywords
  Sources <- AllSources
SPECIFICATION TextSpec
INVARIANTS TokensTile TokensLongest TreeStable WordsKept PartsFound ReadsBack SameProgram
PROPERTY ScanEnds
CHECK_DEADLOCK FALSE
