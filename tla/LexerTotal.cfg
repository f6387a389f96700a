\* The same texts: does scanning always end in tokens or an error?
CONSTANTS
  Lower <- MCLower
  Upper <- MCUpper
  Digit <- MCDigit
  Keywords <- MCKeywords
  Sources <- AllSources
SPECIFICATION TextSpec
INVARIANT LexTotal
CHECK_DEADLOCK FALSE
