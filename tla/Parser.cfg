SPECIFICATION Spec
CONSTANTS
  FirstCap = 4
  MaxTokens = 16
  MayFail = TRUE
INVARIANTS
  TypeOK
  AcceptsTheLanguage
  NothingLeaked
  InBounds
CHECK_DEADLOCK FALSE
