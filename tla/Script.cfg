SPECIFICATION Spec
CONSTANTS
  Scripts <- MCScripts
  StrCap = 5
INVARIANTS
  TypeOK
  LexedAsDefined
  PositionsTrue
  StringFits
  CutAsLexed
  ExitCodeTrue
  ErrorNamesStatement
  TraceTellsTheRun
  EventsAreLines
PROPERTY
  RunEnds
CHECK_DEADLOCK FALSE
