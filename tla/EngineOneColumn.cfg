SPECIFICATION Spec
CONSTANTS
  a = a
  m = m
  NULL = NULL
  users = users
  log = log
  ids = ids
  ghost = ghost
  NoId = NoId
  NullVal = NULL
  Tables <- OneTables
  Header <- OneHeader
  InitFiles <- OneFiles
  Values = {a, NULL}
  Split = {}
  Rests = {}
  MaxInt = 2
  Radix = 2
  MaxLines = 3
  Faults = {}
PROPERTIES AckedInsertAddsOneRow
