SPECIFICATION Spec
CONSTANTS
  a = a
  m = m
  NULL = NULL
  users = users
  log = log
  ids = ids
  ghost = ghost
  NoId = NoId
  NullVal = NULL
  Tables <- TopTables
  Header <- TopHeader
  InitFiles <- TopFiles
  Values = {a, NULL}
  Split = {}
  Rests = {}
  MaxInt = 3
  Radix = 2
  MaxLines = 4
  Faults = {}
PROPERTIES WrittenIdIsAboveStored
