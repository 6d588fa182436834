SPECIFICATION Spec
CONSTANTS
  a = a
  m = m
  NULL = NULL
  users = users
  log = log
  ids = ids
  ghost = ghost
  NoId = NoId
  NullVal = NULL
  Tables <- IdsTables
  Header <- IdsHeader
  InitFiles <- IdsFiles
  Values = {NULL}
  Split = {}
  Rests = {}
  MaxInt = 7
  Radix = 2
  MaxLines = 4
  Faults = {"read", "write", "crash"}
INVARIANT AckedRowFound
PROPERTY ImplementsPkTable
