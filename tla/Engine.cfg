SPECIFICATION Spec
CONSTANTS
  a = a
  m = m
  NULL = NULL
  users = users
  log = log
  ids = ids
  ghost = ghost
  NoId = NoId
  NullVal = NULL
  Tables <- MCTables
  Header <- MCHeader
  InitFiles <- MCFiles
  Values = {a, m, NULL}
  Split = {m}
  Rests <- MCRests
  MaxInt = 5
  Radix = 2
  MaxLines = 3
  Faults = {"memory", "read", "write", "crash"}
INVARIANTS TypeOK IndexAgrees NextIdIsFresh WhereAgreesWithScan AckedRowFound
PROPERTIES LoadableKept ImplementsPkTable
