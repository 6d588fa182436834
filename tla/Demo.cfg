SPECIFICATION ServerSpec
CONSTANTS
  NULL = NULL
  m = m
  users = users
  c1 = c1
  c2 = c2
  NoId = NoId
  Nobody = Nobody
  NullVal = NULL
  Tables <- MCTables
  Header <- MCHeader
  InitFiles <- MCFiles
  Values = {NULL, m}
  Split = {m}
  Rests <- MCRests
  MaxInt = 2
  Radix = 2
  MaxLines = 3
  Faults = {"read", "write", "crash"}
  Clients = {c1, c2}
  MaxStatements = 2
INVARIANTS ServerTypeOK StaleButRight ReplyTellsRun
PROPERTY RequestsAnswered
