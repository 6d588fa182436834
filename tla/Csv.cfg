SPECIFICATION Spec
CONSTANTS
  w1 = w1
  w2 = w2
  Writers = {w1, w2}
  LineCap = 8
  InsertRows <- MCRows
  InitFiles <- MCFiles
  MaxBytes <- MCBytes
INVARIANT TypeOK
PROPERTIES AppendedRowIsLast RowsStay TornWriteLeavesPrefix
