SPECIFICATION Spec
CONSTANTS
  w1 = w1
  w2 = w2
  Writers = {w1}
  LineCap = 30
  InsertRows <- LineFeedRows
  InitFiles <- EmptyFiles
  MaxBytes <- LineFeedBytes
PROPERTY InsertAddsOneRow
