SPECIFICATION Spec
CONSTANTS
  Args <- EvenThenOdd
  MaxKeys = 3
  Addr <- MCAddr
  Nil = Nil
  FirstKeys <- EvenKeys
  MayFail = TRUE
INVARIANT Balanced
PROPERTY ImplementsKeyMap
